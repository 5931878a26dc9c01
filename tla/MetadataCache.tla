--------------------------- MODULE MetadataCache ---------------------------
(***************************************************************************)
(* The metadata cache of one directory and the handlers that read, fill    *)
(* and invalidate it: getMetadataHandler with its batches and the          *)
(* stat_resolver promises that later requests wait on, readDirectoryHandler*)
(* and the handlers of the operations that change the directory.           *)
(*                                                                         *)
(* Each handler, and each reply, runs to completion before the next one:   *)
(* the promise callbacks a reply makes ready run before the next task and  *)
(* are part of the reply here.  Messages go to the native module and back  *)
(* in FIFO order; a message answered SHOULD_RETRY is posted again, behind  *)
(* those sent meanwhile.  The file server changes only by what this client *)
(* asks; a file is its version, and every change gives it a new one.       *)
(***************************************************************************)
EXTENDS Integers, Sequences, FiniteSets

CONSTANTS Names,        \* names of the directory's entries
          BatchSize,    \* entries asked of getBatchToUpdate; the code passes 64
          AttemptCount, \* attempts of getRetryingPromise; the code passes 3
          MaxRequests,  \* bound: requests of the Files app in a behaviour
          Operations,   \* the operations the Files app uses besides metadata
          Faults        \* which of "FAILED", "SHOULD_RETRY", "expiry" happen

AllOperations == {"openFile", "deleteEntry", "truncate", "moveEntry",
                  "copyEntry", "writeFile", "createFile"}

ASSUME BatchSizeAssumption == BatchSize \in Nat \ {0}
ASSUME AttemptCountAssumption == AttemptCount \in Nat \ {0}
ASSUME MaxRequestsAssumption == MaxRequests \in Nat
ASSUME OperationsAssumption == Operations \subseteq AllOperations
ASSUME FaultsAssumption == Faults \subseteq {"FAILED", "SHOULD_RETRY", "expiry"}

Requests == 1..MaxRequests
None == 0          \* no resolver
Unknown == -1      \* the size of an entry that has not been stat()ed
Gone == 0          \* the version of a name that is not on the server

VARIABLES
    cached,       \* the directory is in the cache
    entries,      \* what the cache holds of each name: the version stat() saw or
                  \* Unknown, and the batch whose stat_resolver is on the entry
    incomplete,   \* incomplete_entries
    asked,        \* how many requests the Files app has made
    answer,       \* what each request was told
    waitsOn,      \* the stat_resolver a request waits on: a name and a batch
    toNacl, toJs, \* messages under way in each direction
    server,       \* the version of each name on the file server
    clock,        \* the last version given out
    raced         \* history: names whose cached metadata an operation outran

cacheVars == <<cached, entries, incomplete>>
appVars == <<asked, answer, waitsOn>>
serverVars == <<server, clock>>
vars == <<cacheVars, appVars, toNacl, toJs, serverVars, raced>>

NoEntry == [stat |-> Gone, resolver |-> None]
Entry(stat, resolver) == [stat |-> stat, resolver |-> resolver]
Present(n) == entries[n] # NoEntry

NotWaiting == [name |-> {}, batch |-> None]

MetadataKinds == {"getMetadata", "batchGetMetadata", "readDirectory"}

\* A message is of the request just asked; target is the new name of a move.
Message(kind, names, target, needsStat) ==
    [request |-> asked + 1, kind |-> kind, names |-> names, target |-> target,
     needsStat |-> needsStat, attempt |-> 1]

Init ==
    /\ cached = FALSE
    /\ entries = [n \in Names |-> NoEntry]
    /\ incomplete = {}
    /\ asked = 0
    /\ answer = [r \in Requests |-> "none"]
    /\ waitsOn = [r \in Requests |-> NotWaiting]
    /\ toNacl = <<>>
    /\ toJs = <<>>
    /\ server = [n \in Names |-> 1]
    /\ clock = 1
    /\ raced = {}

-----------------------------------------------------------------------------
(* The cache.  stats tells of each name what the server said: a version,   *)
(* Unknown where only the name is known, and Gone of names it left out.    *)

Told(stats) == {n \in Names : stats[n] # Gone}

\* cacheDirectoryContents: whatever was cached of the directory is overwritten.
CacheDirectoryContents(stats) ==
    /\ cached' = TRUE
    /\ entries' = [n \in Names |-> IF n \in Told(stats) THEN Entry(stats[n], None)
                                                      ELSE NoEntry]
    /\ incomplete' = {n \in Names : stats[n] = Unknown}

\* What getBatchToUpdate may take out of incomplete_entries: it walks them in
\* the order of the listing, and any order is some listing's.
BatchesToUpdate ==
    {taken \in SUBSET incomplete :
        \/ Cardinality(taken) = BatchSize
        \/ taken = incomplete /\ Cardinality(taken) < BatchSize}

\* getBatchToUpdate for the batch of request r: its resolvers go on what it took.
TakeBatch(taken, r) ==
    /\ entries' = [n \in Names |-> IF n \in taken THEN Entry(entries[n].stat, r)
                                                 ELSE entries[n]]
    /\ incomplete' = incomplete \ taken
    /\ UNCHANGED cached

\* updateMetadata of every name in stats.
UpdateMetadata(stats) ==
    /\ UNCHANGED cached
    /\ IF cached
         THEN /\ entries' = [n \in Names |-> IF n \in Told(stats)
                                               THEN Entry(stats[n], None) ELSE entries[n]]
              /\ incomplete' = incomplete \ Told(stats)
         ELSE UNCHANGED <<entries, incomplete>>

\* Mutant: the resolver is looked up on the entry that has just replaced it.
FiredAfterUpdate(stats) ==
    {r \in Requests : \E n \in Told(stats) : waitsOn[r] = [name |-> {n}, batch |-> None]}

\* The requests whose stat_resolver that fires.
Fired(stats) ==
    {r \in Requests : \E n \in Told(stats) :
        /\ waitsOn[r].name = {n}
        /\ waitsOn[r].batch = entries[n].resolver}

\* Mutant: invalidateEntry leaves the name in incomplete_entries.
InvalidateEntriesOnly(names) ==
    /\ entries' = [n \in Names |-> IF n \in names THEN NoEntry ELSE entries[n]]
    /\ UNCHANGED <<cached, incomplete>>

\* invalidateEntry of every name in names.
InvalidateEntries(names) ==
    /\ entries' = [n \in Names |-> IF n \in names THEN NoEntry ELSE entries[n]]
    /\ incomplete' = incomplete \ names
    /\ UNCHANGED cached

-----------------------------------------------------------------------------
(* Handlers of the Files app's events.                                     *)

Ask(result, resolver) ==
    /\ asked < MaxRequests
    /\ asked' = asked + 1
    /\ answer' = [answer EXCEPT ![asked + 1] = result]
    /\ waitsOn' = [waitsOn EXCEPT ![asked + 1] = resolver]

Post(kind, names, target, needsStat) ==
    toNacl' = Append(toNacl, Message(kind, names, target, needsStat))

\* The cache has what getMetadata was asked.
CacheHit(n, needsStat) ==
    /\ cached /\ Present(n)
    /\ entries[n].stat # Unknown \/ ~needsStat
    /\ Ask("ok", NotWaiting)
    /\ UNCHANGED <<cacheVars, toNacl, toJs, serverVars, raced>>

\* Another batch grabbed the entry: wait for its stat_resolver.
WaitForResolver(n) ==
    /\ cached /\ Present(n)
    /\ entries[n].stat = Unknown /\ entries[n].resolver # None
    /\ Ask("pending", [name |-> {n}, batch |-> entries[n].resolver])
    /\ UNCHANGED <<cacheVars, toNacl, toJs, serverVars, raced>>

\* Mutant: the batch that is asked for is only the entry itself.
AskBatchAlone(n) ==
    /\ cached /\ Present(n)
    /\ entries[n].stat = Unknown /\ entries[n].resolver = None
    /\ Ask("pending", NotWaiting)
    /\ \E taken \in BatchesToUpdate : TakeBatch(taken, asked + 1)
    /\ Post("batchGetMetadata", {n}, {}, TRUE)
    /\ UNCHANGED <<toJs, serverVars, raced>>

\* The entry lacks its stat() and no batch has it: ask for it and some others.
AskBatch(n) ==
    /\ cached /\ Present(n)
    /\ entries[n].stat = Unknown /\ entries[n].resolver = None
    /\ Ask("pending", NotWaiting)
    /\ \E taken \in BatchesToUpdate :
          /\ TakeBatch(taken, asked + 1)
          /\ Post("batchGetMetadata", {n} \cup taken, {}, TRUE)
    /\ UNCHANGED <<toJs, serverVars, raced>>

\* Not in the cache.
CacheMiss(n) ==
    /\ ~(cached /\ Present(n))
    /\ Ask("pending", NotWaiting)
    /\ Post("getMetadata", {n}, {}, TRUE)
    /\ UNCHANGED <<cacheVars, toJs, serverVars, raced>>

\* The directory's five minutes are over: lookupMetadata drops all of it.
CacheExpired(n) ==
    /\ "expiry" \in Faults
    /\ cached
    /\ cached' = FALSE
    /\ entries' = [m \in Names |-> NoEntry]
    /\ incomplete' = {}
    /\ Ask("pending", NotWaiting)
    /\ Post("getMetadata", {n}, {}, TRUE)
    /\ UNCHANGED <<toJs, serverVars, raced>>

ReadDirectory(needsStat) ==
    /\ Ask("pending", NotWaiting)
    /\ Post("readDirectory", Names, {}, needsStat)
    /\ UNCHANGED <<cacheVars, toJs, serverVars, raced>>

\* Mutant: truncate invalidates nothing.
InvalidatedNoTruncate(kind, names) ==
    IF kind \in {"openFile", "deleteEntry", "moveEntry", "copyEntry"} THEN names ELSE {}

\* The entries a handler invalidates before it sends its message.
Invalidated(kind, names) ==
    IF kind \in {"openFile", "deleteEntry", "truncate", "moveEntry", "copyEntry"}
      THEN names ELSE {}

\* Metadata of n is on its way from the server.
TellsOf(m, n) == m.kind \in MetadataKinds /\ n \in m.names
UnderWay(n) == \/ \E i \in 1..Len(toNacl) : TellsOf(toNacl[i], n)
               \/ \E i \in 1..Len(toJs) : TellsOf(toJs[i].message, n)

\* The handler of an operation: invalidate, then send.  raced records the names
\* whose metadata may still arrive, or stays in the cache because the operation
\* does not invalidate it.
Operate(kind, names, target) ==
    /\ kind \in Operations
    /\ Ask("pending", NotWaiting)
    /\ InvalidateEntries(Invalidated(kind, names))
    /\ Post(kind, names, target, FALSE)
    /\ raced' = IF kind \in {"openFile", "copyEntry"} THEN raced
                ELSE raced \cup {n \in names :
                       UnderWay(n) \/ (kind \in {"writeFile", "createFile"} /\ Present(n))}
    /\ UNCHANGED <<toJs, serverVars>>

OperateOn(n) == \E kind \in Operations \ {"moveEntry"} : Operate(kind, {n}, {})

Move(source, target) ==
    /\ source # target
    /\ Operate("moveEntry", {source, target}, {target})

-----------------------------------------------------------------------------
(* The native module and the file server.                                  *)

Exist == {n \in Names : server[n] # Gone}

\* The names a message needs to find on the server, those it removes and those
\* it gives a new version.
Needed(m) == CASE m.kind \in {"readDirectory", "createFile"} -> {}
               [] m.kind = "moveEntry" -> m.names \ m.target
               [] OTHER -> m.names
Removed(m) == CASE m.kind = "deleteEntry" -> m.names
                [] m.kind = "moveEntry" -> m.names \ m.target
                [] OTHER -> {}
Renewed(m) == CASE m.kind \in {"truncate", "writeFile", "createFile"} -> m.names
                [] m.kind = "moveEntry" -> m.target
                [] OTHER -> {}

\* copyEntry is not implemented: it always fails.
Possible(m) == Needed(m) \subseteq Exist /\ m.kind # "copyEntry"

Perform(m) ==
    /\ server' = [n \in Names |-> IF n \in Removed(m) THEN Gone
                                  ELSE IF n \in Renewed(m) THEN clock + 1 ELSE server[n]]
    /\ clock' = IF Renewed(m) = {} THEN clock ELSE clock + 1

\* What a successful reply may carry.  A listing without stat() leaves every
\* size at -1; one with stat() leaves it where stat() failed.
Stats(m) ==
    IF m.kind = "readDirectory"
      THEN {[n \in Names |-> IF n \in Exist /\ n \notin statted THEN Unknown ELSE server[n]] :
               statted \in IF m.needsStat THEN SUBSET Exist ELSE {{}}}
      ELSE {[n \in Names |-> IF n \in m.names /\ m.kind \in MetadataKinds
                               THEN server[n] ELSE Gone]}

Reply(m, result, stats) == [message |-> m, result |-> result, stats |-> stats]
NoStats == [n \in Names |-> Gone]

\* The message is carried out.
Succeed ==
    /\ toNacl # <<>>
    /\ LET m == Head(toNacl)
       IN /\ Possible(m)
          /\ \E stats \in Stats(m) : toJs' = Append(toJs, Reply(m, "ok", stats))
          /\ Perform(m)
    /\ toNacl' = Tail(toNacl)
    /\ UNCHANGED <<cacheVars, appVars, raced>>

\* It is not: something is missing, which fails a whole batch, it is a copy, or
\* the server or the connection failed, in which case an operation may have been carried out.
Fail(result) ==
    /\ toNacl # <<>>
    /\ LET m == Head(toNacl)
       IN IF Possible(m)
            THEN /\ result \in Faults
                 /\ Perform(m) \/ UNCHANGED serverVars
            ELSE result = "FAILED" /\ UNCHANGED serverVars
    /\ toJs' = Append(toJs, Reply(Head(toNacl), result, NoStats))
    /\ toNacl' = Tail(toNacl)
    /\ UNCHANGED <<cacheVars, appVars, raced>>

-----------------------------------------------------------------------------
(* Replies.                                                                *)

Answer(who, result) ==
    answer' = [r \in Requests |-> IF r \in who THEN result ELSE answer[r]]

\* Mutant: getRetryingPromise sends a message once too often.
RetriesOneMore(reply) == /\ reply.result = "SHOULD_RETRY"
                         /\ reply.message.attempt <= AttemptCount

Retries(reply) == /\ reply.result = "SHOULD_RETRY"
                  /\ reply.message.attempt < AttemptCount

\* Mutant: a reply that finds the directory gone from the cache answers nobody.
MetadataArrivesUncached ==
    /\ toJs # <<>>
    /\ LET reply == Head(toJs)
       IN /\ reply.result = "ok"
          /\ reply.message.kind \in {"getMetadata", "batchGetMetadata"}
          /\ UpdateMetadata(reply.stats)
          /\ Answer(IF cached THEN {reply.message.request} \cup Fired(reply.stats) ELSE {}, "ok")
    /\ toJs' = Tail(toJs)
    /\ UNCHANGED <<asked, waitsOn, toNacl, serverVars, raced>>

\* handleStatEntry_ of each entry of the reply: the asker is answered with the
\* first of them, and those who wait on the resolvers that fire with theirs.
MetadataArrives ==
    /\ toJs # <<>>
    /\ LET reply == Head(toJs)
       IN /\ reply.result = "ok"
          /\ reply.message.kind \in {"getMetadata", "batchGetMetadata"}
          /\ UpdateMetadata(reply.stats)
          /\ Answer({reply.message.request} \cup IF cached THEN Fired(reply.stats) ELSE {}, "ok")
    /\ toJs' = Tail(toJs)
    /\ UNCHANGED <<asked, waitsOn, toNacl, serverVars, raced>>

ListingArrives ==
    /\ toJs # <<>>
    /\ LET reply == Head(toJs)
       IN /\ reply.result = "ok"
          /\ reply.message.kind = "readDirectory"
          /\ CacheDirectoryContents(reply.stats)
          /\ Answer({reply.message.request}, "ok")
    /\ toJs' = Tail(toJs)
    /\ UNCHANGED <<asked, waitsOn, toNacl, serverVars, raced>>

\* Nothing is invalidated when the operation is done.
OperationDone ==
    /\ toJs # <<>>
    /\ LET reply == Head(toJs)
       IN /\ reply.result = "ok"
          /\ reply.message.kind \in Operations
          /\ Answer({reply.message.request}, "ok")
    /\ toJs' = Tail(toJs)
    /\ UNCHANGED <<cacheVars, asked, waitsOn, toNacl, serverVars, raced>>

\* Mutant: a failure is logged and not passed on.
RequestFailsSilently ==
    /\ toJs # <<>>
    /\ Head(toJs).result # "ok" /\ ~Retries(Head(toJs))
    /\ toJs' = Tail(toJs)
    /\ UNCHANGED <<cacheVars, appVars, toNacl, serverVars, raced>>

\* The asker is told; a batch's resolvers stay on its entries, unsettled.
RequestFails ==
    /\ toJs # <<>>
    /\ LET reply == Head(toJs)
       IN /\ reply.result # "ok" /\ ~Retries(reply)
          /\ Answer({reply.message.request}, "failed")
    /\ toJs' = Tail(toJs)
    /\ UNCHANGED <<cacheVars, asked, waitsOn, toNacl, serverVars, raced>>

\* An operation that is sent again has been overtaken by the metadata requests
\* posted since, and may undo what they saw.
Retry ==
    /\ toJs # <<>>
    /\ LET reply == Head(toJs)
           m == reply.message
       IN /\ Retries(reply)
          /\ toNacl' = Append(toNacl, [m EXCEPT !.attempt = @ + 1])
          /\ raced' = IF m.kind \in MetadataKinds \cup {"openFile"} THEN raced
                                                                    ELSE raced \cup m.names
    /\ toJs' = Tail(toJs)
    /\ UNCHANGED <<cacheVars, appVars, serverVars>>

-----------------------------------------------------------------------------
GetMetadata(n) == \/ \E needsStat \in BOOLEAN : CacheHit(n, needsStat)
                  \/ WaitForResolver(n)
                  \/ AskBatch(n)
                  \/ CacheMiss(n)
                  \/ CacheExpired(n)

NaclServes == Succeed \/ \E result \in {"FAILED", "SHOULD_RETRY"} : Fail(result)

HandleReply == MetadataArrives \/ ListingArrives \/ OperationDone \/ RequestFails \/ Retry

Next == \/ \E n \in Names : GetMetadata(n) \/ OperateOn(n)
        \/ \E source, target \in Names : Move(source, target)
        \/ \E needsStat \in BOOLEAN : ReadDirectory(needsStat)
        \/ NaclServes
        \/ HandleReply

Spec == Init /\ [][Next]_vars

\* NaCl's loop serves what it is sent and the page's event loop handles replies.
Fairness == WF_vars(NaclServes) /\ WF_vars(HandleReply)
FairSpec == Spec /\ Fairness

-----------------------------------------------------------------------------
(* Properties.                                                             *)

Messages == [request: Requests, kind: MetadataKinds \cup AllOperations,
             names: SUBSET Names, target: SUBSET Names, needsStat: BOOLEAN,
             attempt: 1..AttemptCount]

Replies == [message: Messages, result: {"ok", "FAILED", "SHOULD_RETRY"},
            stats: [Names -> Nat \cup {Unknown}]]

CacheType == /\ cached \in BOOLEAN
             /\ entries \in [Names -> [stat: Nat \cup {Unknown}, resolver: Nat]]
             /\ incomplete \subseteq Names
AppType == /\ asked \in 0..MaxRequests
           /\ answer \in [Requests -> {"none", "pending", "ok", "failed"}]
           /\ waitsOn \in [Requests -> [name: SUBSET Names, batch: Nat]]
ChannelType == toNacl \in Seq(Messages) /\ toJs \in Seq(Replies)
ServerType == server \in [Names -> Nat] /\ clock \in Nat /\ raced \subseteq Names

\* Every variable has its type; a message is sent AttemptCount times at most.
TypeOK == CacheType /\ AppType /\ ChannelType /\ ServerType

\* The parts of the directory's cache agree.  A name in incomplete_entries has
\* an entry (else getBatchToUpdate throws a TypeError on it) without a size and
\* without a resolver; an entry without a size is one some request can still
\* ask for, or is in a batch; an entry with a size is in no batch.
CacheConsistent ==
    /\ ~cached => incomplete = {} /\ \A n \in Names : ~Present(n)
    /\ \A n \in incomplete : entries[n] = Entry(Unknown, None)
    /\ \A n \in Names :
          Present(n) => IF entries[n].stat = Unknown
                          THEN n \in incomplete \/ entries[n].resolver # None
                          ELSE entries[n].stat # Gone /\ entries[n].resolver = None

InFlight(r) == \/ \E i \in 1..Len(toNacl) : toNacl[i].request = r
               \/ \E i \in 1..Len(toJs) : toJs[i].message.request = r

\* A stat_resolver on an entry belongs to a batch that includes the entry and
\* is under way, or to one that has failed.
ResolverHasOwner ==
    \A n \in Names : LET batch == entries[n].resolver IN
        batch # None =>
            \/ answer[batch] = "failed"
            \/ \E i \in 1..Len(toNacl) :
                  toNacl[i].request = batch /\ n \in toNacl[i].names
            \/ \E i \in 1..Len(toJs) :
                  toJs[i].message.request = batch /\ n \in toJs[i].message.names

\* Each request the Files app has made is answered, has its own message under
\* way, or waits on a resolver: none is dropped between these.
NoRequestDropped ==
    \A r \in 1..asked :
        /\ answer[r] \in {"ok", "failed"} => ~InFlight(r)
        /\ answer[r] = "pending" => (InFlight(r) # (waitsOn[r] # NotWaiting))

\* A name's cached metadata is what the server has, unless an operation on the
\* name was sent while metadata of it was under way, was sent again, or is a
\* write or a creation, which invalidate nothing, sent while the name was cached:
\* invalidating before the operation is enough in every other case.
FreshUnlessRaced ==
    \A n \in Names \ raced :
        Present(n) /\ entries[n].stat # Unknown => entries[n].stat = server[n]

\* Once the Files app is told a deletion succeeded, with no other operation
\* under way, the cache holds no metadata of the file: the next getMetadata is
\* a real lookup.
DeletedNotCached ==
    toNacl = <<>> /\ toJs = <<>> =>
        \A n \in Names : server[n] = Gone => ~(Present(n) /\ entries[n].stat # Unknown)

\* A stat_resolver that leaves its entry takes its waiters with it: unless the
\* entry leaves the cache or a new listing overwrites it, each request that
\* waits on it is answered by the very step that replaces it.
ResolversFire ==
    [][\A r \in Requests, n \in Names :
          (/\ answer[r] = "pending"
           /\ waitsOn[r] = [name |-> {n}, batch |-> entries[n].resolver]
           /\ entries'[n].resolver # entries[n].resolver
           /\ entries'[n] # NoEntry /\ ~ListingArrives)
             => answer'[r] = "ok"]_vars

Answered(r) == answer[r] \in {"ok", "failed"}

\* A request that has a message of its own under way is answered in the end.
AskersAnswered == \A r \in Requests : InFlight(r) ~> Answered(r)

\* A request whose entry another batch has grabbed only has to wait for the
\* promise to resolve.
EveryRequestAnswered == \A r \in Requests : answer[r] = "pending" ~> Answered(r)
=============================================================================
