------------------------ MODULE MetadataCacheProofs ------------------------
(***************************************************************************)
(* Proofs about MetadataCache for every set of names, batch size, number   *)
(* of requests and choice of operations and faults.                        *)
(***************************************************************************)
EXTENDS MetadataCache, Queues

\* A successful reply to getMetadata or batchGetMetadata leaves no size open: the
\* strengthening that makes CacheConsistent inductive, since the stats of a reply
\* become entries of the cache.
StatsAreReal ==
    \A i \in 1..Len(toJs) :
        toJs[i].result = "ok" /\ toJs[i].message.kind # "readDirectory"
          => \A n \in Names : toJs[i].stats[n] # Unknown

IInv == TypeOK /\ StatsAreReal /\ CacheConsistent

\* A message made from typed parts is a message.
LEMMA MessageTyped ==
    ASSUME TypeOK, asked < MaxRequests,
           NEW kind \in MetadataKinds \cup AllOperations, NEW names \in SUBSET Names,
           NEW target \in SUBSET Names, NEW needsStat \in BOOLEAN
    PROVE  Message(kind, names, target, needsStat) \in Messages
  BY MaxRequestsAssumption, AttemptCountAssumption
  DEF TypeOK, AppType, Message, Messages, Requests

\* A handler's bookkeeping of its request keeps the types.
LEMMA AskTyped ==
    ASSUME TypeOK, NEW result \in {"pending", "ok"},
           NEW resolver \in [name: SUBSET Names, batch: Nat],
           Ask(result, resolver)
    PROVE  AppType'
  BY MaxRequestsAssumption DEF TypeOK, AppType, Ask, Requests

LEMMA NotWaitingTyped == NotWaiting \in [name: SUBSET Names, batch: Nat]
  BY DEF NotWaiting, None

\* Posting a typed message keeps the channels typed.
LEMMA PostTyped ==
    ASSUME TypeOK, asked < MaxRequests,
           NEW kind \in MetadataKinds \cup AllOperations, NEW names \in SUBSET Names,
           NEW target \in SUBSET Names, NEW needsStat \in BOOLEAN,
           Post(kind, names, target, needsStat), UNCHANGED toJs
    PROVE  ChannelType'
  BY MessageTyped DEF TypeOK, ChannelType, Post

\* The reply to a message the module takes is typed.
LEMMA ReplyTyped ==
    ASSUME TypeOK, toNacl # <<>>, NEW result \in {"ok", "FAILED", "SHOULD_RETRY"},
           NEW stats \in [Names -> Nat \cup {Unknown}],
           toJs' = Append(toJs, Reply(Head(toNacl), result, stats)),
           toNacl' = Tail(toNacl)
    PROVE  ChannelType'
  <1>1. Head(toNacl) \in Messages /\ Tail(toNacl) \in Seq(Messages)
    BY DEF TypeOK, ChannelType
  <1>2. Reply(Head(toNacl), result, stats) \in Replies
    BY <1>1 DEF Reply, Replies
  <1>. QED  BY <1>1, <1>2 DEF TypeOK, ChannelType

LEMMA StatsTyped ==
    ASSUME TypeOK, NEW m \in Messages, NEW stats \in Stats(m)
    PROVE  stats \in [Names -> Nat \cup {Unknown}]
  BY DEF TypeOK, ServerType, Stats, Gone

LEMMA PerformTyped ==
    ASSUME TypeOK, NEW m \in Messages, Perform(m), UNCHANGED raced
    PROVE  ServerType'
  BY DEF TypeOK, ServerType, Perform, Gone

\* Taking a reply off the queue: what is known of the rest.
LEMMA TakeReply ==
    ASSUME TypeOK, StatsAreReal, toJs # <<>>, toJs' = Tail(toJs)
    PROVE  /\ Head(toJs) \in Replies
           /\ toJs' \in Seq(Replies)
           /\ StatsAreReal'
           /\ Head(toJs).result = "ok" /\ Head(toJs).message.kind # "readDirectory"
                => \A n \in Names : Head(toJs).stats[n] # Unknown
  <1>1. Head(toJs) \in Replies /\ Tail(toJs) \in Seq(Replies) /\ Head(toJs) = toJs[1]
        /\ Len(toJs) >= 1
    BY DEF TypeOK, ChannelType
  <1>2. \A i \in 1..Len(Tail(toJs)) : i + 1 \in 1..Len(toJs) /\ Tail(toJs)[i] = toJs[i + 1]
    BY <1>1 DEF TypeOK, ChannelType
  <1>3. StatsAreReal'
    BY <1>2 DEF StatsAreReal
  <1>. QED  BY <1>1, <1>3 DEF StatsAreReal

\* Sending a reply keeps StatsAreReal when its own stats are real.
LEMMA SendReply ==
    ASSUME TypeOK, StatsAreReal, NEW reply \in Replies, toJs' = Append(toJs, reply),
           reply.result = "ok" /\ reply.message.kind # "readDirectory"
             => \A n \in Names : reply.stats[n] # Unknown
    PROVE  StatsAreReal'
  BY DEF TypeOK, ChannelType, StatsAreReal

LEMMA AnswerTyped ==
    ASSUME TypeOK, NEW who, NEW result \in {"ok", "failed"}, Answer(who, result),
           UNCHANGED <<asked, waitsOn>>
    PROVE  AppType'
  BY DEF TypeOK, AppType, Answer
-----------------------------------------------------------------------------
(* The operations of the cache keep its parts in agreement.                *)

LEMMA CacheDirectoryContentsCorrect ==
    ASSUME NEW stats \in [Names -> Nat \cup {Unknown}], CacheDirectoryContents(stats)
    PROVE  CacheType' /\ CacheConsistent'
  BY DEF CacheDirectoryContents, CacheType, CacheConsistent, Told, Entry, NoEntry,
         Present, Gone, None, Unknown

LEMMA TakeBatchCorrect ==
    ASSUME TypeOK, CacheConsistent, cached, NEW taken \in SUBSET incomplete,
           NEW r \in Nat \ {0}, TakeBatch(taken, r)
    PROVE  CacheType' /\ CacheConsistent'
  BY DEF TakeBatch, TypeOK, CacheType, CacheConsistent, Entry, NoEntry, Present, Gone,
         None, Unknown

LEMMA UpdateMetadataCorrect ==
    ASSUME TypeOK, CacheConsistent, NEW stats \in [Names -> Nat \cup {Unknown}],
           \A n \in Names : stats[n] # Unknown, UpdateMetadata(stats)
    PROVE  CacheType' /\ CacheConsistent'
  BY DEF UpdateMetadata, TypeOK, CacheType, CacheConsistent, Told, Entry, NoEntry,
         Present, Gone, None, Unknown

LEMMA InvalidateEntriesCorrect ==
    ASSUME TypeOK, CacheConsistent, NEW names \in SUBSET Names, InvalidateEntries(names)
    PROVE  CacheType' /\ CacheConsistent'
  BY DEF InvalidateEntries, TypeOK, CacheType, CacheConsistent, Entry, NoEntry,
         Present, Gone, None, Unknown

LEMMA CacheUnchanged ==
    ASSUME TypeOK, CacheConsistent, UNCHANGED cacheVars
    PROVE  CacheType' /\ CacheConsistent'
  BY DEF TypeOK, CacheType, CacheConsistent, cacheVars, Present
-----------------------------------------------------------------------------
(* Each action preserves the invariant.                                    *)

LEMMA InitIInv ==
    ASSUME Init PROVE IInv
  <1>1. CacheType
    BY DEF Init, CacheType, NoEntry, None, Gone
  <1>2. AppType
    BY MaxRequestsAssumption DEF Init, AppType, NotWaiting, None
  <1>3. ChannelType /\ ServerType
    BY DEF Init, ChannelType, ServerType
  <1>4. StatsAreReal
    BY DEF Init, StatsAreReal
  <1>5. CacheConsistent
    BY DEF Init, CacheConsistent, Present
  <1>. QED  BY <1>1, <1>2, <1>3, <1>4, <1>5 DEF IInv, TypeOK

\* A handler that only asks: nothing it does reaches the channel to the page.
LEMMA HandlerKeepsReplies ==
    ASSUME StatsAreReal, UNCHANGED toJs PROVE StatsAreReal'
  BY DEF StatsAreReal

LEMMA ServerUnchanged ==
    ASSUME TypeOK, UNCHANGED serverVars, raced' \subseteq Names
    PROVE  ServerType'
  BY DEF TypeOK, ServerType, serverVars

LEMMA ChannelUnchanged ==
    ASSUME TypeOK, UNCHANGED <<toNacl, toJs>> PROVE ChannelType'
  BY DEF TypeOK, ChannelType

LEMMA HandlerIInv ==
    ASSUME IInv,
           \/ \E n \in Names : GetMetadata(n) \/ OperateOn(n)
           \/ \E source, target \in Names : Move(source, target)
           \/ \E needsStat \in BOOLEAN : ReadDirectory(needsStat)
    PROVE  IInv'
  <1>. USE NotWaitingTyped
  <1>a. TypeOK /\ StatsAreReal /\ CacheConsistent /\ raced \subseteq Names
    BY DEF IInv, TypeOK, ServerType
  <1>1. ASSUME NEW n \in Names, NEW needsStat \in BOOLEAN, CacheHit(n, needsStat)
        PROVE  IInv'
    <2>1. CacheType' /\ CacheConsistent'
      BY <1>a, <1>1, CacheUnchanged DEF CacheHit
    <2>2. AppType'
      BY <1>a, <1>1, AskTyped DEF CacheHit
    <2>3. ChannelType' /\ ServerType' /\ StatsAreReal'
      BY <1>a, <1>1, ChannelUnchanged, ServerUnchanged, HandlerKeepsReplies DEF CacheHit
    <2>. QED  BY <2>1, <2>2, <2>3 DEF IInv, TypeOK
  <1>2. ASSUME NEW n \in Names, WaitForResolver(n)
        PROVE  IInv'
    <2>1. CacheType' /\ CacheConsistent'
      BY <1>a, <1>2, CacheUnchanged DEF WaitForResolver
    <2>2. AppType'
      <3>1. [name |-> {n}, batch |-> entries[n].resolver] \in [name: SUBSET Names, batch: Nat]
        BY <1>a DEF TypeOK, CacheType
      <3>. QED  BY <1>a, <1>2, <3>1, AskTyped DEF WaitForResolver
    <2>3. ChannelType' /\ ServerType' /\ StatsAreReal'
      BY <1>a, <1>2, ChannelUnchanged, ServerUnchanged, HandlerKeepsReplies
      DEF WaitForResolver
    <2>. QED  BY <2>1, <2>2, <2>3 DEF IInv, TypeOK
  <1>3. ASSUME NEW n \in Names, AskBatch(n)
        PROVE  IInv'
    <2>1. PICK taken \in BatchesToUpdate :
             TakeBatch(taken, asked + 1) /\ Post("batchGetMetadata", {n} \cup taken, {}, TRUE)
      BY <1>3 DEF AskBatch
    <2>2. taken \in SUBSET incomplete /\ taken \in SUBSET Names
      BY <1>a DEF BatchesToUpdate, TypeOK, CacheType
    <2>3. asked + 1 \in Nat \ {0} /\ asked < MaxRequests
      BY <1>a, <1>3 DEF TypeOK, AppType, AskBatch, Ask
    <2>4. CacheType' /\ CacheConsistent'
      BY <1>a, <1>3, <2>1, <2>2, <2>3, TakeBatchCorrect DEF AskBatch
    <2>5. AppType'
      BY <1>a, <1>3, AskTyped DEF AskBatch
    <2>6. ChannelType'
      <3>1. {n} \cup taken \in SUBSET Names
        BY <2>2
      <3>2. UNCHANGED toJs
        BY <1>3 DEF AskBatch
      <3>. QED  BY <1>a, <2>1, <2>3, <3>1, <3>2, PostTyped DEF MetadataKinds
    <2>7. ServerType' /\ StatsAreReal'
      BY <1>a, <1>3, ServerUnchanged, HandlerKeepsReplies DEF AskBatch
    <2>. QED  BY <2>4, <2>5, <2>6, <2>7 DEF IInv, TypeOK
  <1>4. ASSUME NEW n \in Names, CacheMiss(n)
        PROVE  IInv'
    <2>1. CacheType' /\ CacheConsistent'
      BY <1>a, <1>4, CacheUnchanged DEF CacheMiss
    <2>2. AppType'
      BY <1>a, <1>4, AskTyped DEF CacheMiss
    <2>3. ChannelType'
      BY <1>a, <1>4, PostTyped DEF CacheMiss, Ask, MetadataKinds
    <2>4. ServerType' /\ StatsAreReal'
      BY <1>a, <1>4, ServerUnchanged, HandlerKeepsReplies DEF CacheMiss
    <2>. QED  BY <2>1, <2>2, <2>3, <2>4 DEF IInv, TypeOK
  <1>5. ASSUME NEW n \in Names, CacheExpired(n)
        PROVE  IInv'
    <2>1. CacheType' /\ CacheConsistent'
      BY <1>5 DEF CacheExpired, CacheType, CacheConsistent, NoEntry, Present, Gone, None
    <2>2. AppType'
      BY <1>a, <1>5, AskTyped DEF CacheExpired
    <2>3. ChannelType'
      BY <1>a, <1>5, PostTyped DEF CacheExpired, Ask, MetadataKinds
    <2>4. ServerType' /\ StatsAreReal'
      BY <1>a, <1>5, ServerUnchanged, HandlerKeepsReplies DEF CacheExpired
    <2>. QED  BY <2>1, <2>2, <2>3, <2>4 DEF IInv, TypeOK
  <1>6. ASSUME NEW kind, NEW names \in SUBSET Names, NEW target \in SUBSET Names,
               Operate(kind, names, target)
        PROVE  IInv'
    <2>1. kind \in AllOperations
      BY <1>6, OperationsAssumption DEF Operate
    <2>2. CacheType' /\ CacheConsistent'
      BY <1>a, <1>6, InvalidateEntriesCorrect DEF Operate, Invalidated
    <2>3. AppType'
      BY <1>a, <1>6, AskTyped DEF Operate
    <2>4. ChannelType'
      BY <1>a, <1>6, <2>1, PostTyped DEF Operate, Ask
    <2>5. ServerType' /\ StatsAreReal'
      BY <1>a, <1>6, ServerUnchanged, HandlerKeepsReplies DEF Operate
    <2>. QED  BY <2>2, <2>3, <2>4, <2>5 DEF IInv, TypeOK
  <1>7. ASSUME NEW needsStat \in BOOLEAN, ReadDirectory(needsStat)
        PROVE  IInv'
    <2>1. CacheType' /\ CacheConsistent'
      BY <1>a, <1>7, CacheUnchanged DEF ReadDirectory
    <2>2. AppType'
      BY <1>a, <1>7, AskTyped DEF ReadDirectory
    <2>3. ChannelType'
      BY <1>a, <1>7, PostTyped DEF ReadDirectory, Ask, MetadataKinds
    <2>4. ServerType' /\ StatsAreReal'
      BY <1>a, <1>7, ServerUnchanged, HandlerKeepsReplies DEF ReadDirectory
    <2>. QED  BY <2>1, <2>2, <2>3, <2>4 DEF IInv, TypeOK
  <1>8. ASSUME NEW n \in Names, GetMetadata(n)
        PROVE  IInv'
    BY <1>1, <1>2, <1>3, <1>4, <1>5, <1>8 DEF GetMetadata
  <1>9. ASSUME NEW n \in Names, OperateOn(n)
        PROVE  IInv'
    BY <1>6, <1>9 DEF OperateOn
  <1>10. ASSUME NEW source \in Names, NEW target \in Names, Move(source, target)
         PROVE  IInv'
    <2>1. {source, target} \in SUBSET Names /\ {target} \in SUBSET Names
      OBVIOUS
    <2>. QED  BY <1>6, <1>10, <2>1 DEF Move
  <1>. QED  BY <1>7, <1>8, <1>9, <1>10

LEMMA NaclIInv ==
    ASSUME IInv, NaclServes PROVE IInv'
  <1>a. TypeOK /\ StatsAreReal /\ CacheConsistent
    BY DEF IInv
  <1>b. ASSUME toNacl # <<>> PROVE Head(toNacl) \in Messages
    BY <1>a, <1>b DEF TypeOK, ChannelType
  <1>1. ASSUME UNCHANGED <<cacheVars, appVars, raced>>
        PROVE  CacheType' /\ CacheConsistent' /\ AppType'
    BY <1>a, <1>1, CacheUnchanged DEF TypeOK, AppType, appVars
  <1>2. ASSUME Succeed PROVE IInv'
    <2>. DEFINE m == Head(toNacl)
    <2>1. PICK stats \in Stats(m) : toJs' = Append(toJs, Reply(m, "ok", stats))
      BY <1>2 DEF Succeed
    <2>2. m \in Messages /\ Perform(m)
          /\ toNacl # <<>> /\ toNacl' = Tail(toNacl)
      BY <1>2, <1>b DEF Succeed
    <2>3. stats \in [Names -> Nat \cup {Unknown}]
      BY <1>a, <2>2, StatsTyped
    <2>4. ChannelType'
      BY <1>a, <2>1, <2>2, <2>3, ReplyTyped
    <2>5. m.kind # "readDirectory" => \A n \in Names : stats[n] # Unknown
      BY <1>a DEF Stats, TypeOK, ServerType, Unknown, Gone
    <2>6. Reply(m, "ok", stats) \in Replies
      BY <2>2, <2>3 DEF Reply, Replies
    <2>7. StatsAreReal'
      BY <1>a, <2>1, <2>5, <2>6, SendReply DEF Reply
    <2>8. ServerType'
      BY <1>a, <1>2, <2>2, PerformTyped DEF Succeed
    <2>. QED  BY <1>1, <1>2, <2>4, <2>7, <2>8 DEF IInv, TypeOK, Succeed
  <1>3. ASSUME NEW result \in {"FAILED", "SHOULD_RETRY"}, Fail(result) PROVE IInv'
    <2>. DEFINE m == Head(toNacl)
    <2>1. m \in Messages /\ toNacl # <<>> /\ toNacl' = Tail(toNacl)
          /\ toJs' = Append(toJs, Reply(m, result, NoStats))
      BY <1>3, <1>b DEF Fail
    <2>2. NoStats \in [Names -> Nat \cup {Unknown}]
      BY DEF NoStats, Gone
    <2>3. ChannelType'
      BY <1>a, <2>1, <2>2, ReplyTyped
    <2>4. Reply(m, result, NoStats) \in Replies
      BY <2>1, <2>2 DEF Reply, Replies
    <2>5. StatsAreReal'
      BY <1>a, <2>1, <2>4, SendReply DEF Reply
    <2>6. Perform(m) \/ UNCHANGED serverVars
      BY <1>3 DEF Fail
    <2>7. UNCHANGED raced /\ raced \subseteq Names
      BY <1>a, <1>3 DEF Fail, TypeOK, ServerType
    <2>8. ServerType'
      BY <1>a, <2>1, <2>6, <2>7, PerformTyped, ServerUnchanged
    <2>. QED  BY <1>1, <1>3, <2>3, <2>5, <2>8 DEF IInv, TypeOK, Fail
  <1>. QED  BY <1>2, <1>3 DEF NaclServes

LEMMA ReplyIInv ==
    ASSUME IInv, HandleReply PROVE IInv'
  <1>a. TypeOK /\ StatsAreReal /\ CacheConsistent /\ raced \subseteq Names
    BY DEF IInv, TypeOK, ServerType
  <1>b. toJs # <<>> /\ toJs' = Tail(toJs)
    BY DEF HandleReply, MetadataArrives, ListingArrives, OperationDone, RequestFails, Retry
  <1>. DEFINE reply == Head(toJs)
  <1>c. /\ reply \in Replies
        /\ toJs' \in Seq(Replies)
        /\ StatsAreReal'
        /\ reply.result = "ok" /\ reply.message.kind # "readDirectory"
             => \A n \in Names : reply.stats[n] # Unknown
    BY <1>a, <1>b, TakeReply
  <1>d. reply.stats \in [Names -> Nat \cup {Unknown}] /\ reply.message \in Messages
    BY <1>c DEF Replies
  <1>e. ASSUME UNCHANGED toNacl PROVE ChannelType'
    BY <1>a, <1>c, <1>e DEF TypeOK, ChannelType
  <1>f. ASSUME UNCHANGED <<serverVars, raced>> PROVE ServerType'
    BY <1>a, <1>f, ServerUnchanged
  <1>1. CASE MetadataArrives
    <2>1. UpdateMetadata(reply.stats) /\ \A n \in Names : reply.stats[n] # Unknown
      BY <1>c, <1>1 DEF MetadataArrives
    <2>2. CacheType' /\ CacheConsistent'
      BY <1>a, <1>d, <2>1, UpdateMetadataCorrect
    <2>3. AppType'
      BY <1>a, <1>1, AnswerTyped DEF MetadataArrives
    <2>. QED  BY <1>c, <1>e, <1>f, <1>1, <2>2, <2>3 DEF IInv, TypeOK, MetadataArrives
  <1>2. CASE ListingArrives
    <2>1. CacheType' /\ CacheConsistent'
      BY <1>d, <1>2, CacheDirectoryContentsCorrect DEF ListingArrives
    <2>2. AppType'
      BY <1>a, <1>2, AnswerTyped DEF ListingArrives
    <2>. QED  BY <1>c, <1>e, <1>f, <1>2, <2>1, <2>2 DEF IInv, TypeOK, ListingArrives
  <1>3. CASE OperationDone
    <2>1. CacheType' /\ CacheConsistent'
      BY <1>a, <1>3, CacheUnchanged DEF OperationDone
    <2>2. AppType'
      BY <1>a, <1>3, AnswerTyped DEF OperationDone
    <2>. QED  BY <1>c, <1>e, <1>f, <1>3, <2>1, <2>2 DEF IInv, TypeOK, OperationDone
  <1>4. CASE RequestFails
    <2>1. CacheType' /\ CacheConsistent'
      BY <1>a, <1>4, CacheUnchanged DEF RequestFails
    <2>2. AppType'
      BY <1>a, <1>4, AnswerTyped DEF RequestFails
    <2>. QED  BY <1>c, <1>e, <1>f, <1>4, <2>1, <2>2 DEF IInv, TypeOK, RequestFails
  <1>5. CASE Retry
    <2>. DEFINE m == reply.message
    <2>1. CacheType' /\ CacheConsistent' /\ AppType'
      BY <1>a, <1>5, CacheUnchanged DEF Retry, TypeOK, AppType, appVars
    <2>2. m.attempt \in 1..AttemptCount /\ m.attempt < AttemptCount
      BY <1>d, <1>5 DEF Messages, Retry, Retries
    <2>3. [m EXCEPT !.attempt = @ + 1] \in Messages
      BY <1>d, <2>2, AttemptCountAssumption DEF Messages
    <2>4. ChannelType'
      BY <1>a, <1>c, <1>5, <2>3 DEF Retry, TypeOK, ChannelType
    <2>5. raced' \subseteq Names
      BY <1>a, <1>d, <1>5 DEF Retry, Messages
    <2>6. ServerType'
      BY <1>a, <1>5, <2>5, ServerUnchanged DEF Retry
    <2>. QED  BY <1>c, <2>1, <2>4, <2>6 DEF IInv, TypeOK
  <1>. QED  BY <1>1, <1>2, <1>3, <1>4, <1>5 DEF HandleReply

LEMMA StutterIInv ==
    ASSUME IInv, UNCHANGED vars PROVE IInv'
  BY DEF IInv, TypeOK, CacheType, AppType, ChannelType, ServerType, StatsAreReal,
         CacheConsistent, Present, vars, cacheVars, appVars, serverVars

\* The invariant holds always.
THEOREM Invariance == Spec => []IInv
  <1>1. IInv /\ [Next]_vars => IInv'
    BY HandlerIInv, NaclIInv, ReplyIInv, StutterIInv DEF Next
  <1>. QED  BY InitIInv, <1>1, PTL DEF Spec

\* Every variable keeps its type and no message is sent more than AttemptCount
\* times, however many requests, names and attempts there are.
THEOREM TypeCorrect == Spec => []TypeOK
  <1>1. IInv => TypeOK
    BY DEF IInv
  <1>. QED  BY Invariance, <1>1, PTL

\* The three parts of a directory's cache agree in every reachable state, so
\* getBatchToUpdate never puts a resolver on an entry that is not there, and an
\* entry without a size can still be asked for or is in a batch.
THEOREM CacheIsConsistent == Spec => []CacheConsistent
  <1>1. IInv => CacheConsistent
    BY DEF IInv
  <1>. QED  BY Invariance, <1>1, PTL

-----------------------------------------------------------------------------
(* The steps, by what they do to the queues.                               *)

HandlerStep ==
    \/ \E n \in Names : GetMetadata(n) \/ OperateOn(n)
    \/ \E source, target \in Names : Move(source, target)
    \/ \E needsStat \in BOOLEAN : ReadDirectory(needsStat)

\* A listing tells of every name, and what a move renames it names.
WellMade(m) == /\ m.target \subseteq m.names
               /\ m.kind = "readDirectory" => m.names = Names

\* A handler answers from the cache, waits for another's resolver, or posts m.
AnswersAtOnce == Ask("ok", NotWaiting) /\ UNCHANGED <<toNacl, cacheVars, raced>>

Waits(n) == /\ Ask("pending", [name |-> {n}, batch |-> entries[n].resolver])
            /\ entries[n].resolver # None
            /\ UNCHANGED <<toNacl, cacheVars, raced>>

Posts(m) == /\ Ask("pending", NotWaiting)
            /\ m.request = asked + 1 /\ WellMade(m)
            /\ toNacl' = Append(toNacl, m)

\* What a handler that asks for metadata does to the cache.
LooksUp(m) == /\ m.kind \in MetadataKinds /\ UNCHANGED raced
              /\ \/ UNCHANGED cacheVars
                 \/ entries' = [n \in Names |-> NoEntry]
                 \/ \E taken \in SUBSET incomplete :
                       /\ TakeBatch(taken, asked + 1)
                       /\ taken \subseteq m.names /\ m.kind = "batchGetMetadata"

\* What the handler of an operation does to it.
Operates(m) ==
    /\ m.kind \in AllOperations
    /\ InvalidateEntries(Invalidated(m.kind, m.names))
    /\ raced' = IF m.kind \in {"openFile", "copyEntry"} THEN raced
                ELSE raced \cup {n \in m.names :
                       UnderWay(n) \/ (m.kind \in {"writeFile", "createFile"} /\ Present(n))}

LEMMA Posted ==
    ASSUME TypeOK, asked < MaxRequests, Ask("pending", NotWaiting),
           NEW kind \in MetadataKinds \cup AllOperations, NEW names \in SUBSET Names,
           NEW target \in SUBSET names, NEW needsStat \in BOOLEAN,
           kind = "readDirectory" => names = Names,
           Post(kind, names, target, needsStat)
    PROVE  \E m \in Messages : Posts(m) /\ m.kind = kind /\ m.names = names
  <1>1. Message(kind, names, target, needsStat) \in Messages
    BY MessageTyped
  <1>. QED
    BY <1>1 DEF Posts, WellMade, Post, Message

LEMMA HandlerCases ==
    ASSUME TypeOK, HandlerStep
    PROVE  /\ UNCHANGED <<toJs, serverVars>>
           /\ \/ AnswersAtOnce
              \/ \E n \in Names : Waits(n)
              \/ \E m \in Messages : Posts(m) /\ (LooksUp(m) \/ Operates(m))
  <1>a. asked < MaxRequests
    BY DEF HandlerStep, GetMetadata, CacheHit, WaitForResolver, AskBatch, CacheMiss, CacheExpired,
           OperateOn, Move, Operate, ReadDirectory, Ask
  <1>. DEFINE Goal == /\ UNCHANGED <<toJs, serverVars>>
                      /\ \/ AnswersAtOnce
                         \/ \E n \in Names : Waits(n)
                         \/ \E m \in Messages : Posts(m) /\ (LooksUp(m) \/ Operates(m))
  <1>b. MetadataKinds = {"getMetadata", "batchGetMetadata", "readDirectory"}
    BY DEF MetadataKinds
  <1>1. ASSUME NEW n \in Names, NEW needsStat \in BOOLEAN, CacheHit(n, needsStat)  PROVE Goal
    BY <1>1 DEF CacheHit, AnswersAtOnce
  <1>2. ASSUME NEW n \in Names, WaitForResolver(n)  PROVE Goal
    BY <1>2 DEF WaitForResolver, Waits
  <1>3. ASSUME NEW n \in Names, AskBatch(n)  PROVE Goal
    <2>1. PICK taken \in BatchesToUpdate :
             TakeBatch(taken, asked + 1) /\ Post("batchGetMetadata", {n} \cup taken, {}, TRUE)
      BY <1>3 DEF AskBatch
    <2>2. taken \in SUBSET incomplete /\ {n} \cup taken \in SUBSET Names
      BY DEF BatchesToUpdate, TypeOK, CacheType
    <2>3. Ask("pending", NotWaiting) /\ UNCHANGED <<toJs, serverVars, raced>>
      BY <1>3 DEF AskBatch
    <2>4. PICK m \in Messages : /\ Posts(m) /\ m.kind = "batchGetMetadata"
                                /\ m.names = {n} \cup taken
      BY ZenonT(30), <1>a, <1>b, <2>1, <2>2, <2>3, Posted
    <2>5. LooksUp(m)
      BY <1>b, <2>1, <2>2, <2>3, <2>4 DEF LooksUp
    <2>. QED
      BY <2>3, <2>4, <2>5
  <1>4. ASSUME NEW n \in Names, CacheMiss(n)  PROVE Goal
    <2>1. /\ Ask("pending", NotWaiting) /\ Post("getMetadata", {n}, {}, TRUE)
          /\ UNCHANGED <<cacheVars, toJs, serverVars, raced>>
      BY <1>4 DEF CacheMiss
    <2>2. PICK m \in Messages : Posts(m) /\ m.kind = "getMetadata"
      BY <1>a, <1>b, <2>1, Posted
    <2>. QED
      BY <1>b, <2>1, <2>2 DEF LooksUp
  <1>5. ASSUME NEW n \in Names, CacheExpired(n)  PROVE Goal
    <2>1. /\ Ask("pending", NotWaiting) /\ Post("getMetadata", {n}, {}, TRUE)
          /\ UNCHANGED <<toJs, serverVars, raced>> /\ entries' = [k \in Names |-> NoEntry]
      BY <1>5 DEF CacheExpired
    <2>2. PICK m \in Messages : Posts(m) /\ m.kind = "getMetadata"
      BY <1>a, <1>b, <2>1, Posted
    <2>. QED
      BY <1>b, <2>1, <2>2 DEF LooksUp
  <1>6. ASSUME NEW needsStat \in BOOLEAN, ReadDirectory(needsStat)  PROVE Goal
    <2>1. /\ Ask("pending", NotWaiting) /\ Post("readDirectory", Names, {}, needsStat)
          /\ UNCHANGED <<cacheVars, toJs, serverVars, raced>>
      BY <1>6 DEF ReadDirectory
    <2>2. PICK m \in Messages : Posts(m) /\ m.kind = "readDirectory"
      BY <1>a, <1>b, <2>1, Posted
    <2>. QED
      BY <1>b, <2>1, <2>2 DEF LooksUp
  <1>7. ASSUME NEW kind, NEW names \in SUBSET Names, NEW target \in SUBSET names,
               Operate(kind, names, target)
        PROVE  Goal
    <2>1. /\ kind \in AllOperations /\ Ask("pending", NotWaiting) /\ Post(kind, names, target, FALSE)
          /\ UNCHANGED <<toJs, serverVars>>
      BY <1>7, OperationsAssumption DEF Operate
    <2>0. kind # "readDirectory"
      BY <2>1 DEF AllOperations
    <2>2. PICK m \in Messages : Posts(m) /\ m.kind = kind /\ m.names = names
      BY <1>a, <2>0, <2>1, Posted
    <2>3. Operates(m)
      BY <1>7, <2>1, <2>2 DEF Operate, Operates
    <2>. QED
      BY <2>1, <2>2, <2>3
  <1>8. ASSUME NEW source \in Names, NEW target \in Names, Move(source, target)  PROVE Goal
    <2>1. {source, target} \in SUBSET Names /\ {target} \in SUBSET {source, target}
      OBVIOUS
    <2>. QED
      BY <1>7, <1>8, <2>1 DEF Move
  <1>9. ASSUME NEW n \in Names, OperateOn(n)  PROVE Goal
    BY <1>7, <1>9 DEF OperateOn
  <1>. HIDE DEF Goal
  <1>10. Goal
    BY <1>1, <1>2, <1>3, <1>4, <1>5, <1>6, <1>8, <1>9 DEF HandlerStep, GetMetadata
  <1>. QED
    BY <1>10 DEF Goal

\* The module answers the next message.
LEMMA ModuleAnswers ==
    ASSUME TypeOK, NaclServes
    PROVE  /\ toNacl \in Seq(Messages) /\ toNacl # <<>> /\ toNacl' = Tail(toNacl)
           /\ Head(toNacl) \in Messages /\ UNCHANGED <<cacheVars, appVars, raced>>
           /\ \E p \in Replies :
                 /\ toJs' = Append(toJs, p) /\ p.message = Head(toNacl)
                 /\ \/ /\ p.result = "ok" /\ Possible(p.message) /\ p.stats \in Stats(p.message)
                       /\ Perform(p.message)
                    \/ /\ p.result # "ok" /\ p.stats = NoStats
                       /\ Perform(p.message) \/ UNCHANGED serverVars
  <1>1. /\ toNacl \in Seq(Messages) /\ toNacl # <<>> /\ toNacl' = Tail(toNacl)
        /\ UNCHANGED <<cacheVars, appVars, raced>>
    BY DEF NaclServes, Succeed, Fail, TypeOK, ChannelType
  <1>2. Head(toNacl) \in Messages
    BY <1>1
  <1>. DEFINE m == Head(toNacl)
  <1>3. CASE Succeed
    <2>1. PICK stats \in Stats(m) : toJs' = Append(toJs, Reply(m, "ok", stats))
      BY <1>3 DEF Succeed
    <2>2. Reply(m, "ok", stats) \in Replies
      BY <1>2, <2>1, StatsTyped DEF Reply, Replies
    <2>3. Possible(m) /\ Perform(m)
      BY <1>3 DEF Succeed
    <2>. QED
      BY <1>1, <1>2, <2>1, <2>2, <2>3 DEF Reply
  <1>4. ASSUME NEW result \in {"FAILED", "SHOULD_RETRY"}, Fail(result)
        PROVE  \E p \in Replies :
                  /\ toJs' = Append(toJs, p) /\ p.message = m
                  /\ p.result # "ok" /\ p.stats = NoStats
                  /\ Perform(m) \/ UNCHANGED serverVars
    <2>1. NoStats \in [Names -> Nat \cup {Unknown}]
      BY DEF NoStats, Gone
    <2>2. Reply(m, result, NoStats) \in Replies
      BY <1>2, <2>1 DEF Reply, Replies
    <2>3. /\ toJs' = Append(toJs, Reply(m, result, NoStats))
          /\ Perform(m) \/ UNCHANGED serverVars
      BY <1>4 DEF Fail
    <2>. QED
      BY <2>2, <2>3 DEF Reply
  <1>. QED
    BY <1>1, <1>2, <1>3, <1>4 DEF NaclServes

\* The page takes the next reply and answers with it, or sends its message again.
LEMMA ReplyCases ==
    ASSUME TypeOK, HandleReply
    PROVE  /\ toJs \in Seq(Replies) /\ toJs # <<>> /\ toJs' = Tail(toJs)
           /\ Head(toJs) \in Replies /\ UNCHANGED <<asked, waitsOn, serverVars>>
           /\ \/ /\ UNCHANGED <<toNacl, raced>>
                 /\ \/ MetadataArrives \/ ListingArrives
                    \/ (OperationDone \/ RequestFails) /\ UNCHANGED cacheVars
              \/ /\ Retry /\ UNCHANGED <<cacheVars, answer>>
                 /\ \E m \in Messages :
                       /\ toNacl' = Append(toNacl, m)
                       /\ m.request = Head(toJs).message.request
                       /\ m.kind = Head(toJs).message.kind /\ m.names = Head(toJs).message.names
                       /\ m.target = Head(toJs).message.target
  <1>1. /\ toJs \in Seq(Replies) /\ toJs # <<>> /\ toJs' = Tail(toJs)
        /\ UNCHANGED <<asked, waitsOn, serverVars>>
    BY DEF HandleReply, MetadataArrives, ListingArrives, OperationDone, RequestFails, Retry,
           TypeOK, ChannelType, appVars
  <1>2. Head(toJs) \in Replies
    BY <1>1
  <1>3. MetadataArrives \/ ListingArrives \/ OperationDone \/ RequestFails
           => UNCHANGED <<toNacl, raced>>
    BY DEF MetadataArrives, ListingArrives, OperationDone, RequestFails
  <1>4. OperationDone \/ RequestFails => UNCHANGED cacheVars
    BY DEF OperationDone, RequestFails
  <1>5. ASSUME Retry
        PROVE  /\ UNCHANGED <<cacheVars, answer>>
               /\ \E m \in Messages :
                     /\ toNacl' = Append(toNacl, m)
                     /\ m.request = Head(toJs).message.request
                     /\ m.kind = Head(toJs).message.kind /\ m.names = Head(toJs).message.names
                     /\ m.target = Head(toJs).message.target
    <2>. DEFINE old == Head(toJs).message
    <2>1. old \in Messages /\ old.attempt < AttemptCount /\ old.attempt \in 1..AttemptCount
      BY <1>2, <1>5 DEF Replies, Retry, Retries, Messages
    <2>. DEFINE m == [old EXCEPT !.attempt = @ + 1]
    <2>2. m \in Messages
      BY <2>1, AttemptCountAssumption DEF Messages
    <2>3. /\ m.request = old.request /\ m.kind = old.kind /\ m.names = old.names
          /\ m.target = old.target
      BY <2>1 DEF Messages
    <2>4. toNacl' = Append(toNacl, m) /\ UNCHANGED <<cacheVars, answer>>
      BY <1>5 DEF Retry, appVars
    <2>. HIDE DEF m, old
    <2>5. \E k \in Messages : /\ toNacl' = Append(toNacl, k) /\ k.request = old.request
                              /\ k.kind = old.kind /\ k.names = old.names /\ k.target = old.target
      BY <2>2, <2>3, <2>4
    <2>. QED
      BY <2>4, <2>5 DEF old
  <1>. QED
    BY <1>1, <1>2, <1>3, <1>4, <1>5 DEF HandleReply

-----------------------------------------------------------------------------
(* Messages and their requests.                                            *)

RequestOf == [m \in Messages |-> m.request]
ReplyOf == [p \in Replies |-> p.message.request]

\* A message under way is of one request, which has no other message, waits on no
\* resolver and is not answered.
Carried(m) == /\ m.request \in 1..asked /\ answer[m.request] = "pending"
              /\ waitsOn[m.request] = NotWaiting

OneMessageEach ==
    /\ Distinct(toNacl, RequestOf) /\ Distinct(toJs, ReplyOf)
    /\ \A m \in Elements(toNacl) : \A p \in Elements(toJs) : m.request # p.message.request
    /\ \A m \in Elements(toNacl) : Carried(m)
    /\ \A p \in Elements(toJs) : Carried(p.message)

HasMessage(r) == \/ \E m \in Elements(toNacl) : m.request = r
                 \/ \E p \in Elements(toJs) : p.message.request = r

\* A request that waits on a resolver never fails, and one that is not answered
\* and waits on none has its message.
RequestsKept ==
    /\ \A r \in Requests : r > asked => answer[r] = "none" /\ waitsOn[r] = NotWaiting
    /\ \A r \in 1..asked :
          /\ answer[r] # "none"
          /\ answer[r] = "failed" => waitsOn[r] = NotWaiting
          /\ answer[r] = "pending" /\ waitsOn[r] = NotWaiting => HasMessage(r)

Carrying == OneMessageEach /\ RequestsKept

-----------------------------------------------------------------------------
(* Resolvers and the batches they belong to.                               *)

\* The message m is the batch of request b and asks for n.
AsksFor(m, b, n) == m.request = b /\ n \in m.names /\ m.kind = "batchGetMetadata"

\* A good answer to a batch tells of each name it was asked for.
BatchesTell ==
    \A p \in Elements(toJs) :
        p.result = "ok" /\ p.message.kind = "batchGetMetadata"
            => \A n \in p.message.names : p.stats[n] # Gone

ResolversOwned ==
    \A n \in Names : LET batch == entries[n].resolver IN
        batch # None =>
            \/ batch \in Requests /\ answer[batch] = "failed"
            \/ \E m \in Elements(toNacl) : AsksFor(m, batch, n)
            \/ \E p \in Elements(toJs) : AsksFor(p.message, batch, n)

Owning == BatchesTell /\ ResolversOwned

-----------------------------------------------------------------------------
(* What the cache and the replies say of the server.                       *)

Changes(m, n) == n \in Removed(m) \cup Renewed(m)

Telling(n) == {m \in Messages : TellsOf(m, n)}
Changing(n) == {m \in Messages : Changes(m, n)}

IsSize(stat) == stat # Gone /\ stat # Unknown

\* An operation on n that has still to be carried out was sent before all that
\* will tell of n: no reply that tells of it is on its way and the cache has no
\* entry of it.  What a reply or the cache says of n is then what the server has.
InOrder(n) ==
    /\ NeverBefore(toNacl, Telling(n), Changing(n))
    /\ (\E m \in Elements(toNacl) : Changes(m, n)) =>
           ~Present(n) /\ \A p \in Elements(toJs) : ~TellsOf(p.message, n)
    /\ \A p \in Elements(toJs) : IsSize(p.stats[n]) => p.stats[n] = server[n]
    /\ IsSize(entries[n].stat) => entries[n].stat = server[n]

Faithful ==
    /\ \A m \in Elements(toNacl) : WellMade(m)
    /\ \A p \in Elements(toJs) : /\ WellMade(p.message)
                                 /\ \A n \in Names : p.stats[n] # Gone => TellsOf(p.message, n)
    /\ \A n \in Names \ raced : InOrder(n)

-----------------------------------------------------------------------------
(* Every request is answered or has one thing to wait for.                 *)

LEMMA KeysAre ==
    /\ \A m \in Messages : RequestOf[m] = m.request
    /\ \A p \in Replies : ReplyOf[p] = p.message.request
  BY DEF RequestOf, ReplyOf

LEMMA ChannelElements ==
    ASSUME TypeOK
    PROVE  /\ toNacl \in Seq(Messages) /\ toJs \in Seq(Replies)
           /\ \A m \in Elements(toNacl) : m \in Messages
           /\ \A p \in Elements(toJs) : p \in Replies /\ p.message \in Messages
           /\ \A m \in Messages : m.names \subseteq Names /\ m.request \in Requests
           /\ \A p \in Replies : p.message \in Messages
  <1>1. toNacl \in Seq(Messages) /\ toJs \in Seq(Replies)
    BY DEF TypeOK, ChannelType
  <1>2. /\ \A m \in Messages : m.names \subseteq Names /\ m.request \in Requests
        /\ \A p \in Replies : p.message \in Messages
    BY DEF Replies, Messages
  <1>3. /\ \A m \in Elements(toNacl) : m \in Messages
        /\ \A p \in Elements(toJs) : p \in Replies
    BY <1>1 DEF Elements
  <1>. QED
    BY <1>1, <1>2, <1>3

\* A handler gives its request an answer, a resolver or a message.
LEMMA AskCarrying ==
    ASSUME TypeOK, Carrying, UNCHANGED toJs, NEW result, NEW resolver, Ask(result, resolver),
           \/ UNCHANGED toNacl /\ (result = "ok" \/ (result = "pending" /\ resolver # NotWaiting))
           \/ /\ result = "pending" /\ resolver = NotWaiting
              /\ \E m \in Messages : m.request = asked + 1 /\ toNacl' = Append(toNacl, m)
    PROVE  Carrying'
  <1>. USE DEF Carrying, OneMessageEach, RequestsKept
  <1>1. /\ asked + 1 \in Requests /\ asked \in Nat /\ asked' = asked + 1
        /\ answer'[asked + 1] = result /\ waitsOn'[asked + 1] = resolver
        /\ \A r \in Requests : r # asked + 1 => answer'[r] = answer[r] /\ waitsOn'[r] = waitsOn[r]
        /\ \A r \in 1..asked : r \in Requests /\ r # asked + 1 /\ r \in 1..asked'
        /\ \A r \in 1..asked' : r \in 1..asked \/ r = asked + 1
        /\ \A r \in Requests : r > asked' => r > asked /\ r # asked + 1
    BY MaxRequestsAssumption DEF Ask, TypeOK, AppType, Requests
  <1>2. \A m : Carried(m) => Carried(m)'
    BY <1>1 DEF Carried
  <1>3. toNacl \in Seq(Messages)
    BY DEF TypeOK, ChannelType
  <1>4. CASE UNCHANGED toNacl /\ (result = "ok" \/ (result = "pending" /\ resolver # NotWaiting))
    <2>1. OneMessageEach'
      BY <1>2, <1>4
    <2>2. RequestsKept'
      BY <1>1, <1>4 DEF HasMessage
    <2>. QED
      BY <2>1, <2>2
  <1>5. ASSUME result = "pending", resolver = NotWaiting,
               NEW m \in Messages, m.request = asked + 1, toNacl' = Append(toNacl, m)
        PROVE  Carrying'
    <2>1. Elements(toNacl') = Elements(toNacl) \cup {m}
      BY <1>3, <1>5, ElementsAppend
    <2>2. Carried(m)'
      BY <1>1, <1>5 DEF Carried
    <2>3. /\ \A k \in Elements(toNacl) : k.request # m.request
          /\ \A p \in Elements(toJs) : p.message.request # m.request
      BY <1>1, <1>5 DEF Carried
    <2>4. Distinct(toNacl', RequestOf)
      BY <1>3, <1>5, <2>3, ChannelElements, KeysAre, DistinctAppend
    <2>5. OneMessageEach'
      BY <1>2, <2>1, <2>2, <2>3, <2>4
    <2>6. \A r : HasMessage(r) \/ r = asked + 1 => HasMessage(r)'
      BY <1>5, <2>1 DEF HasMessage
    <2>7. RequestsKept'
      BY <1>1, <1>5, <2>6
    <2>. QED
      BY <2>5, <2>7
  <1>. QED
    BY <1>4, <1>5

LEMMA Moved ==
    ASSUME TypeOK, OneMessageEach, NaclServes
    PROVE  OneMessageEach' /\ \A r : HasMessage(r) => HasMessage(r)'
  <1>1. /\ toNacl \in Seq(Messages) /\ toNacl # <<>> /\ toNacl' = Tail(toNacl)
        /\ UNCHANGED appVars
    BY ModuleAnswers
  <1>2. PICK p \in Replies : toJs' = Append(toJs, p) /\ p.message = Head(toNacl)
    BY ModuleAnswers
  <1>3. Elements(toNacl) = Elements(toNacl') \cup {p.message}
    BY <1>1, <1>2, ElementsTail
  <1>4. toJs \in Seq(Replies) /\ Elements(toJs') = Elements(toJs) \cup {p}
    BY <1>2, ChannelElements, ElementsAppend
  <1>5. /\ Distinct(toNacl', RequestOf)
        /\ \A m \in Elements(toNacl') : RequestOf[m] # RequestOf[p.message]
    BY <1>1, <1>2, DistinctTail DEF OneMessageEach
  <1>6. \A m \in Elements(toNacl') : m.request # p.message.request
    BY <1>2, <1>3, <1>5, ChannelElements, KeysAre
  <1>7. \A k \in Elements(toJs) : ReplyOf[k] # ReplyOf[p]
    BY <1>2, <1>3, <1>4, ChannelElements, KeysAre DEF OneMessageEach
  <1>8. Distinct(toJs', ReplyOf)
    BY <1>2, <1>4, <1>7, DistinctAppend DEF OneMessageEach
  <1>9. \A m : Carried(m) => Carried(m)'
    BY <1>1 DEF Carried, appVars
  <1>10. OneMessageEach'
    BY <1>3, <1>4, <1>5, <1>6, <1>8, <1>9 DEF OneMessageEach
  <1>11. \A r : HasMessage(r) => HasMessage(r)'
    BY <1>3, <1>4 DEF HasMessage
  <1>. QED
    BY <1>10, <1>11

LEMMA Resent ==
    ASSUME TypeOK, OneMessageEach, HandleReply, Retry
    PROVE  OneMessageEach' /\ \A r : HasMessage(r) => HasMessage(r)'
  <1>1. /\ toJs \in Seq(Replies) /\ toJs # <<>> /\ toJs' = Tail(toJs)
        /\ Head(toJs) \in Replies
    BY ReplyCases
  <1>2. UNCHANGED appVars
    BY DEF Retry
  <1>3. PICK m \in Messages : /\ toNacl' = Append(toNacl, m)
                              /\ m.request = Head(toJs).message.request
    <2>1. ~(MetadataArrives \/ ListingArrives \/ OperationDone \/ RequestFails)
      BY DEF Retry, Retries, MetadataArrives, ListingArrives, OperationDone, RequestFails
    <2>. QED
      BY <2>1, ReplyCases
  <1>4. Elements(toJs) = Elements(toJs') \cup {Head(toJs)}
    BY <1>1, ElementsTail
  <1>5. toNacl \in Seq(Messages) /\ Elements(toNacl') = Elements(toNacl) \cup {m}
    BY <1>3, ChannelElements, ElementsAppend
  <1>6. /\ Distinct(toJs', ReplyOf)
        /\ \A p \in Elements(toJs') : ReplyOf[p] # ReplyOf[Head(toJs)]
    BY <1>1, DistinctTail DEF OneMessageEach
  <1>7. \A p \in Elements(toJs') : m.request # p.message.request
    BY <1>1, <1>3, <1>4, <1>6, ChannelElements, KeysAre
  <1>8. \A k \in Elements(toNacl) : RequestOf[k] # RequestOf[m]
    BY <1>3, <1>4, ChannelElements, KeysAre DEF OneMessageEach
  <1>9. Distinct(toNacl', RequestOf)
    BY <1>3, <1>5, <1>8, DistinctAppend DEF OneMessageEach
  <1>10. (\A k : Carried(k) => Carried(k)') /\ (Carried(Head(toJs).message) => Carried(m)')
    BY <1>2, <1>3 DEF Carried, appVars
  <1>11. OneMessageEach'
    BY <1>4, <1>5, <1>6, <1>7, <1>9, <1>10 DEF OneMessageEach
  <1>12. \A r : HasMessage(r) => HasMessage(r)'
    BY <1>3, <1>4, <1>5 DEF HasMessage
  <1>. QED
    BY <1>11, <1>12

\* Those who are answered: the request of the reply and, with good news only,
\* some of those who wait on a resolver.
LEMMA AnswerCarrying ==
    ASSUME TypeOK, Carrying, toJs # <<>>, toJs' = Tail(toJs),
           UNCHANGED <<asked, waitsOn, toNacl>>,
           NEW who, NEW result \in {"ok", "failed"}, Answer(who, result),
           Head(toJs).message.request \in who,
           \A r \in who : r # Head(toJs).message.request
                             => result = "ok" /\ r \in Requests /\ waitsOn[r] # NotWaiting
    PROVE  Carrying'
  <1>. DEFINE req == Head(toJs).message.request
  <1>1. /\ toJs \in Seq(Replies) /\ Head(toJs) \in Replies
        /\ Elements(toJs) = Elements(toJs') \cup {Head(toJs)}
    BY ChannelElements, ElementsTail
  <1>2. /\ Distinct(toJs', ReplyOf)
        /\ \A p \in Elements(toJs') : ReplyOf[p] # ReplyOf[Head(toJs)]
    BY <1>1, DistinctTail DEF Carrying, OneMessageEach
  <1>3. /\ \A p \in Elements(toJs') : p.message.request # req
        /\ \A m \in Elements(toNacl) : m.request # req
        /\ Carried(Head(toJs).message)
    BY <1>1, <1>2, ChannelElements, KeysAre DEF Carrying, OneMessageEach
  <1>4. /\ \A r \in Requests : answer'[r] = IF r \in who THEN result ELSE answer[r]
        /\ req \in Requests /\ req \in 1..asked /\ waitsOn[req] = NotWaiting
    BY <1>1, <1>3, ChannelElements DEF Answer, Carried
  <1>. HIDE DEF req
  <1>5. 1..asked \subseteq Requests
    BY MaxRequestsAssumption DEF TypeOK, AppType, Requests
  <1>6. ASSUME NEW m, Carried(m), m.request # req  PROVE Carried(m)'
    BY <1>4, <1>5, <1>6 DEF Carried, req
  <1>7. OneMessageEach'
    <2>1. \A p \in Elements(toJs') : Carried(p.message)'
      BY <1>1, <1>3, <1>6 DEF Carrying, OneMessageEach
    <2>2. \A m \in Elements(toNacl') : Carried(m)'
      BY <1>3, <1>6 DEF Carrying, OneMessageEach
    <2>. QED
      BY <1>1, <1>2, <2>1, <2>2 DEF Carrying, OneMessageEach
  <1>8. \A r : HasMessage(r) /\ r # req => HasMessage(r)'
    BY <1>1 DEF HasMessage, req
  <1>9. ASSUME NEW r \in Requests, r > asked  PROVE r \notin who
    BY <1>4, <1>9 DEF Carrying, RequestsKept, req, TypeOK, AppType
  <1>10. \A r \in Requests : r > asked' => answer'[r] = "none" /\ waitsOn'[r] = NotWaiting
    BY <1>4, <1>9 DEF Carrying, RequestsKept
  <1>11. ASSUME NEW r \in 1..asked
         PROVE  /\ answer'[r] # "none"
                /\ answer'[r] = "failed" => waitsOn'[r] = NotWaiting
                /\ answer'[r] = "pending" /\ waitsOn'[r] = NotWaiting => HasMessage(r)'
    <2>1. CASE r \in who
      BY <1>4, <1>5, <2>1 DEF req
    <2>2. CASE r \notin who
      <3>1. r # req
        BY <2>2 DEF req
      <3>. QED
        BY <1>4, <1>5, <1>8, <2>2, <3>1 DEF Carrying, RequestsKept
    <2>. QED
      BY <2>1, <2>2
  <1>. QED
    BY <1>7, <1>10, <1>11 DEF Carrying, RequestsKept

\* Those who wait on a resolver are known by the name they wait for.
LEMMA FiredWait ==
    ASSUME NEW stats, NEW r \in Fired(stats)
    PROVE  r \in Requests /\ waitsOn[r] # NotWaiting
  BY DEF Fired, NotWaiting

LEMMA CarryingStep ==
    ASSUME TypeOK, Carrying, [Next]_vars
    PROVE  Carrying'
  <1>1. CASE HandlerStep
    <2>1. /\ UNCHANGED toJs
          /\ \/ AnswersAtOnce \/ \E n \in Names : Waits(n)
             \/ \E m \in Messages : Posts(m)
      BY <1>1, HandlerCases
    <2>2. CASE AnswersAtOnce
      BY <2>1, <2>2, AskCarrying DEF AnswersAtOnce
    <2>3. ASSUME NEW n \in Names, Waits(n)  PROVE Carrying'
      <3>1. [name |-> {n}, batch |-> entries[n].resolver] # NotWaiting
        <4>1. [name |-> {n}, batch |-> entries[n].resolver].name # NotWaiting.name
          BY DEF NotWaiting
        <4>. QED
          BY <4>1
      <3>. QED
        BY <2>1, <2>3, <3>1, AskCarrying DEF Waits
    <2>4. ASSUME NEW m \in Messages, Posts(m)  PROVE Carrying'
      BY <2>1, <2>4, AskCarrying DEF Posts
    <2>. QED
      BY <2>1, <2>2, <2>3, <2>4
  <1>2. CASE NaclServes
    <2>1. OneMessageEach' /\ \A r : HasMessage(r) => HasMessage(r)'
      BY <1>2, Moved DEF Carrying
    <2>2. UNCHANGED appVars
      BY <1>2, ModuleAnswers
    <2>. QED
      BY <2>1, <2>2 DEF Carrying, RequestsKept, appVars
  <1>3. CASE HandleReply
    <2>1. /\ toJs # <<>> /\ toJs' = Tail(toJs) /\ UNCHANGED <<asked, waitsOn>>
      BY <1>3, ReplyCases
    <2>2. CASE Retry
      <3>1. OneMessageEach' /\ \A r : HasMessage(r) => HasMessage(r)'
        BY <1>3, <2>2, Resent DEF Carrying
      <3>. QED
        BY <2>2, <3>1 DEF Carrying, RequestsKept, appVars, Retry
    <2>3. CASE MetadataArrives
      <3>1. PICK who : /\ Answer(who, "ok") /\ Head(toJs).message.request \in who
                       /\ who \subseteq {Head(toJs).message.request} \cup Fired(Head(toJs).stats)
        BY <2>3 DEF MetadataArrives
      <3>. QED
        BY <2>1, <2>3, <3>1, FiredWait, AnswerCarrying DEF MetadataArrives
    <2>4. CASE ListingArrives \/ OperationDone \/ RequestFails
      <3>1. /\ \E result \in {"ok", "failed"} : Answer({Head(toJs).message.request}, result)
            /\ UNCHANGED toNacl
        BY <2>4 DEF ListingArrives, OperationDone, RequestFails
      <3>. QED
        BY <2>1, <3>1, AnswerCarrying
    <2>. QED
      BY <1>3, <2>2, <2>3, <2>4 DEF HandleReply
  <1>4. CASE UNCHANGED vars
    BY <1>4 DEF vars, appVars, Carrying, OneMessageEach, RequestsKept, Carried, HasMessage
  <1>. QED
    BY <1>1, <1>2, <1>3, <1>4 DEF Next, HandlerStep

LEMMA CarryingInit == Init => Carrying
  BY ElementsEmpty DEF Init, Carrying, OneMessageEach, RequestsKept, Distinct

LEMMA AlwaysCarrying == Spec => []Carrying
  BY CarryingInit, CarryingStep, TypeCorrect, PTL DEF Spec

LEMMA InFlightElements ==
    ASSUME NEW r
    PROVE  InFlight(r) <=> HasMessage(r)
  BY DEF InFlight, HasMessage, Elements

\* No request of the Files app is dropped, for any number of names, requests and
\* attempts: once it is made it is answered, or has exactly one message under way,
\* in one direction, or waits on a stat_resolver; and it is answered once only,
\* because a request whose answer it has been told has no message left.
THEOREM RequestsNotDropped == Spec => []NoRequestDropped
  <1>1. ASSUME TypeOK, Carrying  PROVE NoRequestDropped
    <2>1. ASSUME NEW r \in 1..asked, HasMessage(r)
          PROVE  answer[r] = "pending" /\ waitsOn[r] = NotWaiting
      BY <1>1, <2>1 DEF Carrying, OneMessageEach, HasMessage, Carried
    <2>2. ASSUME NEW r \in 1..asked
          PROVE  InFlight(r) <=> HasMessage(r)
      BY InFlightElements
    <2>3. ASSUME NEW r \in 1..asked, answer[r] = "pending"
          PROVE  HasMessage(r) <=> waitsOn[r] = NotWaiting
      BY <1>1, <2>1, <2>3 DEF Carrying, RequestsKept
    <2>4. ASSUME NEW r \in 1..asked
          PROVE  InFlight(r) \in BOOLEAN /\ (waitsOn[r] # NotWaiting) \in BOOLEAN
      BY DEF InFlight
    <2>5. ASSUME NEW r \in 1..asked, answer[r] = "pending"
          PROVE  InFlight(r) # (waitsOn[r] # NotWaiting)
      BY <2>2, <2>3, <2>4, <2>5
    <2>6. ASSUME NEW r \in 1..asked, answer[r] \in {"ok", "failed"}
          PROVE  ~InFlight(r)
      BY <2>1, <2>2, <2>6
    <2>. QED
      BY <2>5, <2>6 DEF NoRequestDropped
  <1>. QED
    BY <1>1, TypeCorrect, AlwaysCarrying, PTL

-----------------------------------------------------------------------------
(* A resolver on an entry has a batch that will settle it, or has failed.  *)

Owned(n, batch) == \/ batch \in Requests /\ answer[batch] = "failed"
                   \/ \E m \in Elements(toNacl) : AsksFor(m, batch, n)
                   \/ \E p \in Elements(toJs) : AsksFor(p.message, batch, n)

\* The same of the next state.
OwnedNext(n, batch) == \/ batch \in Requests /\ answer'[batch] = "failed"
                       \/ \E m \in Elements(toNacl') : AsksFor(m, batch, n)
                       \/ \E p \in Elements(toJs') : AsksFor(p.message, batch, n)

LEMMA OwnedResolvers ==
    /\ ResolversOwned <=> \A n \in Names : entries[n].resolver # None => Owned(n, entries[n].resolver)
    /\ (\A n \in Names : entries'[n].resolver # None => OwnedNext(n, entries'[n].resolver))
          => ResolversOwned'
  BY DEF ResolversOwned, Owned, OwnedNext, None

LEMMA OwningStep ==
    ASSUME IInv, Carrying, Owning, [Next]_vars
    PROVE  Owning'
  <1>0. /\ TypeOK /\ CacheConsistent /\ BatchesTell /\ OneMessageEach /\ RequestsKept
        /\ \A n \in Names : entries[n].resolver # None => Owned(n, entries[n].resolver)
    BY OwnedResolvers DEF IInv, Owning, Carrying
  <1>a. ASSUME BatchesTell',
               \A n \in Names : entries'[n].resolver # None => OwnedNext(n, entries'[n].resolver)
        PROVE  Owning'
    BY <1>a, OwnedResolvers DEF Owning
  <1>1. CASE HandlerStep
    <2>1. /\ UNCHANGED toJs
          /\ \/ AnswersAtOnce \/ \E n \in Names : Waits(n)
             \/ \E m \in Messages : Posts(m) /\ (LooksUp(m) \/ Operates(m))
      BY <1>0, <1>1, HandlerCases
    <2>2. BatchesTell'
      BY <1>0, <2>1 DEF BatchesTell
    <2>3. PICK result, resolver : Ask(result, resolver)
      BY <2>1 DEF AnswersAtOnce, Waits, Posts
    <2>4. \A r \in Requests : answer[r] = "failed" => answer'[r] = "failed"
      <3>1. asked + 1 \in Requests /\ asked + 1 > asked
        BY <1>0, <2>3, MaxRequestsAssumption DEF Ask, TypeOK, AppType, Requests
      <3>2. answer[asked + 1] = "none"
        BY <1>0, <3>1 DEF RequestsKept
      <3>. QED
        BY <2>3, <3>1, <3>2 DEF Ask
    <2>5. ASSUME Elements(toNacl) \subseteq Elements(toNacl'), NEW n, NEW batch, Owned(n, batch)
          PROVE  OwnedNext(n, batch)
      BY <2>1, <2>4, <2>5 DEF Owned, OwnedNext
    <2>6. CASE UNCHANGED <<toNacl, cacheVars>>
      <3>1. UNCHANGED entries
        BY <2>6 DEF cacheVars
      <3>. QED
        BY <1>0, <1>a, <2>2, <2>5, <2>6, <3>1
    <2>7. ASSUME NEW m \in Messages, Posts(m), LooksUp(m) \/ Operates(m)
          PROVE  Owning'
      <3>1. Elements(toNacl') = Elements(toNacl) \cup {m} /\ m.request = asked + 1
        BY <1>0, <2>7, ChannelElements, ElementsAppend DEF Posts
      <3>2. ASSUME NEW n \in Names, entries'[n].resolver # None
            PROVE  \/ entries'[n].resolver = entries[n].resolver
                   \/ entries'[n].resolver = asked + 1 /\ AsksFor(m, asked + 1, n)
        <4>1. CASE UNCHANGED cacheVars
          BY <4>1 DEF cacheVars
        <4>2. CASE entries' = [k \in Names |-> NoEntry]
          BY <3>2, <4>2 DEF NoEntry
        <4>3. CASE Operates(m)
          BY <3>2, <4>3 DEF Operates, InvalidateEntries, NoEntry
        <4>4. ASSUME NEW taken \in SUBSET incomplete, TakeBatch(taken, asked + 1),
                     taken \subseteq m.names, m.kind = "batchGetMetadata"
              PROVE  \/ entries'[n].resolver = entries[n].resolver
                     \/ entries'[n].resolver = asked + 1 /\ AsksFor(m, asked + 1, n)
          BY <3>1, <4>4 DEF TakeBatch, Entry, AsksFor
        <4>. QED
          BY <2>7, <4>1, <4>2, <4>3, <4>4 DEF LooksUp
      <3>3. ASSUME NEW n \in Names, entries'[n].resolver # None
            PROVE  OwnedNext(n, entries'[n].resolver)
        BY <1>0, <2>5, <3>1, <3>2, <3>3 DEF OwnedNext
      <3>. QED
        BY <1>a, <2>2, <3>3
    <2>. QED
      BY <2>1, <2>6, <2>7 DEF AnswersAtOnce, Waits
  <1>2. CASE NaclServes
    <2>1. /\ toNacl \in Seq(Messages) /\ toNacl # <<>> /\ toNacl' = Tail(toNacl)
          /\ UNCHANGED <<cacheVars, appVars>> /\ Head(toNacl) \in Messages
      BY <1>0, <1>2, ModuleAnswers
    <2>2. PICK p \in Replies :
              /\ toJs' = Append(toJs, p) /\ p.message = Head(toNacl)
              /\ p.result = "ok" => Possible(p.message) /\ p.stats \in Stats(p.message)
      BY <1>0, <1>2, ModuleAnswers
    <2>3. /\ Elements(toNacl) = Elements(toNacl') \cup {p.message}
          /\ Elements(toJs') = Elements(toJs) \cup {p}
      BY <1>0, <2>1, <2>2, ElementsTail, ElementsAppend, ChannelElements
    <2>4. ASSUME p.result = "ok", p.message.kind = "batchGetMetadata", NEW n \in p.message.names
          PROVE  p.stats[n] # Gone
      <3>1. n \in Names
        BY <2>2, <2>4, ChannelElements, <1>0
      <3>2. p.stats = [k \in Names |-> IF k \in p.message.names /\ p.message.kind \in MetadataKinds
                                         THEN server[k] ELSE Gone]
        BY <2>2, <2>4 DEF Stats
      <3>3. n \in Exist
        BY <2>2, <2>4 DEF Possible, Needed
      <3>. QED
        BY <2>4, <3>1, <3>2, <3>3 DEF Exist, MetadataKinds
    <2>5. BatchesTell'
      BY <1>0, <2>3, <2>4 DEF BatchesTell
    <2>6. \A n, batch : Owned(n, batch) => OwnedNext(n, batch)
      BY <2>1, <2>3 DEF Owned, OwnedNext, appVars
    <2>. QED
      BY <1>0, <1>a, <2>1, <2>5, <2>6 DEF cacheVars
  <1>3. CASE HandleReply
    <2>. DEFINE reply == Head(toJs)
    <2>1. /\ toJs \in Seq(Replies) /\ toJs # <<>> /\ toJs' = Tail(toJs) /\ reply \in Replies
      BY <1>0, <1>3, ReplyCases
    <2>2. Elements(toJs) = Elements(toJs') \cup {reply}
      BY <2>1, ElementsTail
    <2>3. BatchesTell'
      BY <1>0, <2>2 DEF BatchesTell
    <2>4. CASE Retry
      <3>1. ~(MetadataArrives \/ ListingArrives \/ OperationDone \/ RequestFails)
        BY <2>4 DEF Retry, Retries, MetadataArrives, ListingArrives, OperationDone, RequestFails
      <3>2. PICK m \in Messages :
                    /\ toNacl' = Append(toNacl, m) /\ UNCHANGED <<cacheVars, answer>>
                    /\ m.request = reply.message.request
                    /\ m.kind = reply.message.kind /\ m.names = reply.message.names
        BY <1>0, <1>3, <3>1, ReplyCases
      <3>3. Elements(toNacl') = Elements(toNacl) \cup {m}
        BY <1>0, <3>2, ChannelElements, ElementsAppend
      <3>4. \A n, batch : Owned(n, batch) => OwnedNext(n, batch)
        BY <2>2, <3>2, <3>3 DEF Owned, OwnedNext, AsksFor
      <3>. QED
        BY <1>0, <1>a, <2>3, <3>2, <3>4 DEF cacheVars
    <2>5. CASE ListingArrives
      <3>1. \A n \in Names : entries'[n].resolver = None
        BY <2>5 DEF ListingArrives, CacheDirectoryContents, Entry, NoEntry
      <3>. QED
        BY <1>a, <2>3, <3>1
    <2>6. Carried(reply.message) /\ reply.message.request \in Requests
      BY <1>0, <2>1, <2>2, ChannelElements DEF OneMessageEach
    <2>7. CASE OperationDone
      <3>1. UNCHANGED <<cacheVars, toNacl>> /\ reply.message.kind # "batchGetMetadata"
        BY <2>7, OperationsAssumption DEF OperationDone, AllOperations
      <3>2. \A r \in Requests : answer[r] = "failed" => answer'[r] = "failed"
        BY <2>6, <2>7 DEF OperationDone, Answer, Carried
      <3>3. \A n, batch : Owned(n, batch) => OwnedNext(n, batch)
        BY <2>2, <3>1, <3>2 DEF Owned, OwnedNext, AsksFor
      <3>. QED
        BY <1>0, <1>a, <2>3, <3>1, <3>3 DEF cacheVars
    <2>8. CASE RequestFails
      <3>1. UNCHANGED <<cacheVars, toNacl>>
        BY <2>8 DEF RequestFails
      <3>2. /\ \A r \in Requests : answer[r] = "failed" => answer'[r] = "failed"
            /\ answer'[reply.message.request] = "failed"
        BY <2>6, <2>8 DEF RequestFails, Answer
      <3>3. \A n, batch : Owned(n, batch) => OwnedNext(n, batch)
        BY <2>2, <2>6, <3>1, <3>2 DEF Owned, OwnedNext, AsksFor
      <3>. QED
        BY <1>0, <1>a, <2>3, <3>1, <3>3 DEF cacheVars
    <2>9. CASE MetadataArrives
      <3>1. /\ UNCHANGED toNacl /\ reply.result = "ok" /\ UpdateMetadata(reply.stats)
            /\ Answer({reply.message.request} \cup IF cached THEN Fired(reply.stats) ELSE {}, "ok")
        BY <2>9 DEF MetadataArrives
      <3>2. ASSUME NEW r \in Requests, answer[r] = "failed"  PROVE answer'[r] = "failed"
        <4>1. r # reply.message.request
          BY <2>6, <3>2 DEF Carried
        <4>2. r \notin Fired(reply.stats)
          <5>1. CASE r \in 1..asked
            BY <1>0, <3>2, <5>1, FiredWait DEF RequestsKept
          <5>2. CASE r \notin 1..asked
            <6>1. r > asked
              BY <1>0, <5>2 DEF TypeOK, AppType, Requests
            <6>. QED
              BY <1>0, <6>1, FiredWait DEF RequestsKept
          <5>. QED
            BY <5>1, <5>2
        <4>. QED
          BY <3>1, <3>2, <4>1, <4>2 DEF Answer
      <3>3. ASSUME NEW n \in Names, entries'[n].resolver # None
            PROVE  OwnedNext(n, entries'[n].resolver)
        <4>1. cached
          BY <1>0, <3>1, <3>3 DEF UpdateMetadata, CacheConsistent, Present, NoEntry
        <4>2. entries'[n] = entries[n] /\ reply.stats[n] = Gone
          BY <3>1, <3>3, <4>1 DEF UpdateMetadata, Entry, Told
        <4>3. ~AsksFor(reply.message, entries[n].resolver, n)
          BY <1>0, <2>2, <3>1, <4>2 DEF BatchesTell, AsksFor
        <4>4. Owned(n, entries[n].resolver)
          BY <1>0, <3>3, <4>2
        <4>. QED
          BY <2>2, <3>1, <3>2, <4>2, <4>3, <4>4 DEF Owned, OwnedNext
      <3>. QED
        BY <1>a, <2>3, <3>3
    <2>. QED
      BY <1>3, <2>4, <2>5, <2>7, <2>8, <2>9 DEF HandleReply
  <1>4. CASE UNCHANGED vars
    BY <1>0, <1>a, <1>4 DEF vars, cacheVars, appVars, BatchesTell, Owned, OwnedNext
  <1>. QED
    BY <1>1, <1>2, <1>3, <1>4 DEF Next, HandlerStep

\* A stat_resolver that a later request may wait on is never an orphan, for any
\* batch size and number of names: the batch that put it on the entry asks for that
\* entry and is still under way, or it has failed, and then nothing settles the
\* resolver.
THEOREM ResolversHaveOwners == Spec => []ResolverHasOwner
  <1>1. Init => Owning
    BY ElementsEmpty DEF Init, Owning, BatchesTell, ResolversOwned, NoEntry, None
  <1>2. IInv /\ Carrying /\ Owning /\ [Next]_vars => Owning'
    BY OwningStep
  <1>3. Owning => ResolverHasOwner
    BY DEF Owning, ResolversOwned, ResolverHasOwner, AsksFor, Elements
  <1>. QED
    BY <1>1, <1>2, <1>3, Invariance, AlwaysCarrying, PTL DEF Spec

-----------------------------------------------------------------------------
(* What is cached is what the server has.                                  *)

LEMMA TellingAre ==
    \A n : \A m \in Messages : /\ m \in Telling(n) <=> TellsOf(m, n)
                               /\ m \in Changing(n) <=> Changes(m, n)
  BY DEF Telling, Changing

LEMMA ChangesItsNames ==
    ASSUME NEW m, WellMade(m), NEW n, Changes(m, n)
    PROVE  /\ n \in m.names /\ m.kind \notin MetadataKinds \cup {"openFile", "copyEntry"}
           /\ m.kind \in {"deleteEntry", "truncate", "moveEntry", "writeFile", "createFile"}
  BY DEF WellMade, Changes, Removed, Renewed, MetadataKinds

LEMMA UnderWayElements ==
    ASSUME NEW n
    PROVE  UnderWay(n) <=> \/ \E m \in Elements(toNacl) : TellsOf(m, n)
                           \/ \E p \in Elements(toJs) : TellsOf(p.message, n)
  BY DEF UnderWay, Elements

\* InOrder of the next state, of a name that is still outside raced.
InOrderNext(n) ==
    /\ NeverBefore(toNacl', Telling(n), Changing(n))
    /\ (\E m \in Elements(toNacl') : Changes(m, n)) =>
           entries'[n] = NoEntry /\ \A p \in Elements(toJs') : ~TellsOf(p.message, n)
    /\ \A p \in Elements(toJs') : IsSize(p.stats[n]) => p.stats[n] = server'[n]
    /\ IsSize(entries'[n].stat) => entries'[n].stat = server'[n]

LEMMA FaithfulNext ==
    ASSUME \A m \in Elements(toNacl') : WellMade(m),
           \A p \in Elements(toJs') : /\ WellMade(p.message)
                                      /\ \A n \in Names : p.stats[n] # Gone => TellsOf(p.message, n),
           \A n \in Names \ raced' : InOrderNext(n)
    PROVE  Faithful'
  BY DEF Faithful, InOrder, InOrderNext, Present, NoEntry, IsSize, Gone, Unknown

\* A message of the queue, posted or sent again, whose changes are recorded.
LEMMA PostFaithful ==
    ASSUME TypeOK, NEW m \in Messages, toNacl' = Append(toNacl, m), NEW n \in Names, InOrder(n),
           Changes(m, n) => ~UnderWay(n)
    PROVE  /\ NeverBefore(toNacl', Telling(n), Changing(n))
           /\ Elements(toNacl') = Elements(toNacl) \cup {m}
  <1>1. /\ toNacl \in Seq(Messages)
        /\ \A k \in Elements(toNacl) : k \in Messages
    BY ChannelElements
  <1>2. m \in Changing(n) => \A k \in Elements(toNacl) : k \notin Telling(n)
    BY <1>1, TellingAre, UnderWayElements
  <1>. QED
    BY <1>1, <1>2, NeverBeforeAppend, ElementsAppend DEF InOrder

LEMMA FaithfulStep ==
    ASSUME IInv, Faithful, [Next]_vars
    PROVE  Faithful'
  <1>0. /\ TypeOK /\ CacheConsistent
        /\ \A m \in Elements(toNacl) : WellMade(m)
        /\ \A p \in Elements(toJs) : /\ WellMade(p.message)
                                     /\ \A n \in Names : p.stats[n] # Gone => TellsOf(p.message, n)
        /\ \A n \in Names \ raced : InOrder(n)
    BY DEF IInv, Faithful
  <1>1. CASE HandlerStep
    <2>1. /\ UNCHANGED <<toJs, serverVars>>
          /\ \/ AnswersAtOnce \/ \E n \in Names : Waits(n)
             \/ \E m \in Messages : Posts(m) /\ (LooksUp(m) \/ Operates(m))
      BY <1>0, <1>1, HandlerCases
    <2>2. UNCHANGED server
      BY <2>1 DEF serverVars
    <2>3. CASE UNCHANGED <<toNacl, cacheVars, raced>>
      <3>1. \A n \in Names \ raced' : InOrderNext(n)
        BY <1>0, <2>1, <2>2, <2>3 DEF InOrder, InOrderNext, cacheVars, Present
      <3>. QED
        BY <1>0, <2>1, <2>3, <3>1, FaithfulNext
    <2>4. ASSUME NEW m \in Messages, Posts(m), LooksUp(m)  PROVE Faithful'
      <3>1. /\ toNacl' = Append(toNacl, m) /\ WellMade(m) /\ UNCHANGED raced
            /\ m.kind \in MetadataKinds
        BY <2>4 DEF Posts, LooksUp
      <3>2. \A n : ~Changes(m, n)
        BY <3>1, ChangesItsNames
      <3>3. ASSUME NEW n \in Names \ raced
            PROVE  entries[n] = NoEntry => entries'[n] = NoEntry
        <4>1. CASE UNCHANGED cacheVars
          BY <4>1 DEF cacheVars
        <4>2. CASE entries' = [k \in Names |-> NoEntry]
          BY <4>2
        <4>3. ASSUME NEW taken \in SUBSET incomplete, TakeBatch(taken, asked + 1)
              PROVE  entries[n] = NoEntry => entries'[n] = NoEntry
          BY <1>0, <4>3 DEF TakeBatch, CacheConsistent, Entry, NoEntry, Gone, Unknown
        <4>. QED
          BY <2>4, <4>1, <4>2, <4>3 DEF LooksUp
      <3>4. ASSUME NEW n \in Names
            PROVE  IsSize(entries'[n].stat) => entries'[n].stat = entries[n].stat
        <4>1. CASE UNCHANGED cacheVars
          BY <4>1 DEF cacheVars
        <4>2. CASE entries' = [k \in Names |-> NoEntry]
          BY <4>2 DEF IsSize, NoEntry
        <4>3. ASSUME NEW taken \in SUBSET incomplete, TakeBatch(taken, asked + 1)
              PROVE  entries'[n].stat = entries[n].stat
          BY <4>3 DEF TakeBatch, Entry
        <4>. QED
          BY <2>4, <4>1, <4>2, <4>3 DEF LooksUp
      <3>5. ASSUME NEW n \in Names \ raced'  PROVE InOrderNext(n)
        <4>1. /\ NeverBefore(toNacl', Telling(n), Changing(n))
              /\ Elements(toNacl') = Elements(toNacl) \cup {m} /\ InOrder(n)
          BY <1>0, <3>1, <3>2, PostFaithful
        <4>2. (\E k \in Elements(toNacl') : Changes(k, n)) =>
                  entries'[n] = NoEntry /\ \A p \in Elements(toJs') : ~TellsOf(p.message, n)
          BY <2>1, <3>1, <3>2, <3>3, <4>1 DEF InOrder, Present
        <4>3. IsSize(entries'[n].stat) => entries'[n].stat = server'[n]
          BY <2>2, <3>4, <4>1 DEF InOrder, IsSize
        <4>. QED
          BY <2>1, <2>2, <4>1, <4>2, <4>3 DEF InOrderNext, InOrder
      <3>6. Elements(toNacl') = Elements(toNacl) \cup {m}
        BY <1>0, <3>1, ChannelElements, ElementsAppend
      <3>. QED
        BY <1>0, <2>1, <3>1, <3>5, <3>6, FaithfulNext
    <2>5. ASSUME NEW m \in Messages, Posts(m), Operates(m)  PROVE Faithful'
      <3>1. /\ toNacl' = Append(toNacl, m) /\ WellMade(m)
            /\ m.kind \in AllOperations /\ InvalidateEntries(Invalidated(m.kind, m.names))
            /\ raced \subseteq raced'
        BY <2>5 DEF Posts, Operates
      <3>2. m.kind \notin MetadataKinds
        BY <3>1 DEF AllOperations, MetadataKinds
      <3>3. ASSUME NEW n \in Names \ raced', Changes(m, n)
            PROVE  /\ ~UnderWay(n) /\ entries'[n] = NoEntry
        <4>1. /\ n \in m.names /\ m.kind \notin {"openFile", "copyEntry"}
              /\ m.kind \in {"deleteEntry", "truncate", "moveEntry", "writeFile", "createFile"}
          BY <3>1, <3>3, ChangesItsNames
        <4>2. /\ ~UnderWay(n)
              /\ m.kind \in {"writeFile", "createFile"} => ~Present(n)
          BY <2>5, <3>3, <4>1 DEF Operates
        <4>3. entries'[n] = NoEntry
          <5>1. CASE m.kind \in {"writeFile", "createFile"}
            BY <3>1, <4>2, <5>1 DEF InvalidateEntries, Present
          <5>2. CASE m.kind \in {"deleteEntry", "truncate", "moveEntry"}
            BY <3>1, <4>1, <5>2 DEF InvalidateEntries, Invalidated
          <5>. QED
            BY <4>1, <5>1, <5>2
        <4>. QED
          BY <4>2, <4>3
      <3>4. \A n \in Names : entries'[n] = entries[n] \/ entries'[n] = NoEntry
        BY <3>1 DEF InvalidateEntries
      <3>5. ASSUME NEW n \in Names \ raced'  PROVE InOrderNext(n)
        <4>1. /\ NeverBefore(toNacl', Telling(n), Changing(n))
              /\ Elements(toNacl') = Elements(toNacl) \cup {m} /\ InOrder(n)
          BY <1>0, <3>1, <3>3, PostFaithful
        <4>2. (\E k \in Elements(toNacl') : Changes(k, n)) =>
                  entries'[n] = NoEntry /\ \A p \in Elements(toJs') : ~TellsOf(p.message, n)
          BY <2>1, <3>3, <3>4, <4>1, UnderWayElements DEF InOrder, Present
        <4>3. IsSize(entries'[n].stat) => entries'[n].stat = server'[n]
          BY <2>2, <3>4, <4>1 DEF InOrder, IsSize, NoEntry
        <4>. QED
          BY <2>1, <2>2, <4>1, <4>2, <4>3 DEF InOrderNext, InOrder
      <3>6. Elements(toNacl') = Elements(toNacl) \cup {m}
        BY <1>0, <3>1, ChannelElements, ElementsAppend
      <3>. QED
        BY <1>0, <2>1, <3>1, <3>5, <3>6, FaithfulNext
    <2>. QED
      BY <2>1, <2>3, <2>4, <2>5 DEF AnswersAtOnce, Waits
  <1>2. CASE NaclServes
    <2>1. /\ toNacl \in Seq(Messages) /\ toNacl # <<>> /\ toNacl' = Tail(toNacl)
          /\ UNCHANGED <<cacheVars, raced>> /\ Head(toNacl) \in Messages
      BY <1>0, <1>2, ModuleAnswers
    <2>. DEFINE m == Head(toNacl)
    <2>2. PICK p \in Replies :
              /\ toJs' = Append(toJs, p) /\ p.message = m
              /\ \/ p.result = "ok" /\ Possible(m) /\ p.stats \in Stats(m) /\ Perform(m)
                 \/ p.result # "ok" /\ p.stats = NoStats /\ (Perform(m) \/ UNCHANGED serverVars)
      BY <1>0, <1>2, ModuleAnswers
    <2>3. /\ Elements(toNacl) = Elements(toNacl') \cup {m}
          /\ Elements(toJs') = Elements(toJs) \cup {p}
      BY <1>0, <2>1, <2>2, ElementsTail, ElementsAppend, ChannelElements
    <2>8. WellMade(m)
      BY <1>0, <2>3
    <2>4. ASSUME NEW n \in Names, p.stats[n] # Gone
          PROVE  TellsOf(m, n) /\ (p.stats[n] = Unknown \/ p.stats[n] = server[n])
      <3>1. p.stats \in Stats(m)
        BY <2>2, <2>4 DEF NoStats
      <3>2. CASE m.kind = "readDirectory"
        BY <2>4, <2>8, <3>1, <3>2 DEF Stats, TellsOf, MetadataKinds, WellMade
      <3>3. CASE m.kind # "readDirectory"
        BY <2>4, <3>1, <3>3 DEF Stats, TellsOf
      <3>. QED
        BY <3>2, <3>3
    <2>5. ASSUME NEW n \in Names, ~Changes(m, n)  PROVE server'[n] = server[n]
      BY <2>2, <2>5 DEF Perform, Changes, serverVars
    <2>. HIDE DEF m
    <2>6. \A n : TellsOf(m, n) => ~Changes(m, n)
      BY <1>0, <2>3, ChangesItsNames DEF TellsOf
    <2>7. ASSUME NEW n \in Names \ raced'  PROVE InOrderNext(n)
      <3>1. InOrder(n)
        BY <1>0, <2>1, <2>7
      <3>2. /\ NeverBefore(toNacl', Telling(n), Changing(n))
            /\ TellsOf(m, n) => \A k \in Elements(toNacl') : ~Changes(k, n)
        <4>1. /\ NeverBefore(toNacl', Telling(n), Changing(n))
              /\ m \in Telling(n) => \A k \in Elements(toNacl') : k \notin Changing(n)
          BY <2>1, <3>1, NeverBeforeTail DEF InOrder, m
        <4>2. m \in Messages /\ \A k \in Elements(toNacl') : k \in Messages
          BY <1>0, <2>1, <2>3, ChannelElements DEF m
        <4>. QED
          BY <4>1, <4>2, TellingAre
      <3>3. (\E k \in Elements(toNacl') : Changes(k, n)) =>
                entries'[n] = NoEntry /\ \A k \in Elements(toJs') : ~TellsOf(k.message, n)
        BY <2>1, <2>2, <2>3, <3>1, <3>2 DEF InOrder, Present, cacheVars
      <3>4. Changes(m, n) => entries[n] = NoEntry /\ \A k \in Elements(toJs) : ~TellsOf(k.message, n)
        BY <2>3, <3>1 DEF InOrder, Present
      <3>5. ASSUME NEW k \in Elements(toJs'), IsSize(k.stats[n])  PROVE k.stats[n] = server'[n]
        <4>1. CASE k \in Elements(toJs)
          <5>1. k.stats[n] = server[n] /\ TellsOf(k.message, n)
            BY <1>0, <3>1, <3>5, <4>1 DEF InOrder, IsSize
          <5>2. ~Changes(m, n)
            BY <3>4, <4>1, <5>1
          <5>. QED
            BY <2>5, <5>1, <5>2
        <4>2. CASE k = p
          BY <2>4, <2>5, <2>6, <3>5, <4>2 DEF IsSize
        <4>. QED
          BY <2>3, <4>1, <4>2
      <3>6. ASSUME IsSize(entries'[n].stat)  PROVE entries'[n].stat = server'[n]
        <4>1. entries'[n] = entries[n] /\ entries[n].stat = server[n]
          BY <2>1, <3>1, <3>6 DEF InOrder, cacheVars
        <4>2. ~Changes(m, n)
          BY <3>4, <3>6, <4>1 DEF IsSize, NoEntry
        <4>. QED
          BY <2>5, <4>1, <4>2
      <3>. QED
        BY <3>2, <3>3, <3>5, <3>6 DEF InOrderNext
    <2>. QED
      BY <1>0, <2>2, <2>3, <2>4, <2>7, <2>8, FaithfulNext
  <1>3. CASE HandleReply
    <2>. DEFINE reply == Head(toJs)
    <2>1. /\ toJs \in Seq(Replies) /\ toJs # <<>> /\ toJs' = Tail(toJs) /\ reply \in Replies
          /\ UNCHANGED serverVars
      BY <1>0, <1>3, ReplyCases
    <2>2. Elements(toJs) = Elements(toJs') \cup {reply}
      BY <2>1, ElementsTail
    <2>3. UNCHANGED server
      BY <2>1 DEF serverVars
    <2>4. CASE Retry
      <3>1. ~(MetadataArrives \/ ListingArrives \/ OperationDone \/ RequestFails)
        BY <2>4 DEF Retry, Retries, MetadataArrives, ListingArrives, OperationDone, RequestFails
      <3>2. PICK m \in Messages :
                    /\ toNacl' = Append(toNacl, m) /\ UNCHANGED cacheVars
                    /\ m.kind = reply.message.kind /\ m.names = reply.message.names
                    /\ m.target = reply.message.target
        BY <1>0, <1>3, <3>1, ReplyCases
      <3>3. raced \subseteq raced' /\ WellMade(m)
        BY <1>0, <2>2, <2>4, <3>2 DEF Retry, WellMade
      <3>4. ASSUME NEW n \in Names \ raced'  PROVE ~Changes(m, n)
        BY <2>4, <3>2, <3>3, <3>4, ChangesItsNames DEF Retry
      <3>5. ASSUME NEW n \in Names \ raced'  PROVE InOrderNext(n)
        <4>1. /\ NeverBefore(toNacl', Telling(n), Changing(n))
              /\ Elements(toNacl') = Elements(toNacl) \cup {m} /\ InOrder(n)
          BY <1>0, <3>2, <3>3, <3>4, PostFaithful
        <4>2. entries'[n] = entries[n]
          BY <3>2 DEF cacheVars
        <4>. QED
          BY <2>2, <2>3, <3>4, <4>1, <4>2 DEF InOrderNext, InOrder, Present
      <3>6. Elements(toNacl') = Elements(toNacl) \cup {m}
        BY <1>0, <3>2, ChannelElements, ElementsAppend
      <3>. QED
        BY <1>0, <2>2, <3>3, <3>5, <3>6, FaithfulNext
    <2>5. CASE ~Retry
      <3>1. /\ UNCHANGED <<toNacl, raced>>
            /\ MetadataArrives \/ ListingArrives \/ UNCHANGED cacheVars
        BY <1>0, <1>3, <2>5, ReplyCases
      <3>2. ASSUME NEW n \in Names \ raced
            PROVE  \/ entries'[n] = entries[n]
                   \/ entries'[n] = NoEntry
                   \/ reply.stats[n] # Gone /\ entries'[n].stat = reply.stats[n]
        <4>1. CASE MetadataArrives
          BY <4>1 DEF MetadataArrives, UpdateMetadata, Told, Entry
        <4>2. CASE ListingArrives
          BY <4>2 DEF ListingArrives, CacheDirectoryContents, Told, Entry
        <4>3. CASE UNCHANGED cacheVars
          BY <4>3 DEF cacheVars
        <4>. QED
          BY <3>1, <4>1, <4>2, <4>3
      <3>3. ASSUME NEW n \in Names \ raced'  PROVE InOrderNext(n)
        <4>1. InOrder(n) /\ n \in Names \ raced
          BY <1>0, <3>1, <3>3
        <4>2. (\E k \in Elements(toNacl') : Changes(k, n)) =>
                  entries'[n] = NoEntry /\ \A p \in Elements(toJs') : ~TellsOf(p.message, n)
          <5>1. SUFFICES ASSUME \E k \in Elements(toNacl) : Changes(k, n)
                         PROVE  /\ entries'[n] = NoEntry
                                /\ \A p \in Elements(toJs') : ~TellsOf(p.message, n)
            BY <3>1
          <5>2. entries[n] = NoEntry /\ \A p \in Elements(toJs) : ~TellsOf(p.message, n)
            BY <4>1, <5>1 DEF InOrder, Present
          <5>3. reply.stats[n] = Gone
            BY <1>0, <2>2, <4>1, <5>2
          <5>. QED
            BY <2>2, <3>2, <4>1, <5>2, <5>3
        <4>3. IsSize(entries'[n].stat) => entries'[n].stat = server'[n]
          <5>1. IsSize(reply.stats[n]) => reply.stats[n] = server[n]
            BY <2>2, <4>1 DEF InOrder
          <5>2. CASE entries'[n] = NoEntry
            BY <5>2 DEF IsSize, NoEntry
          <5>3. CASE entries'[n] = entries[n]
            BY <2>3, <4>1, <5>3 DEF InOrder
          <5>4. CASE entries'[n].stat = reply.stats[n]
            BY <2>3, <5>1, <5>4
          <5>. QED
            BY <3>2, <4>1, <5>2, <5>3, <5>4
        <4>. QED
          BY <2>2, <2>3, <3>1, <4>1, <4>2, <4>3 DEF InOrderNext, InOrder
      <3>. QED
        BY <1>0, <2>2, <3>1, <3>3, FaithfulNext
    <2>. QED
      BY <2>4, <2>5
  <1>4. CASE UNCHANGED vars
    <2>1. \A n \in Names \ raced' : InOrderNext(n)
      BY <1>0, <1>4 DEF vars, cacheVars, serverVars, InOrder, InOrderNext, Present
    <2>. QED
      BY <1>0, <1>4, <2>1, FaithfulNext DEF vars
  <1>. QED
    BY <1>1, <1>2, <1>3, <1>4 DEF Next, HandlerStep

\* What the cache says of a name is what the server has, for any names, requests,
\* retries and failures, unless an operation on the name overtook or was overtaken
\* by metadata of it, or was a write or a creation of a name that was cached: it is
\* enough that the handlers invalidate before they send, because the module serves
\* in the order it is sent to.
THEOREM CacheIsFresh == Spec => []FreshUnlessRaced
  <1>1. Init => Faithful
    BY ElementsEmpty DEF Init, Faithful, InOrder, NeverBefore, NoEntry, IsSize
  <1>2. IInv /\ Faithful /\ [Next]_vars => Faithful'
    BY FaithfulStep
  <1>3. IInv /\ Faithful => FreshUnlessRaced
    BY DEF IInv, CacheConsistent, Faithful, InOrder, FreshUnlessRaced, IsSize
  <1>. QED
    BY <1>1, <1>2, <1>3, Invariance, PTL DEF Spec

-----------------------------------------------------------------------------
(* The resolvers fire.                                                     *)

\* A request waits on the resolver of a batch.
WaitsOnBatches == \A r \in Requests : waitsOn[r].name # {} => waitsOn[r].batch # None

LEMMA WaitsOnBatchesStep ==
    ASSUME TypeOK, WaitsOnBatches, [Next]_vars
    PROVE  WaitsOnBatches'
  <1>1. CASE HandlerStep
    <2>1. PICK result, resolver : /\ Ask(result, resolver)
                                  /\ resolver.name # {} => resolver.batch # None
      <3>1. NotWaiting.name = {}
        BY DEF NotWaiting
      <3>2. ASSUME NEW n \in Names, Waits(n)
            PROVE  \E result, resolver : /\ Ask(result, resolver)
                                         /\ resolver.name # {} => resolver.batch # None
        <4>1. [name |-> {n}, batch |-> entries[n].resolver].batch # None
          BY <3>2 DEF Waits
        <4>. QED
          BY <3>2, <4>1 DEF Waits
      <3>3. (AnswersAtOnce \/ \E m : Posts(m)) => \E result : Ask(result, NotWaiting)
        BY DEF AnswersAtOnce, Posts
      <3>4. AnswersAtOnce \/ (\E n \in Names : Waits(n)) \/ \E m : Posts(m)
        BY <1>1, HandlerCases
      <3>. QED
        BY <3>1, <3>2, <3>3, <3>4
    <2>. QED
      BY <2>1 DEF WaitsOnBatches, Ask, TypeOK, AppType
  <1>2. CASE NaclServes
    BY <1>2, ModuleAnswers DEF WaitsOnBatches, appVars
  <1>3. CASE HandleReply
    BY <1>3, ReplyCases DEF WaitsOnBatches
  <1>4. CASE UNCHANGED vars
    BY <1>4 DEF vars, appVars, WaitsOnBatches
  <1>. QED
    BY <1>1, <1>2, <1>3, <1>4 DEF Next, HandlerStep

\* A resolver leaves its entry only when the entry leaves the cache, when a new
\* listing overwrites it, or when its metadata arrives.
LEMMA ResolverLeaves ==
    ASSUME IInv, Next, NEW n \in Names, entries[n].resolver # None,
           entries'[n].resolver # entries[n].resolver, entries'[n] # NoEntry, ~ListingArrives
    PROVE  MetadataArrives /\ cached /\ n \in Told(Head(toJs).stats)
  <1>0. TypeOK /\ CacheConsistent
    BY DEF IInv
  <1>1. CASE HandlerStep
    <2>1. \/ UNCHANGED cacheVars
          \/ \E m : LooksUp(m) \/ Operates(m)
      BY <1>0, <1>1, HandlerCases DEF AnswersAtOnce, Waits
    <2>2. ~UNCHANGED cacheVars /\ entries' # [k \in Names |-> NoEntry]
      BY DEF cacheVars
    <2>3. \A m : ~Operates(m)
      BY DEF Operates, InvalidateEntries
    <2>4. \A taken \in SUBSET incomplete : ~TakeBatch(taken, asked + 1)
      BY <1>0 DEF TakeBatch, CacheConsistent, Entry, None
    <2>. QED
      BY <2>1, <2>2, <2>3, <2>4 DEF LooksUp
  <1>2. CASE NaclServes
    BY <1>0, <1>2, ModuleAnswers DEF cacheVars
  <1>3. CASE HandleReply
    <2>1. MetadataArrives
      BY <1>0, <1>3, ReplyCases DEF cacheVars
    <2>. QED
      BY <2>1 DEF MetadataArrives, UpdateMetadata
  <1>. QED
    BY <1>1, <1>2, <1>3 DEF Next, HandlerStep

\* updateMetadata takes a stat_resolver off its entry only in a step that answers
\* all who wait on it, for any batches that overlap: it is looked up before the
\* entry is replaced, so no waiter is left behind while the entry stays.
THEOREM ResolversDoFire == Spec => ResolversFire
  <1>. DEFINE Fires ==
           \A r \in Requests, n \in Names :
              (/\ answer[r] = "pending"
               /\ waitsOn[r] = [name |-> {n}, batch |-> entries[n].resolver]
               /\ entries'[n].resolver # entries[n].resolver
               /\ entries'[n] # NoEntry /\ ~ListingArrives)
                 => answer'[r] = "ok"
  <1>1. Init => WaitsOnBatches
    BY DEF Init, WaitsOnBatches, NotWaiting
  <1>2. TypeOK /\ WaitsOnBatches /\ [Next]_vars => WaitsOnBatches'
    BY WaitsOnBatchesStep
  <1>3. IInv /\ WaitsOnBatches /\ [Next]_vars => [Fires]_vars
    <2>1. ASSUME IInv, WaitsOnBatches, Next, NEW r \in Requests, NEW n \in Names,
                 answer[r] = "pending",
                 waitsOn[r] = [name |-> {n}, batch |-> entries[n].resolver],
                 entries'[n].resolver # entries[n].resolver,
                 entries'[n] # NoEntry, ~ListingArrives
          PROVE  answer'[r] = "ok"
      <3>1. waitsOn[r].name = {n} /\ waitsOn[r].batch = entries[n].resolver
        BY <2>1
      <3>2. entries[n].resolver # None
        BY <2>1, <3>1 DEF WaitsOnBatches
      <3>3. MetadataArrives /\ cached /\ n \in Told(Head(toJs).stats)
        BY <2>1, <3>2, ResolverLeaves
      <3>4. r \in Fired(Head(toJs).stats)
        BY <2>1, <3>1, <3>3 DEF Fired
      <3>. QED
        BY <2>1, <3>3, <3>4 DEF MetadataArrives, Answer
    <2>. QED
      BY <2>1
  <1>. QED
    BY <1>1, <1>2, <1>3, Invariance, TypeCorrect, PTL DEF Spec, ResolversFire
=============================================================================
