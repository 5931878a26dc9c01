------------------------ MODULE MessageRouterProofs ------------------------
(***************************************************************************)
(* Proofs about MessageRouter for any number of requests, attempts and     *)
(* batches.  The argument follows a request's token: every action moves    *)
(* the token of one request from one place to the next (Moves), and a      *)
(* request is in the router's table as long as its token has not come back *)
(* to the page (InTable).  Then it follows the batches of the replies from *)
(* the module's counter to the Files app (InSequence, Told), which is what *)
(* the attempts' count and the refinement of RequestStream rest on.        *)
(***************************************************************************)
EXTENDS MessageRouter, FiniteSetTheorems, TLAPS

\* Ids are handed out in order, and what an issued id asks is fixed.
Issued ==
    \A id \in Ids :
        /\ id < nextId <=> outcome[id] # "unissued"
        /\ id < nextId => request[id] \in Request
        /\ id \in parked <=> outcome[id] = "parked"

\* The module serves a request it has batches left for.
ServesMore ==
    /\ nacl.id = NoId => nacl = Idle
    /\ nacl.id # NoId => nacl.sent < request[nacl.id].batches

\* The first half of InOnePlace.
OnePlaceEach ==
    \A id \in Ids : /\ outcome[id] = "waiting" <=> \E p \in Places : At(p, id)
                    /\ \A p, q \in Places : At(p, id) /\ At(q, id) => p = q

\* The router's table holds the requests whose ending reply has not been handled.
InTable ==
    \A id \in Ids : id \in messages <=> \E p \in Places \ {"settling"} : At(p, id)

\* A batch that is not the last is of a streamed request, and more is to come.
MoreToCome ==
    \A i \in 1..Len(toJs) :
        /\ toJs[i].hasMore => request[toJs[i].id].kind \in Streaming
        /\ ~Ending(toJs[i]) => Served(toJs[i].id) \/ Answered(toJs[i].id)

IInv == /\ TypeOK /\ Issued /\ ServesMore
        /\ OnePlaceEach /\ EachOnce /\ InTable /\ MoreToCome

\* A step that moves the token of request m to the place to, and no other.
Moves(m, to) ==
    \A id \in Ids, p \in Places : At(p, id)' <=> IF id = m THEN p = to ELSE At(p, id)

-----------------------------------------------------------------------------
(* What Moves gives.                                                       *)

LEMMA MovesKeepsOnePlace ==
    ASSUME OnePlaceEach, NEW m \in Ids, NEW to \in Places, Moves(m, to),
           outcome'[m] = "waiting",
           \A id \in Ids : id # m => outcome'[id] = outcome[id]
    PROVE  OnePlaceEach'
  BY DEF OnePlaceEach, Moves

LEMMA LeavingKeepsOnePlace ==
    ASSUME OnePlaceEach, NEW m \in Ids, Moves(m, "nowhere"), outcome'[m] # "waiting",
           \A id \in Ids : id # m => outcome'[id] = outcome[id]
    PROVE  OnePlaceEach'
  BY DEF OnePlaceEach, Moves, Places

LEMMA MovesKeepsInTable ==
    ASSUME InTable, NEW m \in Ids, NEW to \in Places, Moves(m, to),
           messages' = IF to = "settling" THEN messages \ {m} ELSE messages \cup {m}
    PROVE  InTable'
  BY DEF InTable, Moves

LEMMA LeavingKeepsInTable ==
    ASSUME InTable, NEW m \in Ids, m \notin messages, Moves(m, "nowhere"), messages' = messages
    PROVE  InTable'
  BY DEF InTable, Moves, Places

\* Each place by its name.
LEMMA PlaceNames ==
    ASSUME NEW id
    PROVE  /\ At("awaits module", id) <=> AwaitsModule(id)
           /\ At("sending", id) <=> Sending(id)
           /\ At("posted", id) <=> Posted(id)
           /\ At("served", id) <=> Served(id)
           /\ At("answered", id) <=> Answered(id)
           /\ At("settling", id) <=> Settling(id)
  BY DEF At

-----------------------------------------------------------------------------
(* Queues.                                                                 *)

\* Dropping the head of a queue shifts the others.
LEMMA TailShifts ==
    ASSUME NEW S, NEW q \in Seq(S), q # <<>>
    PROVE  /\ Head(q) \in S /\ Head(q) = q[1] /\ Len(q) >= 1
           /\ Tail(q) \in Seq(S) /\ Len(Tail(q)) = Len(q) - 1
           /\ \A i \in 1..Len(Tail(q)) : i + 1 \in 1..Len(q) /\ Tail(q)[i] = q[i + 1]
           /\ \A i \in 1..Len(q) : i # 1 => i - 1 \in 1..Len(Tail(q)) /\ q[i] = Tail(q)[i - 1]
  OBVIOUS

LEMMA AppendExtends ==
    ASSUME NEW S, NEW q \in Seq(S), NEW x \in S
    PROVE  /\ Append(q, x) \in Seq(S) /\ Len(Append(q, x)) = Len(q) + 1
           /\ \A i \in 1..Len(q) : Append(q, x)[i] = q[i]
           /\ Append(q, x)[Len(q) + 1] = x
           /\ Len(q) \in Nat
  OBVIOUS

\* Queues of ids: what is in them, and that each is in them once.
LEMMA TailOfIds ==
    ASSUME NEW q \in Seq(Ids), q # <<>>, Once(q)
    PROVE  /\ Once(Tail(q))
           /\ \A id : (\E i \in 1..Len(Tail(q)) : Tail(q)[i] = id)
                        <=> (id # Head(q) /\ \E i \in 1..Len(q) : q[i] = id)
  <1>. USE TailShifts
  <1>1. Once(Tail(q))
    <2>. SUFFICES ASSUME NEW i \in 1..Len(Tail(q)), NEW j \in 1..Len(Tail(q)),
                         Tail(q)[i] = Tail(q)[j]
                  PROVE  i = j
      BY DEF Once
    <2>1. i + 1 \in 1..Len(q) /\ j + 1 \in 1..Len(q) /\ q[i + 1] = q[j + 1]
      OBVIOUS
    <2>. QED  BY <2>1 DEF Once
  <1>2. ASSUME NEW id, NEW i \in 1..Len(Tail(q)), Tail(q)[i] = id
        PROVE  id # Head(q) /\ \E j \in 1..Len(q) : q[j] = id
    <2>1. i + 1 \in 1..Len(q) /\ q[i + 1] = id /\ 1 \in 1..Len(q) /\ Head(q) = q[1]
      BY <1>2
    <2>2. i + 1 # 1
      BY <1>2
    <2>. QED  BY <2>1, <2>2 DEF Once
  <1>3. ASSUME NEW id, id # Head(q), NEW i \in 1..Len(q), q[i] = id
        PROVE  \E j \in 1..Len(Tail(q)) : Tail(q)[j] = id
    <2>1. i # 1
      BY <1>3
    <2>. QED  BY <1>3, <2>1
  <1>. QED  BY <1>1, <1>2, <1>3

LEMMA AppendOfIds ==
    ASSUME NEW q \in Seq(Ids), NEW x \in Ids, Once(q), \A i \in 1..Len(q) : q[i] # x
    PROVE  /\ Once(Append(q, x))
           /\ \A id : (\E i \in 1..Len(Append(q, x)) : Append(q, x)[i] = id)
                        <=> (id = x \/ \E i \in 1..Len(q) : q[i] = id)
  <1>. USE AppendExtends
  <1>1. \A i \in 1..Len(Append(q, x)) : i \in 1..Len(q) \/ i = Len(q) + 1
    OBVIOUS
  <1>2. Len(q) + 1 \in 1..Len(Append(q, x)) /\ \A i \in 1..Len(q) : i \in 1..Len(Append(q, x))
    OBVIOUS
  <1>3. Once(Append(q, x))
    BY <1>1 DEF Once
  <1>. QED  BY <1>1, <1>2, <1>3

\* Queues of jobs, where each id has one job.
SendIn(q, id) == \E i \in 1..Len(q) : q[i].id = id /\ q[i].task = "send"
SettleIn(q, id) == \E i \in 1..Len(q) : q[i].id = id /\ q[i].task # "send"
JobsOnce(q) == \A i, j \in 1..Len(q) : q[i].id = q[j].id => i = j

LEMMA TailOfJobs ==
    ASSUME NEW q \in Seq(Jobs), q # <<>>, JobsOnce(q)
    PROVE  /\ JobsOnce(Tail(q))
           /\ \A i \in 1..Len(Tail(q)) : Tail(q)[i].id # Head(q).id
           /\ \A id : SendIn(Tail(q), id) <=> (id # Head(q).id /\ SendIn(q, id))
           /\ \A id : SettleIn(Tail(q), id) <=> (id # Head(q).id /\ SettleIn(q, id))
  <1>. USE TailShifts
  <1>1. JobsOnce(Tail(q))
    <2>. SUFFICES ASSUME NEW i \in 1..Len(Tail(q)), NEW j \in 1..Len(Tail(q)),
                         Tail(q)[i].id = Tail(q)[j].id
                  PROVE  i = j
      BY DEF JobsOnce
    <2>1. i + 1 \in 1..Len(q) /\ j + 1 \in 1..Len(q) /\ q[i + 1].id = q[j + 1].id
      OBVIOUS
    <2>. QED  BY <2>1 DEF JobsOnce
  <1>2. ASSUME NEW i \in 1..Len(Tail(q))
        PROVE  i + 1 \in 1..Len(q) /\ q[i + 1] = Tail(q)[i] /\ Tail(q)[i].id # Head(q).id
    <2>1. i + 1 \in 1..Len(q) /\ q[i + 1] = Tail(q)[i] /\ 1 \in 1..Len(q) /\ Head(q) = q[1]
          /\ i + 1 # 1
      OBVIOUS
    <2>. QED  BY <2>1 DEF JobsOnce
  <1>3. ASSUME NEW i \in 1..Len(q), q[i].id # Head(q).id
        PROVE  i - 1 \in 1..Len(Tail(q)) /\ Tail(q)[i - 1] = q[i]
    <2>1. i # 1
      BY <1>3
    <2>. QED  BY <2>1
  <1>. HIDE TailShifts
  <1>4. \A id : SendIn(Tail(q), id) <=> (id # Head(q).id /\ SendIn(q, id))
    BY <1>2, <1>3 DEF SendIn
  <1>5. \A id : SettleIn(Tail(q), id) <=> (id # Head(q).id /\ SettleIn(q, id))
    BY SMTT(30), <1>2, <1>3 DEF SettleIn
  <1>. QED  BY <1>1, <1>2, <1>4, <1>5

LEMMA AppendOfJobs ==
    ASSUME NEW q \in Seq(Jobs), NEW job \in Jobs, JobsOnce(q),
           \A i \in 1..Len(q) : q[i].id # job.id
    PROVE  /\ JobsOnce(Append(q, job))
           /\ \A id : SendIn(Append(q, job), id)
                        <=> (SendIn(q, id) \/ (id = job.id /\ job.task = "send"))
           /\ \A id : SettleIn(Append(q, job), id)
                        <=> (SettleIn(q, id) \/ (id = job.id /\ job.task # "send"))
  <1>. USE AppendExtends
  <1>1. \A i \in 1..Len(Append(q, job)) : i \in 1..Len(q) \/ i = Len(q) + 1
    OBVIOUS
  <1>2. Len(q) + 1 \in 1..Len(Append(q, job))
        /\ \A i \in 1..Len(q) : i \in 1..Len(Append(q, job))
    OBVIOUS
  <1>3. JobsOnce(Append(q, job))
    BY <1>1 DEF JobsOnce
  <1>4. \A id : SendIn(Append(q, job), id)
                  <=> (SendIn(q, id) \/ (id = job.id /\ job.task = "send"))
    BY <1>1, <1>2 DEF SendIn
  <1>5. \A id : SettleIn(Append(q, job), id)
                  <=> (SettleIn(q, id) \/ (id = job.id /\ job.task # "send"))
    BY <1>1, <1>2 DEF SettleIn
  <1>. QED  BY <1>3, <1>4, <1>5

\* Queues of replies, where nothing follows the ending reply of an id.
EndIn(q, id) == \E i \in 1..Len(q) : q[i].id = id /\ Ending(q[i])
EndsLast(q) == \A i, j \in 1..Len(q) : i < j /\ Ending(q[i]) => q[i].id # q[j].id

LEMMA TailOfReplies ==
    ASSUME NEW q \in Seq(Replies), q # <<>>, EndsLast(q)
    PROVE  /\ EndsLast(Tail(q))
           /\ Ending(Head(q)) => \A i \in 1..Len(Tail(q)) : Tail(q)[i].id # Head(q).id
           /\ \A id : EndIn(Tail(q), id)
                        <=> (~(id = Head(q).id /\ Ending(Head(q))) /\ EndIn(q, id))
  <1>. USE TailShifts
  <1>1. EndsLast(Tail(q))
    <2>. SUFFICES ASSUME NEW i \in 1..Len(Tail(q)), NEW j \in 1..Len(Tail(q)),
                         i < j, Ending(Tail(q)[i])
                  PROVE  Tail(q)[i].id # Tail(q)[j].id
      BY DEF EndsLast
    <2>1. i + 1 \in 1..Len(q) /\ j + 1 \in 1..Len(q) /\ i + 1 < j + 1
          /\ q[i + 1] = Tail(q)[i] /\ q[j + 1] = Tail(q)[j]
      OBVIOUS
    <2>. QED  BY <2>1 DEF EndsLast
  <1>2. ASSUME NEW i \in 1..Len(Tail(q))
        PROVE  i + 1 \in 1..Len(q) /\ q[i + 1] = Tail(q)[i] /\ 1 \in 1..Len(q)
               /\ Head(q) = q[1] /\ 1 < i + 1
    OBVIOUS
  <1>3. ASSUME NEW i \in 1..Len(q)
        PROVE  q[i] = Head(q) \/ (i - 1 \in 1..Len(Tail(q)) /\ Tail(q)[i - 1] = q[i])
    OBVIOUS
  <1>. HIDE TailShifts
  <1>4. ASSUME Ending(Head(q)), NEW i \in 1..Len(Tail(q))
        PROVE  Tail(q)[i].id # Head(q).id
    BY <1>2, <1>4 DEF EndsLast
  <1>5. ASSUME NEW id, EndIn(Tail(q), id)
        PROVE  ~(id = Head(q).id /\ Ending(Head(q))) /\ EndIn(q, id)
    BY <1>2, <1>4, <1>5 DEF EndIn
  <1>6. ASSUME NEW id, EndIn(q, id), ~(id = Head(q).id /\ Ending(Head(q)))
        PROVE  EndIn(Tail(q), id)
    BY <1>3, <1>6 DEF EndIn
  <1>. QED  BY <1>1, <1>4, <1>5, <1>6

LEMMA AppendOfReplies ==
    ASSUME NEW q \in Seq(Replies), NEW m \in Replies, EndsLast(q), ~EndIn(q, m.id)
    PROVE  /\ EndsLast(Append(q, m))
           /\ \A id : EndIn(Append(q, m), id) <=> (EndIn(q, id) \/ (id = m.id /\ Ending(m)))
  <1>. USE AppendExtends
  <1>1. \A i \in 1..Len(Append(q, m)) :
           (i \in 1..Len(q) /\ Append(q, m)[i] = q[i]) \/ (i = Len(q) + 1 /\ Append(q, m)[i] = m)
    OBVIOUS
  <1>2. Len(q) + 1 \in 1..Len(Append(q, m)) /\ Append(q, m)[Len(q) + 1] = m
        /\ \A i \in 1..Len(q) : i \in 1..Len(Append(q, m)) /\ Append(q, m)[i] = q[i]
    OBVIOUS
  <1>3. Len(q) \in Nat
    OBVIOUS
  <1>. HIDE AppendExtends
  <1>4. EndsLast(Append(q, m))
    BY <1>1, <1>3 DEF EndsLast, EndIn
  <1>5. \A id : EndIn(Append(q, m), id) <=> (EndIn(q, id) \/ (id = m.id /\ Ending(m)))
    BY <1>1, <1>2 DEF EndIn
  <1>. QED  BY <1>4, <1>5

-----------------------------------------------------------------------------
(* Consequences of the invariant.                                          *)

LEMMA Assumptions ==
    /\ MaxRequests \in Nat /\ AttemptCount \in Nat \ {0} /\ MaxBatches \in Nat \ {0}
    /\ \A id \in Ids : id \in Int /\ id # NoId
  BY MaxRequestsAssumption, AttemptCountAssumption, MaxBatchesAssumption DEF Ids, NoId

LEMMA PlacedWaits ==
    ASSUME IInv, NEW id \in Ids, NEW p \in Places, At(p, id)
    PROVE  /\ outcome[id] = "waiting" /\ id < nextId /\ request[id] \in Request
           /\ \A q \in Places : At(q, id) <=> q = p
           /\ id \in messages <=> p # "settling"
  BY DEF IInv, OnePlaceEach, Issued, InTable

LEMMA ReplyAwaited ==
    ASSUME IInv, NEW i \in 1..Len(toJs)
    PROVE  /\ toJs[i] \in Replies /\ toJs[i].id \in Ids /\ toJs[i].id \in messages
           /\ Ending(toJs[i]) => At("answered", toJs[i].id)
           /\ At("answered", toJs[i].id) \/ At("served", toJs[i].id)
  <1>1. toJs[i] \in Replies
    BY DEF IInv, TypeOK
  <1>1a. toJs[i].id \in Ids
    BY <1>1 DEF Replies
  <1>2. Ending(toJs[i]) => At("answered", toJs[i].id)
    BY PlaceNames DEF Answered
  <1>3. At("answered", toJs[i].id) \/ At("served", toJs[i].id)
    BY <1>2, PlaceNames DEF IInv, MoreToCome
  <1>. QED  BY <1>1, <1>1a, <1>2, <1>3, PlacedWaits DEF Places

LEMMA Frame ==
    ASSUME NEW id
    PROVE  /\ UNCHANGED initWaiters => (AwaitsModule(id)' <=> AwaitsModule(id))
           /\ UNCHANGED microtasks => /\ Sending(id)' <=> Sending(id)
                                      /\ Settling(id)' <=> Settling(id)
           /\ UNCHANGED toNacl => (Posted(id)' <=> Posted(id))
           /\ UNCHANGED nacl => (Served(id)' <=> Served(id))
           /\ UNCHANGED toJs => (Answered(id)' <=> Answered(id))
  BY DEF AwaitsModule, Sending, Settling, Posted, Served, Answered

\* The place of each request after a step that moves m, queue by queue.
PlacesAfter(m, to) ==
    \A id \in Ids :
        /\ AwaitsModule(id)' <=> IF id = m THEN to = "awaits module" ELSE AwaitsModule(id)
        /\ Sending(id)' <=> IF id = m THEN to = "sending" ELSE Sending(id)
        /\ Posted(id)' <=> IF id = m THEN to = "posted" ELSE Posted(id)
        /\ Served(id)' <=> IF id = m THEN to = "served" ELSE Served(id)
        /\ Answered(id)' <=> IF id = m THEN to = "answered" ELSE Answered(id)
        /\ Settling(id)' <=> IF id = m THEN to = "settling" ELSE Settling(id)

LEMMA MovesByPlace ==
    ASSUME NEW m, NEW to, PlacesAfter(m, to)
    PROVE  Moves(m, to)
  <1>. USE DEF PlacesAfter
  <1>. SUFFICES ASSUME NEW id \in Ids, NEW p \in Places
                PROVE  At(p, id)' <=> IF id = m THEN p = to ELSE At(p, id)
    BY DEF Moves
  <1>1. CASE p = "awaits module"
    BY <1>1 DEF At
  <1>2. CASE p = "sending"
    BY <1>2 DEF At
  <1>3. CASE p = "posted"
    BY <1>3 DEF At
  <1>4. CASE p = "served"
    BY <1>4 DEF At
  <1>5. CASE p = "answered"
    BY <1>5 DEF At
  <1>6. CASE p = "settling"
    BY <1>6 DEF At
  <1>. QED  BY <1>1, <1>2, <1>3, <1>4, <1>5, <1>6 DEF Places

-----------------------------------------------------------------------------
(* Each action preserves the invariant.                                    *)

LEMMA InitIInv ==
    ASSUME Init PROVE IInv
  <1>. USE Assumptions
  <1>1. TypeOK
    <2>1. nextId \in 0..MaxRequests /\ parked \subseteq Ids /\ messages \subseteq Ids
      BY DEF Init
    <2>1a. isInitialized \in BOOLEAN
      BY DEF Init
    <2>2. /\ initWaiters \in Seq(Ids) /\ microtasks \in Seq(Jobs) /\ toNacl \in Seq(Ids)
          /\ toJs \in Seq(Replies)
      BY DEF Init
    <2>3. nacl \in [id: Ids \cup {NoId}, sent: 0..MaxBatches]
      BY DEF Init, Idle
    <2>4. /\ request \in [Ids -> Request \cup {Unissued}]
          /\ attempts \in [Ids -> Nat]
          /\ delivered \in [Ids -> Seq(1..MaxBatches)]
          /\ outcome \in [Ids -> {"unissued", "parked", "waiting", "resolved"} \cup Errors]
      BY DEF Init
    <2>. QED  BY <2>1, <2>1a, <2>2, <2>3, <2>4 DEF TypeOK
  <1>2. Issued /\ ServesMore /\ EachOnce /\ MoreToCome
    BY DEF Init, Issued, ServesMore, EachOnce, Once, MoreToCome, Idle, Ids
  <1>3. \A id \in Ids, p \in Places : ~At(p, id)
    BY DEF Init, At, AwaitsModule, Sending, Posted, Served, Answered, Settling, Idle
  <1>4. OnePlaceEach /\ InTable
    BY <1>3 DEF OnePlaceEach, InTable, Init
  <1>. QED  BY <1>1, <1>2, <1>4 DEF IInv

LEMMA AskIInv ==
    ASSUME IInv, NEW what \in Request, Ask(what) PROVE IInv'
  <1>. USE Assumptions
  <1>1. nextId \in Ids /\ outcome[nextId] = "unissued"
    BY DEF Ask, IInv, TypeOK, Issued, Ids
  <1>2. TypeOK'
    BY <1>1 DEF IInv, TypeOK, Ask, routerVars
  <1>3. Issued'
    BY <1>1 DEF IInv, TypeOK, Issued, Ask
  <1>4. \A id \in Ids, p \in Places : At(p, id)' <=> At(p, id)
    BY Frame DEF Ask, routerVars, At
  <1>5. OnePlaceEach' /\ InTable'
    BY <1>1, <1>4 DEF IInv, TypeOK, OnePlaceEach, InTable, Ask, routerVars
  <1>6. EachOnce'
    BY DEF IInv, EachOnce, Once, Ask, routerVars
  <1>7. nacl.id \in Ids => nacl.id # nextId
    BY <1>1, PlaceNames, PlacedWaits DEF Served, Places
  <1>8. ServesMore'
    BY <1>1, <1>7 DEF IInv, TypeOK, ServesMore, Ask
  <1>9. MoreToCome'
    <2>1. \A i \in 1..Len(toJs) : toJs[i].id \in Ids /\ toJs[i].id # nextId
      BY <1>1, ReplyAwaited, PlacedWaits DEF Places
    <2>. QED  BY <2>1, Frame DEF IInv, TypeOK, MoreToCome, Ask
  <1>. QED  BY <1>2, <1>3, <1>5, <1>6, <1>8, <1>9 DEF IInv

LEMMA RefuseIInv ==
    ASSUME IInv, NEW id \in Ids, Refuse(id) PROVE IInv'
  <1>. USE Assumptions
  <1>1. outcome[id] = "parked"
    BY DEF Refuse, IInv, Issued
  <1>2. TypeOK'
    BY DEF IInv, TypeOK, Refuse, routerVars, Errors
  <1>3. Issued'
    BY <1>1 DEF IInv, TypeOK, Issued, Refuse
  <1>4. \A i \in Ids, p \in Places : At(p, i)' <=> At(p, i)
    BY Frame DEF Refuse, routerVars, At
  <1>5. OnePlaceEach' /\ InTable'
    BY <1>1, <1>4 DEF IInv, TypeOK, OnePlaceEach, InTable, Refuse, routerVars
  <1>6. EachOnce' /\ ServesMore'
    BY DEF IInv, EachOnce, Once, ServesMore, Refuse, routerVars
  <1>7. MoreToCome'
    BY Frame DEF IInv, MoreToCome, Refuse
  <1>. QED  BY <1>2, <1>3, <1>5, <1>6, <1>7 DEF IInv

\* Sending a message whose id is not in the table: its request's token appears in
\* microtasks, or among those that wait for the module, and its id in the table.
LEMMA SendMoves ==
    ASSUME IInv, NEW m \in Ids, m \notin messages, NEW rest \in Seq(Jobs), JobsOnce(rest),
           \A i \in 1..Len(rest) : rest[i].id # m,
           \A id \in Ids : id # m => /\ SendIn(rest, id) <=> Sending(id)
                                     /\ SettleIn(rest, id) <=> Settling(id),
           SendMessage(m, rest), UNCHANGED <<isInitialized, toNacl, nacl, toJs>>
    PROVE  /\ \E to \in {"sending", "awaits module"} : Moves(m, to)
           /\ messages' = messages \cup {m}
           /\ EachOnce'
           /\ initWaiters' \in Seq(Ids) /\ microtasks' \in Seq(Jobs)
  <1>1. \A p \in Places \ {"settling"} : ~At(p, m)
    BY DEF IInv, InTable
  <1>2. ~AwaitsModule(m) /\ ~Sending(m) /\ ~Posted(m) /\ ~Served(m) /\ ~Answered(m)
    BY <1>1, PlaceNames DEF Places
  <1>3. Once(initWaiters) /\ Once(toNacl) /\ JobsOnce(microtasks) /\ EndsLast(toJs)
    BY DEF IInv, EachOnce, JobsOnce, EndsLast
  <1>4. ~SendIn(rest, m) /\ ~SettleIn(rest, m)
    BY DEF SendIn, SettleIn
  <1>5. messages' = messages \cup {m}
    BY DEF SendMessage
  <1>6. \A id \in Ids : /\ Posted(id)' <=> Posted(id)
                        /\ Served(id)' <=> Served(id)
                        /\ Answered(id)' <=> Answered(id)
    BY Frame
  <1>6a. \A id : /\ Sending(id)' <=> SendIn(microtasks', id)
                 /\ Settling(id)' <=> SettleIn(microtasks', id)
    BY DEF Sending, Settling, SendIn, SettleIn
  <1>7. Once(toNacl)' /\ EndsLast(toJs)'
    BY <1>3 DEF Once, EndsLast
  <1>8. CASE isInitialized
    <2>. DEFINE job == Job("send", m, NoError)
    <2>1. microtasks' = Append(rest, job) /\ UNCHANGED initWaiters
      BY <1>8 DEF SendMessage
    <2>2. job \in Jobs /\ job.id = m /\ job.task = "send"
      BY DEF Job, Jobs
    <2>3. JobsOnce(microtasks') /\ microtasks' \in Seq(Jobs)
      BY <2>1, <2>2, AppendOfJobs
    <2>4. \A id : /\ SendIn(microtasks', id) <=> (SendIn(rest, id) \/ id = m)
                  /\ SettleIn(microtasks', id) <=> SettleIn(rest, id)
      BY <2>1, <2>2, AppendOfJobs
    <2>5. \A id \in Ids : /\ Sending(id)' <=> IF id = m THEN TRUE ELSE Sending(id)
                          /\ Settling(id)' <=> IF id = m THEN FALSE ELSE Settling(id)
      BY <1>4, <1>6a, <2>4
    <2>5a. \A id \in Ids : AwaitsModule(id)' <=> AwaitsModule(id)
      BY <2>1, Frame
    <2>6. Moves(m, "sending")
      <3>1. PlacesAfter(m, "sending")
        BY <1>2, <1>6, <2>5, <2>5a DEF PlacesAfter
      <3>. QED  BY <3>1, MovesByPlace
    <2>7. EachOnce' /\ initWaiters' \in Seq(Ids)
      BY <1>3, <1>7, <2>1, <2>3 DEF EachOnce, Once, JobsOnce, EndsLast, IInv, TypeOK
    <2>. QED  BY <1>5, <2>3, <2>6, <2>7
  <1>9. CASE ~isInitialized
    <2>1. initWaiters' = Append(initWaiters, m) /\ microtasks' = rest
      BY <1>9 DEF SendMessage
    <2>2. initWaiters \in Seq(Ids) /\ \A i \in 1..Len(initWaiters) : initWaiters[i] # m
      BY <1>2 DEF IInv, TypeOK, AwaitsModule
    <2>3. /\ Once(initWaiters') /\ initWaiters' \in Seq(Ids)
          /\ \A id \in Ids : AwaitsModule(id)' <=> (id = m \/ AwaitsModule(id))
      BY <1>3, <2>1, <2>2, AppendOfIds DEF AwaitsModule
    <2>4. \A id \in Ids : /\ Sending(id)' <=> IF id = m THEN FALSE ELSE Sending(id)
                          /\ Settling(id)' <=> IF id = m THEN FALSE ELSE Settling(id)
      BY <1>4, <1>6a, <2>1
    <2>5. Moves(m, "awaits module")
      <3>1. PlacesAfter(m, "awaits module")
        BY <1>2, <1>6, <2>3, <2>4 DEF PlacesAfter
      <3>. QED  BY <3>1, MovesByPlace
    <2>6. EachOnce'
      BY <1>7, <2>1, <2>3 DEF EachOnce, Once, JobsOnce, EndsLast
    <2>. QED  BY <1>5, <2>1, <2>3, <2>5, <2>6
  <1>. QED  BY <1>8, <1>9

LEMMA RouteIInv ==
    ASSUME IInv, NEW id \in Ids, Route(id) PROVE IInv'
  <1>. USE Assumptions
  <1>1. outcome[id] = "parked" /\ microtasks = <<>>
    BY DEF Route, IInv, Issued
  <1>2. \A p \in Places : ~At(p, id)
    BY <1>1 DEF IInv, OnePlaceEach
  <1>3. id \notin messages
    BY <1>2 DEF IInv, InTable
  <1>4. /\ \E to \in {"sending", "awaits module"} : Moves(id, to)
        /\ messages' = messages \cup {id}
        /\ EachOnce'
        /\ initWaiters' \in Seq(Ids) /\ microtasks' \in Seq(Jobs)
    <2>1. /\ microtasks \in Seq(Jobs) /\ JobsOnce(microtasks)
          /\ \A i \in 1..Len(microtasks) : microtasks[i].id # id
      BY <1>1 DEF JobsOnce
    <2>2. \A i : /\ SendIn(microtasks, i) <=> Sending(i)
                 /\ SettleIn(microtasks, i) <=> Settling(i)
      BY DEF SendIn, SettleIn, Sending, Settling
    <2>. QED  BY <1>3, <2>1, <2>2, SendMoves DEF Route
  <1>5. outcome'[id] = "waiting" /\ \A i \in Ids : i # id => outcome'[i] = outcome[i]
    BY DEF Route, IInv, TypeOK
  <1>6. PICK to \in {"sending", "awaits module"} : Moves(id, to)
    BY <1>4
  <1>7. OnePlaceEach' /\ InTable'
    BY <1>4, <1>5, <1>6, MovesKeepsOnePlace, MovesKeepsInTable DEF IInv, Places
  <1>8. TypeOK'
    BY <1>4 DEF IInv, TypeOK, Route
  <1>9. Issued' /\ ServesMore'
    BY <1>1 DEF IInv, TypeOK, Issued, ServesMore, Route
  <1>10. MoreToCome'
    BY Frame DEF IInv, MoreToCome, Route
  <1>. QED  BY <1>4, <1>7, <1>8, <1>9, <1>10 DEF IInv

LEMMA InitializeIInv ==
    ASSUME IInv, Initialize PROVE IInv'
  <1>. USE Assumptions
  <1>. DEFINE q == initWaiters
  <1>1. /\ q \in Seq(Ids) /\ Len(q) \in Nat /\ Once(q) /\ initWaiters' = <<>>
        /\ \A i \in 1..Len(q) : q[i] \in Ids
        /\ microtasks = <<>> /\ microtasks' = [i \in 1..Len(q) |-> Job("send", q[i], NoError)]
    BY DEF IInv, TypeOK, EachOnce, Initialize
  <1>2. /\ microtasks' \in Seq(Jobs) /\ Len(microtasks') = Len(q)
        /\ \A i \in 1..Len(q) : microtasks'[i].id = q[i] /\ microtasks'[i].task = "send"
    <2>1. \A i \in 1..Len(q) : Job("send", q[i], NoError) \in Jobs
      BY <1>1 DEF Job, Jobs
    <2>. QED  BY <1>1, <2>1 DEF Job
  <1>3. TypeOK'
    BY <1>1, <1>2 DEF IInv, TypeOK, Initialize, jsVars, appVars
  <1>4. Issued' /\ ServesMore'
    BY DEF IInv, Issued, ServesMore, Initialize, jsVars, appVars
  <1>5. EachOnce'
    BY <1>1, <1>2 DEF IInv, EachOnce, Once, Initialize
  <1>6. \A id \in Ids : /\ ~AwaitsModule(id)'
                        /\ Sending(id)' <=> AwaitsModule(id)
                        /\ ~Sending(id) /\ ~Settling(id) /\ ~Settling(id)'
    BY <1>1, <1>2 DEF AwaitsModule, Sending, Settling
  <1>7. \A id \in Ids : /\ Posted(id)' <=> Posted(id)
                        /\ Served(id)' <=> Served(id)
                        /\ Answered(id)' <=> Answered(id)
    BY Frame DEF Initialize
  <1>8. \A id \in Ids, p \in Places :
          At(p, id)' <=> IF p = "sending" THEN At("awaits module", id)
                         ELSE p # "awaits module" /\ At(p, id)
    <2>. TAKE id \in Ids, p \in Places
    <2>1. CASE p = "awaits module"
      BY <1>6, <2>1 DEF At
    <2>2. CASE p = "sending"
      BY <1>6, <2>2 DEF At
    <2>3. CASE p = "posted"
      BY <1>7, <2>3 DEF At
    <2>4. CASE p = "served"
      BY <1>7, <2>4 DEF At
    <2>5. CASE p = "answered"
      BY <1>7, <2>5 DEF At
    <2>6. CASE p = "settling"
      BY <1>6, <2>6 DEF At
    <2>. QED  BY <2>1, <2>2, <2>3, <2>4, <2>5, <2>6 DEF Places
  <1>9. \A id \in Ids : ~At("sending", id)
    BY <1>6, PlaceNames
  <1>10. OnePlaceEach' /\ InTable'
    BY <1>8, <1>9 DEF IInv, OnePlaceEach, InTable, Places, Initialize, appVars
  <1>11. MoreToCome'
    BY Frame DEF IInv, MoreToCome, Initialize, jsVars
  <1>. QED  BY <1>3, <1>4, <1>5, <1>10, <1>11 DEF IInv

\* The promise callback at the head of the queue.
LEMMA FirstJob ==
    ASSUME IInv, microtasks # <<>>
    PROVE  /\ Head(microtasks) \in Jobs /\ Head(microtasks).id \in Ids
           /\ Tail(microtasks) \in Seq(Jobs) /\ JobsOnce(Tail(microtasks))
           /\ \A i \in 1..Len(Tail(microtasks)) : Tail(microtasks)[i].id # Head(microtasks).id
           /\ \A id : /\ SendIn(Tail(microtasks), id)
                           <=> (id # Head(microtasks).id /\ Sending(id))
                      /\ SettleIn(Tail(microtasks), id)
                           <=> (id # Head(microtasks).id /\ Settling(id))
           /\ IF Head(microtasks).task = "send" THEN At("sending", Head(microtasks).id)
                                                ELSE At("settling", Head(microtasks).id)
  <1>1. microtasks \in Seq(Jobs) /\ JobsOnce(microtasks)
    BY DEF IInv, TypeOK, EachOnce, JobsOnce
  <1>2. Head(microtasks) \in Jobs /\ Head(microtasks) = microtasks[1] /\ Len(microtasks) >= 1
        /\ Len(microtasks) \in Nat
    BY <1>1, TailShifts
  <1>3. Head(microtasks).id \in Ids
    BY <1>2 DEF Jobs
  <1>4. \A id : (SendIn(microtasks, id) <=> Sending(id))
                /\ (SettleIn(microtasks, id) <=> Settling(id))
    BY DEF SendIn, SettleIn, Sending, Settling
  <1>5. IF Head(microtasks).task = "send" THEN Sending(Head(microtasks).id)
                                          ELSE Settling(Head(microtasks).id)
    BY <1>2 DEF Sending, Settling
  <1>. QED  BY <1>1, <1>2, <1>3, <1>4, <1>5, TailOfJobs, TailShifts, PlaceNames

LEMMA PostMessageIInv ==
    ASSUME IInv, PostMessage PROVE IInv'
  <1>. USE Assumptions
  <1>. DEFINE m == Head(microtasks).id
  <1>1. /\ m \in Ids /\ At("sending", m) /\ microtasks' \in Seq(Jobs) /\ JobsOnce(microtasks')
        /\ \A id : /\ SendIn(microtasks', id) <=> (id # m /\ Sending(id))
                   /\ SettleIn(microtasks', id) <=> (id # m /\ Settling(id))
    BY FirstJob DEF PostMessage
  <1>2. outcome[m] = "waiting" /\ m \in messages
        /\ \A q \in Places : At(q, m) <=> q = "sending"
    BY <1>1, PlacedWaits DEF Places
  <1>3. ~AwaitsModule(m) /\ ~Posted(m) /\ ~Served(m) /\ ~Answered(m) /\ ~Settling(m)
    BY <1>2, PlaceNames DEF Places
  <1>4. /\ Once(toNacl') /\ toNacl' \in Seq(Ids)
        /\ \A id : Posted(id)' <=> (id = m \/ Posted(id))
    <2>1. toNacl \in Seq(Ids) /\ Once(toNacl) /\ \A i \in 1..Len(toNacl) : toNacl[i] # m
      BY <1>3 DEF IInv, TypeOK, EachOnce, Posted
    <2>2. toNacl' = Append(toNacl, m)
      BY DEF PostMessage
    <2>. QED  BY <1>1, <2>1, <2>2, AppendOfIds DEF Posted
  <1>5. \A id : Sending(id)' <=> SendIn(microtasks', id)
    BY DEF Sending, SendIn
  <1>6. \A id : Settling(id)' <=> SettleIn(microtasks', id)
    BY DEF Settling, SettleIn
  <1>7. \A id : /\ AwaitsModule(id)' <=> AwaitsModule(id)
                /\ Served(id)' <=> Served(id)
                /\ Answered(id)' <=> Answered(id)
    BY Frame DEF PostMessage, routerVars
  <1>8. PlacesAfter(m, "posted")
    BY <1>1, <1>3, <1>4, <1>5, <1>6, <1>7 DEF PlacesAfter
  <1>9. Moves(m, "posted")
    BY <1>8, MovesByPlace
  <1>10. OnePlaceEach'
    BY <1>1, <1>2, <1>9, MovesKeepsOnePlace DEF IInv, Places, PostMessage, appVars
  <1>11. InTable'
    <2>1. messages' = messages \cup {m}
      BY <1>2 DEF PostMessage, routerVars
    <2>. QED  BY <1>1, <1>9, <2>1, MovesKeepsInTable DEF IInv, Places
  <1>12. TypeOK'
    BY <1>1, <1>4 DEF IInv, TypeOK, PostMessage, jsVars, routerVars, appVars
  <1>13. EachOnce'
    BY <1>1, <1>4 DEF IInv, EachOnce, JobsOnce, Once, PostMessage, routerVars
  <1>14. Issued' /\ ServesMore'
    BY DEF IInv, Issued, ServesMore, PostMessage, jsVars, appVars
  <1>15. MoreToCome'
    BY Frame DEF IInv, MoreToCome, PostMessage, jsVars
  <1>. QED  BY <1>10, <1>11, <1>12, <1>13, <1>14, <1>15 DEF IInv

LEMMA ResolveIInv ==
    ASSUME IInv, Resolve PROVE IInv'
  <1>. USE Assumptions
  <1>. DEFINE m == Head(microtasks).id
  <1>1. /\ m \in Ids /\ At("settling", m) /\ microtasks' \in Seq(Jobs) /\ JobsOnce(microtasks')
        /\ \A id : /\ SendIn(microtasks', id) <=> (id # m /\ Sending(id))
                   /\ SettleIn(microtasks', id) <=> (id # m /\ Settling(id))
    BY FirstJob DEF Resolve
  <1>2. outcome[m] = "waiting" /\ m \notin messages
        /\ \A q \in Places : At(q, m) <=> q = "settling"
    BY <1>1, PlacedWaits DEF Places
  <1>3. ~AwaitsModule(m) /\ ~Posted(m) /\ ~Served(m) /\ ~Answered(m)
    BY <1>2, PlaceNames DEF Places
  <1>4. \A id : Sending(id)' <=> SendIn(microtasks', id)
    BY DEF Sending, SendIn
  <1>5. \A id : Settling(id)' <=> SettleIn(microtasks', id)
    BY DEF Settling, SettleIn
  <1>6. \A id : /\ AwaitsModule(id)' <=> AwaitsModule(id)
                /\ Posted(id)' <=> Posted(id)
                /\ Served(id)' <=> Served(id)
                /\ Answered(id)' <=> Answered(id)
    BY Frame DEF Resolve, routerVars
  <1>7. PlacesAfter(m, "nowhere")
    BY <1>1, <1>3, <1>4, <1>5, <1>6 DEF PlacesAfter
  <1>8. Moves(m, "nowhere")
    BY <1>7, MovesByPlace
  <1>9. outcome'[m] = "resolved" /\ \A id \in Ids : id # m => outcome'[id] = outcome[id]
    BY <1>1 DEF IInv, TypeOK, Resolve
  <1>10. OnePlaceEach' /\ InTable'
    BY <1>1, <1>2, <1>8, <1>9, LeavingKeepsOnePlace, LeavingKeepsInTable
    DEF IInv, Resolve, routerVars
  <1>11. TypeOK'
    BY <1>1 DEF IInv, TypeOK, Resolve, jsVars, routerVars
  <1>12. EachOnce'
    BY <1>1 DEF IInv, EachOnce, JobsOnce, Once, Resolve, routerVars
  <1>13. Issued' /\ ServesMore'
    BY <1>1, <1>2 DEF IInv, TypeOK, Issued, ServesMore, Resolve, jsVars
  <1>14. MoreToCome'
    BY Frame DEF IInv, MoreToCome, Resolve, jsVars
  <1>. QED  BY <1>10, <1>11, <1>12, <1>13, <1>14 DEF IInv

\* What retryFn makes of an error: another attempt, or an error of the Files app's.
LEMMA VerdictTyped ==
    ASSUME NEW n \in Nat, NEW err \in NaclErrors \cup {"NO_PROCESS_FN"}
    PROVE  RetryVerdict(n, err) \in Errors \cup {"SEND_AGAIN"}
  BY DEF RetryVerdict, NaclErrors, Errors

LEMMA RetryFnIInv ==
    ASSUME IInv, RetryFn PROVE IInv'
  <1>. USE Assumptions
  <1>. DEFINE m == Head(microtasks).id
              rest == Tail(microtasks)
              verdict == RetryVerdict(attempts[m] + 1, Head(microtasks).err)
  <1>1. /\ m \in Ids /\ At("settling", m) /\ rest \in Seq(Jobs) /\ JobsOnce(rest)
        /\ \A i \in 1..Len(rest) : rest[i].id # m
        /\ \A id : /\ SendIn(rest, id) <=> (id # m /\ Sending(id))
                   /\ SettleIn(rest, id) <=> (id # m /\ Settling(id))
        /\ Head(microtasks) \in Jobs
    BY FirstJob DEF RetryFn
  <1>2. outcome[m] = "waiting" /\ m \notin messages /\ m < nextId
        /\ \A q \in Places : At(q, m) <=> q = "settling"
    BY <1>1, PlacedWaits DEF Places
  <1>3. ~AwaitsModule(m) /\ ~Posted(m) /\ ~Served(m) /\ ~Answered(m)
    BY <1>2, PlaceNames DEF Places
  <1>4. verdict \in Errors \cup {"SEND_AGAIN"}
    <2>1. Head(microtasks).err \in NaclErrors \cup {"NO_PROCESS_FN"}
      BY <1>1 DEF RetryFn, Jobs
    <2>2. attempts[m] + 1 \in Nat
      BY <1>1 DEF IInv, TypeOK
    <2>. QED  BY <2>1, <2>2, VerdictTyped
  <1>5. attempts' \in [Ids -> Nat]
    <2>1. attempts' = [attempts EXCEPT ![m] = attempts[m] + 1]
      BY DEF RetryFn
    <2>2. attempts \in [Ids -> Nat] /\ attempts[m] + 1 \in Nat
      BY <1>1 DEF IInv, TypeOK
    <2>. QED  BY <2>1, <2>2
  <1>6. ServesMore'
    BY DEF IInv, ServesMore, RetryFn, jsVars
  <1>7. MoreToCome'
    BY Frame DEF IInv, MoreToCome, RetryFn, jsVars
  <1>8. CASE verdict = "SEND_AGAIN"
    <2>1. SendMessage(m, rest) /\ UNCHANGED outcome
      BY <1>8 DEF RetryFn
    <2>2. /\ \E to \in {"sending", "awaits module"} : Moves(m, to)
          /\ messages' = messages \cup {m}
          /\ EachOnce'
          /\ initWaiters' \in Seq(Ids) /\ microtasks' \in Seq(Jobs)
      <3>1. UNCHANGED <<isInitialized, toNacl, nacl, toJs>>
        BY DEF RetryFn
      <3>. QED  BY <1>1, <1>2, <2>1, <3>1, SendMoves
    <2>3. PICK to \in {"sending", "awaits module"} : Moves(m, to)
      BY <2>2
    <2>4. OnePlaceEach' /\ InTable'
      BY <1>1, <1>2, <2>1, <2>2, <2>3, MovesKeepsOnePlace, MovesKeepsInTable DEF IInv, Places
    <2>5. TypeOK'
      BY <1>1, <1>5, <2>1, <2>2 DEF IInv, TypeOK, RetryFn, jsVars
    <2>6. Issued'
      BY <2>1 DEF IInv, Issued, RetryFn, jsVars
    <2>. QED  BY <1>6, <1>7, <2>2, <2>4, <2>5, <2>6 DEF IInv
  <1>9. CASE verdict # "SEND_AGAIN"
    <2>1. /\ outcome' = [outcome EXCEPT ![m] = verdict] /\ microtasks' = rest
          /\ UNCHANGED <<messages, initWaiters>>
      BY <1>9 DEF RetryFn
    <2>2. outcome'[m] = verdict /\ \A id \in Ids : id # m => outcome'[id] = outcome[id]
      BY <1>1, <2>1 DEF IInv, TypeOK
    <2>3. verdict \in Errors /\ verdict \notin {"waiting", "unissued", "parked"}
      BY <1>4, <1>9 DEF Errors
    <2>4. \A id : Sending(id)' <=> SendIn(microtasks', id)
      BY DEF Sending, SendIn
    <2>5. \A id : Settling(id)' <=> SettleIn(microtasks', id)
      BY DEF Settling, SettleIn
    <2>6. \A id : /\ AwaitsModule(id)' <=> AwaitsModule(id)
                  /\ Posted(id)' <=> Posted(id)
                  /\ Served(id)' <=> Served(id)
                  /\ Answered(id)' <=> Answered(id)
      BY <2>1, Frame DEF RetryFn
    <2>7. PlacesAfter(m, "nowhere")
      BY <1>1, <1>3, <2>1, <2>4, <2>5, <2>6 DEF PlacesAfter
    <2>8. Moves(m, "nowhere")
      BY <2>7, MovesByPlace
    <2>9. OnePlaceEach' /\ InTable'
      BY <1>1, <1>2, <2>1, <2>2, <2>3, <2>8, LeavingKeepsOnePlace, LeavingKeepsInTable
      DEF IInv
    <2>10. TypeOK'
      BY <1>1, <1>5, <2>1, <2>3 DEF IInv, TypeOK, RetryFn, jsVars
    <2>11. Issued'
      BY <1>1, <1>2, <2>2, <2>3 DEF IInv, Issued, RetryFn, jsVars
    <2>12. EachOnce'
      BY <1>1, <2>1 DEF IInv, EachOnce, JobsOnce, Once, RetryFn
    <2>. QED  BY <1>6, <1>7, <2>9, <2>10, <2>11, <2>12 DEF IInv
  <1>. QED  BY <1>8, <1>9

LEMMA HandleMessageIInv ==
    ASSUME IInv, HandleMessage PROVE IInv'
  <1>. USE Assumptions
  <1>. DEFINE m == Head(toJs)
  <1>1. /\ toJs \in Seq(Replies) /\ toJs # <<>> /\ toJs' = Tail(toJs) /\ EndsLast(toJs)
        /\ microtasks = <<>>
    BY DEF IInv, TypeOK, EachOnce, EndsLast, HandleMessage
  <1>2. /\ 1 \in 1..Len(toJs) /\ m = toJs[1] /\ Len(toJs) \in Nat /\ toJs' \in Seq(Replies)
        /\ \A i \in 1..Len(toJs') : i + 1 \in 1..Len(toJs) /\ toJs'[i] = toJs[i + 1]
    BY <1>1, TailShifts
  <1>3. m \in Replies /\ m.id \in Ids /\ m.id \in messages
        /\ (Ending(m) => At("answered", m.id))
    BY <1>2, ReplyAwaited
  <1>4. m.hasMore => request[m.id].kind \in Streaming
    BY <1>2 DEF IInv, MoreToCome
  <1>5. (DropsEntry(m) <=> Ending(m)) /\ (Failed(m) <=> m.error # NoError)
    BY <1>4 DEF DropsEntry, Ending, Failed
  <1>6. /\ messages' = IF DropsEntry(m) THEN messages \ {m.id} ELSE messages
        /\ microtasks' = JobsOf(m)
        /\ delivered' = IF m.error = NoError /\ request[m.id].kind \in Streaming
                          THEN [delivered EXCEPT ![m.id] = Append(@, m.batch)]
                          ELSE delivered
    BY <1>3 DEF HandleMessage
  <1>7. delivered' \in [Ids -> Seq(1..MaxBatches)]
    <2>1. m.error = NoError => m.batch \in 1..MaxBatches
      BY <1>3 DEF Replies, NoError, NaclErrors
    <2>2. delivered \in [Ids -> Seq(1..MaxBatches)]
      BY DEF IInv, TypeOK
    <2>3. CASE delivered' = delivered
      BY <2>2, <2>3
    <2>4. CASE m.error = NoError /\ request[m.id].kind \in Streaming
      <3>1. Append(delivered[m.id], m.batch) \in Seq(1..MaxBatches)
        BY <1>3, <2>1, <2>2, <2>4
      <3>2. delivered' = [delivered EXCEPT ![m.id] = Append(delivered[m.id], m.batch)]
        BY <1>6, <2>4
      <3>. QED  BY <2>2, <3>1, <3>2
    <2>. QED  BY <1>6, <2>3, <2>4
  <1>8. /\ EndsLast(toJs')
        /\ Ending(m) => \A i \in 1..Len(toJs') : toJs'[i].id # m.id
        /\ \A id : EndIn(toJs', id) <=> (~(id = m.id /\ Ending(m)) /\ EndIn(toJs, id))
    BY <1>1, TailOfReplies
  <1>9. \A id : Answered(id) <=> EndIn(toJs, id)
    BY DEF Answered, EndIn
  <1>10. \A id : Answered(id)' <=> EndIn(toJs', id)
    BY DEF Answered, EndIn, Ending
  <1>11. \A id : /\ AwaitsModule(id)' <=> AwaitsModule(id)
                 /\ Posted(id)' <=> Posted(id)
                 /\ Served(id)' <=> Served(id)
    BY Frame DEF HandleMessage
  <1>12. \A id : ~Sending(id) /\ ~Settling(id)
    BY <1>1 DEF Sending, Settling
  <1>13. Issued' /\ ServesMore'
    BY DEF IInv, Issued, ServesMore, HandleMessage, jsVars
  <1>14. messages' \subseteq Ids
    BY <1>6 DEF IInv, TypeOK
  <1>15. CASE Ending(m)
    <2>1. PICK job \in Jobs : microtasks' = <<job>> /\ job.id = m.id /\ job.task # "send"
      <3>1. CASE m.error # NoError
        <4>1. m.error \in NaclErrors
          BY <1>3, <3>1 DEF Replies
        <4>2. Job("retry", m.id, m.error) \in Jobs /\ Job("retry", m.id, m.error).id = m.id
              /\ Job("retry", m.id, m.error).task # "send"
          BY <1>3, <4>1 DEF Job, Jobs
        <4>3. microtasks' = <<Job("retry", m.id, m.error)>>
          BY <1>6, <3>1 DEF JobsOf
        <4>. QED  BY <4>2, <4>3
      <3>2. CASE m.error = NoError
        <4>1. ~m.hasMore
          BY <1>15, <3>2 DEF Ending
        <4>2. Job("resolve", m.id, NoError) \in Jobs
              /\ Job("resolve", m.id, NoError).id = m.id
              /\ Job("resolve", m.id, NoError).task # "send"
          BY <1>3 DEF Job, Jobs
        <4>3. microtasks' = <<Job("resolve", m.id, NoError)>>
          BY <1>5, <1>6, <3>2, <4>1 DEF JobsOf
        <4>. QED  BY <4>2, <4>3
      <3>. QED  BY <3>1, <3>2
    <2>2. /\ microtasks' \in Seq(Jobs) /\ JobsOnce(microtasks')
          /\ Len(microtasks') = 1 /\ microtasks'[1] = job
      BY <2>1 DEF JobsOnce
    <2>3. \A id : ~Sending(id)'
      BY <2>1, <2>2 DEF Sending
    <2>4. \A id : Settling(id)' <=> id = m.id
      BY <2>1, <2>2 DEF Settling
    <2>5. /\ outcome[m.id] = "waiting"
          /\ \A p \in Places : At(p, m.id) <=> p = "answered"
      BY <1>3, <1>15, PlacedWaits DEF Places
    <2>6. ~AwaitsModule(m.id) /\ ~Posted(m.id) /\ ~Served(m.id)
      BY <2>5, PlaceNames DEF Places
    <2>7. PlacesAfter(m.id, "settling")
      BY <1>8, <1>9, <1>10, <1>11, <1>12, <1>15, <2>3, <2>4, <2>6 DEF PlacesAfter
    <2>8. Moves(m.id, "settling")
      BY <2>7, MovesByPlace
    <2>9. OnePlaceEach'
      BY <1>3, <2>5, <2>8, MovesKeepsOnePlace DEF IInv, Places, HandleMessage
    <2>10. InTable'
      BY <1>3, <1>5, <1>6, <1>15, <2>8, MovesKeepsInTable DEF IInv, Places
    <2>11. TypeOK'
      BY <1>2, <1>7, <1>14, <2>2 DEF IInv, TypeOK, HandleMessage, jsVars
    <2>12. EachOnce'
      BY <1>8, <2>2 DEF IInv, EachOnce, JobsOnce, EndsLast, Once, Ending, HandleMessage
    <2>13. MoreToCome'
      <3>. SUFFICES ASSUME NEW i \in 1..Len(toJs'), NEW r, r = toJs'[i]
                    PROVE  /\ r.hasMore => request'[r.id].kind \in Streaming
                           /\ ~Ending(r) => Served(r.id)' \/ Answered(r.id)'
        BY DEF MoreToCome, Ending
      <3>1. request' = request
        BY DEF HandleMessage, jsVars
      <3>2. r.id # m.id /\ i + 1 \in 1..Len(toJs) /\ r = toJs[i + 1]
        BY <1>2, <1>8, <1>15
      <3>3. /\ r.hasMore => request[r.id].kind \in Streaming
            /\ ~Ending(r) => Served(r.id) \/ Answered(r.id)
        BY <3>2 DEF IInv, MoreToCome
      <3>4. /\ Answered(r.id)' <=> Answered(r.id)
            /\ Served(r.id)' <=> Served(r.id)
        BY <1>8, <1>9, <1>10, <1>11, <3>2
      <3>. QED  BY <3>1, <3>3, <3>4
    <2>. QED  BY <1>13, <2>9, <2>10, <2>11, <2>12, <2>13 DEF IInv
  <1>16. CASE ~Ending(m)
    <2>1. microtasks' = <<>> /\ messages' = messages
      BY <1>5, <1>6, <1>16 DEF JobsOf, Ending
    <2>2. \A id : ~Sending(id)' /\ ~Settling(id)'
      BY <2>1 DEF Sending, Settling
    <2>3. \A id : Answered(id)' <=> Answered(id)
      BY <1>8, <1>9, <1>10, <1>16
    <2>4. \A id \in Ids, p \in Places : At(p, id)' <=> At(p, id)
      BY <1>11, <1>12, <2>2, <2>3 DEF At
    <2>5. OnePlaceEach' /\ InTable'
      BY <2>1, <2>4 DEF IInv, OnePlaceEach, InTable, HandleMessage
    <2>6. TypeOK'
      BY <1>2, <1>7, <2>1 DEF IInv, TypeOK, HandleMessage, jsVars
    <2>7. EachOnce'
      BY <1>8, <2>1 DEF IInv, EachOnce, EndsLast, Once, Ending, HandleMessage
    <2>8. MoreToCome'
      BY <1>2, <1>11, <2>3 DEF IInv, MoreToCome, Ending, HandleMessage, jsVars
    <2>. QED  BY <1>13, <2>5, <2>6, <2>7, <2>8 DEF IInv
  <1>. QED  BY <1>15, <1>16

LEMMA NaclReceiveIInv ==
    ASSUME IInv, NaclReceive PROVE IInv'
  <1>. USE Assumptions
  <1>. DEFINE m == Head(toNacl)
  <1>1. /\ toNacl \in Seq(Ids) /\ toNacl # <<>> /\ Once(toNacl) /\ toNacl' = Tail(toNacl)
        /\ nacl = Idle /\ nacl' = [id |-> m, sent |-> 0]
    BY DEF IInv, TypeOK, EachOnce, NaclReceive
  <1>2. m \in Ids /\ m = toNacl[1] /\ 1 \in 1..Len(toNacl) /\ toNacl' \in Seq(Ids)
    BY <1>1, TailShifts
  <1>3. /\ Once(toNacl')
        /\ \A id : Posted(id)' <=> (id # m /\ Posted(id))
    BY ZenonT(30), <1>1, TailOfIds DEF Posted
  <1>4. At("posted", m)
    BY <1>2, PlaceNames DEF Posted
  <1>5. /\ outcome[m] = "waiting" /\ m \in messages /\ request[m] \in Request
        /\ \A p \in Places : At(p, m) <=> p = "posted"
    BY <1>2, <1>4, PlacedWaits DEF Places
  <1>6. ~AwaitsModule(m) /\ ~Sending(m) /\ ~Answered(m) /\ ~Settling(m)
    BY <1>5, PlaceNames DEF Places
  <1>7. \A id \in Ids : /\ ~Served(id)
                        /\ Served(id)' <=> id = m
    BY <1>1 DEF Served, Idle
  <1>8. \A id : /\ AwaitsModule(id)' <=> AwaitsModule(id)
                /\ Sending(id)' <=> Sending(id)
                /\ Settling(id)' <=> Settling(id)
                /\ Answered(id)' <=> Answered(id)
    BY Frame DEF NaclReceive, routerVars
  <1>9. PlacesAfter(m, "served")
    BY <1>3, <1>6, <1>7, <1>8 DEF PlacesAfter
  <1>10. Moves(m, "served")
    BY <1>9, MovesByPlace
  <1>11. OnePlaceEach'
    BY <1>2, <1>5, <1>10, MovesKeepsOnePlace DEF IInv, Places, NaclReceive, appVars
  <1>12. InTable'
    <2>1. messages' = messages \cup {m}
      BY <1>5 DEF NaclReceive, routerVars
    <2>. QED  BY <1>2, <1>10, <2>1, MovesKeepsInTable DEF IInv, Places
  <1>13. TypeOK'
    <2>1. nacl' \in [id: Ids \cup {NoId}, sent: 0..MaxBatches]
      BY <1>1, <1>2
    <2>2. /\ UNCHANGED <<nextId, request, parked>>
          /\ UNCHANGED <<messages, isInitialized, initWaiters>>
          /\ UNCHANGED <<microtasks, toJs, attempts, outcome, delivered>>
      BY DEF NaclReceive, jsVars, routerVars, appVars
    <2>3. TypeOK
      BY DEF IInv
    <2>. QED  BY <1>2, <2>1, <2>2, <2>3 DEF TypeOK
  <1>14. EachOnce'
    BY <1>3 DEF IInv, EachOnce, Once, NaclReceive, routerVars, Ending
  <1>15. Issued'
    BY DEF IInv, Issued, NaclReceive, jsVars, appVars
  <1>16. ServesMore'
    <2>1. request[m].batches > 0
      BY <1>5 DEF Request
    <2>. QED  BY <1>1, <1>2, <2>1 DEF ServesMore, NaclReceive, jsVars
  <1>17. MoreToCome'
    <2>1. \A id \in Ids : Served(id) \/ Answered(id) => Served(id)' \/ Answered(id)'
      BY <1>7, <1>8
    <2>2. \A i \in 1..Len(toJs) : toJs[i].id \in Ids
      BY ReplyAwaited
    <2>. QED  BY <2>1, <2>2 DEF IInv, MoreToCome, Ending, NaclReceive, jsVars
  <1>. QED  BY <1>11, <1>12, <1>13, <1>14, <1>15, <1>16, <1>17 DEF IInv

\* A step of the module that sends m as the reply to the request it serves.
Sends(m) ==
    /\ nacl # Idle
    /\ m.id = nacl.id
    /\ toJs' = Append(toJs, m)
    /\ UNCHANGED <<jsVars, routerVars, microtasks, toNacl, appVars>>

\* The module serves a request whose ending reply it has not sent.
LEMMA ServedNow ==
    ASSUME IInv, nacl # Idle
    PROVE  /\ nacl.id \in Ids /\ At("served", nacl.id) /\ outcome[nacl.id] = "waiting"
           /\ nacl.id \in messages /\ request[nacl.id] \in Request
           /\ nacl.sent \in Nat /\ nacl.sent < request[nacl.id].batches
           /\ ~AwaitsModule(nacl.id) /\ ~Sending(nacl.id) /\ ~Posted(nacl.id)
           /\ ~Answered(nacl.id) /\ ~Settling(nacl.id)
  <1>. USE Assumptions
  <1>1. nacl.id \in Ids /\ nacl.sent \in Nat /\ nacl.sent < request[nacl.id].batches
    <2>1. nacl.id # NoId
      BY DEF IInv, ServesMore
    <2>. QED  BY <2>1 DEF IInv, TypeOK, ServesMore
  <1>2. At("served", nacl.id)
    BY PlaceNames DEF Served
  <1>3. /\ outcome[nacl.id] = "waiting" /\ request[nacl.id] \in Request
        /\ nacl.id \in messages /\ \A p \in Places : At(p, nacl.id) <=> p = "served"
    BY <1>1, <1>2, PlacedWaits DEF Places
  <1>4. ~AwaitsModule(nacl.id) /\ ~Sending(nacl.id) /\ ~Posted(nacl.id)
        /\ ~Answered(nacl.id) /\ ~Settling(nacl.id)
    BY <1>3, PlaceNames DEF Places
  <1>. QED  BY <1>1, <1>2, <1>3, <1>4

\* What any reply leaves alone, and what the queue of replies becomes.
LEMMA SendsEffect ==
    ASSUME IInv, NEW m \in Replies, Sends(m)
    PROVE  /\ EachOnce' /\ Issued' /\ toJs' \in Seq(Replies)
           /\ \A id : Answered(id)' <=> (Answered(id) \/ (id = m.id /\ Ending(m)))
           /\ \A id : /\ AwaitsModule(id)' <=> AwaitsModule(id)
                      /\ Sending(id)' <=> Sending(id)
                      /\ Posted(id)' <=> Posted(id)
                      /\ Settling(id)' <=> Settling(id)
           /\ \A i \in 1..Len(toJs') : (i \in 1..Len(toJs) /\ toJs'[i] = toJs[i]) \/ toJs'[i] = m
  <1>. USE Assumptions
  <1>1. toJs \in Seq(Replies) /\ EndsLast(toJs)
    BY DEF IInv, TypeOK, EachOnce, EndsLast
  <1>2. \A id : Answered(id) <=> EndIn(toJs, id)
    BY DEF Answered, EndIn
  <1>3. \A id : Answered(id)' <=> EndIn(toJs', id)
    BY DEF Answered, EndIn, Ending
  <1>4. ~EndIn(toJs, m.id)
    BY <1>2, ServedNow DEF Sends
  <1>5. /\ EndsLast(toJs')
        /\ \A id : EndIn(toJs', id) <=> (EndIn(toJs, id) \/ (id = m.id /\ Ending(m)))
    BY <1>1, <1>4, AppendOfReplies DEF Sends
  <1>6. toJs' \in Seq(Replies)
        /\ \A i \in 1..Len(toJs') : (i \in 1..Len(toJs) /\ toJs'[i] = toJs[i]) \/ toJs'[i] = m
    BY <1>1, AppendExtends DEF Sends
  <1>7. EachOnce'
    BY <1>5 DEF IInv, EachOnce, EndsLast, Once, Ending, Sends, routerVars
  <1>8. Issued'
    BY DEF IInv, Issued, Sends, jsVars, appVars
  <1>9. \A id : /\ AwaitsModule(id)' <=> AwaitsModule(id)
                /\ Sending(id)' <=> Sending(id)
                /\ Posted(id)' <=> Posted(id)
                /\ Settling(id)' <=> Settling(id)
    BY Frame DEF Sends, routerVars
  <1>. QED  BY <1>2, <1>3, <1>5, <1>6, <1>7, <1>8, <1>9

\* The reply that ends a request.
LEMMA LastReplyIInv ==
    ASSUME IInv, NEW m \in Replies, Sends(m), Ending(m), ~m.hasMore, nacl' = Idle
    PROVE  IInv'
  <1>. USE Assumptions
  <1>1. /\ m.id = nacl.id /\ m.id \in Ids /\ m.id \in messages /\ outcome[m.id] = "waiting"
        /\ ~AwaitsModule(m.id) /\ ~Sending(m.id) /\ ~Posted(m.id)
        /\ ~Answered(m.id) /\ ~Settling(m.id)
    BY ServedNow DEF Sends
  <1>2. \A id \in Ids : ~Served(id)' /\ (Served(id) <=> id = m.id)
    BY <1>1 DEF Served, Idle
  <1>3. PlacesAfter(m.id, "answered")
    BY <1>1, <1>2, SendsEffect DEF PlacesAfter
  <1>4. Moves(m.id, "answered")
    BY <1>3, MovesByPlace
  <1>5. OnePlaceEach'
    BY <1>1, <1>4, MovesKeepsOnePlace DEF IInv, Places, Sends, appVars
  <1>6. InTable'
    <2>1. messages' = messages \cup {m.id}
      BY <1>1 DEF Sends, routerVars
    <2>. QED  BY <1>1, <1>4, <2>1, MovesKeepsInTable DEF IInv, Places
  <1>7. TypeOK'
    <2>1. nacl' \in [id: Ids \cup {NoId}, sent: 0..MaxBatches]
      BY DEF Idle
    <2>. QED  BY <2>1, SendsEffect DEF IInv, TypeOK, Sends, jsVars, routerVars, appVars
  <1>8. ServesMore'
    BY <1>1 DEF ServesMore, Idle
  <1>9. MoreToCome'
    <2>. SUFFICES ASSUME NEW i \in 1..Len(toJs'), NEW r, r = toJs'[i]
                  PROVE  /\ r.hasMore => request'[r.id].kind \in Streaming
                         /\ ~Ending(r) => Served(r.id)' \/ Answered(r.id)'
      BY DEF MoreToCome, Ending
    <2>1. CASE r = m
      BY <2>1
    <2>2. CASE i \in 1..Len(toJs) /\ r = toJs[i]
      <3>1. r.id \in Ids
        BY <2>2, ReplyAwaited
      <3>2. /\ r.hasMore => request[r.id].kind \in Streaming
            /\ ~Ending(r) => Served(r.id) \/ Answered(r.id)
        BY <2>2 DEF IInv, MoreToCome
      <3>3. Served(r.id) \/ Answered(r.id) => Answered(r.id)'
        BY <1>2, <3>1, SendsEffect
      <3>. QED  BY <2>2, <3>2, <3>3 DEF Sends, jsVars
    <2>. QED  BY <2>1, <2>2, SendsEffect
  <1>. QED  BY <1>5, <1>6, <1>7, <1>8, <1>9, SendsEffect DEF IInv

LEMMA NaclSendIInv ==
    ASSUME IInv, NaclSend PROVE IInv'
  <1>. USE Assumptions
  <1>. DEFINE batch == nacl.sent + 1
              hasMore == batch < request[nacl.id].batches
              m == Reply(nacl.id, NoError, batch, hasMore)
  <1>1. nacl # Idle /\ toJs' = Append(toJs, m)
        /\ nacl' = IF hasMore THEN [nacl EXCEPT !.sent = batch] ELSE Idle
    BY DEF NaclSend
  <1>2. /\ nacl.id \in Ids /\ request[nacl.id] \in Request /\ At("served", nacl.id)
        /\ nacl.sent \in Nat /\ nacl.sent < request[nacl.id].batches
    BY <1>1, ServedNow
  <1>3. request[nacl.id].batches \in 1..MaxBatches
    BY <1>2 DEF Request
  <1>4. batch \in 1..MaxBatches
    BY <1>2, <1>3
  <1>5. m \in Replies /\ m.id = nacl.id /\ m.error = NoError /\ (m.hasMore <=> hasMore)
    <2>1. hasMore \in BOOLEAN
      OBVIOUS
    <2>. QED  BY <1>2, <1>4, <2>1 DEF Reply, Replies
  <1>6. Sends(m)
    BY <1>1, <1>5 DEF Sends, NaclSend
  <1>7. CASE ~hasMore
    BY <1>1, <1>5, <1>6, <1>7, LastReplyIInv DEF Ending
  <1>8. CASE hasMore
    <2>1. nacl' = [nacl EXCEPT !.sent = batch] /\ ~Ending(m)
      BY <1>1, <1>5, <1>8 DEF Ending
    <2>2. nacl \in [id: Ids \cup {NoId}, sent: 0..MaxBatches]
      BY DEF IInv, TypeOK
    <2>3. /\ nacl' \in [id: Ids \cup {NoId}, sent: 0..MaxBatches]
          /\ nacl'.id = nacl.id /\ nacl'.sent = batch
      BY <1>4, <2>1, <2>2
    <2>4. \A id : Served(id)' <=> Served(id)
      BY <2>3 DEF Served
    <2>5. \A id : Answered(id)' <=> Answered(id)
      BY <1>5, <1>6, <2>1, SendsEffect
    <2>6. \A id \in Ids, p \in Places : At(p, id)' <=> At(p, id)
      BY <1>5, <1>6, <2>4, <2>5, SendsEffect DEF At
    <2>7. OnePlaceEach' /\ InTable'
      BY <2>6 DEF IInv, OnePlaceEach, InTable, NaclSend, appVars, routerVars
    <2>8. TypeOK'
      BY <1>5, <1>6, <2>3, SendsEffect
      DEF IInv, TypeOK, NaclSend, jsVars, routerVars, appVars
    <2>9. ServesMore'
      BY <1>2, <1>8, <2>3 DEF ServesMore, NaclSend, jsVars
    <2>10. request[nacl.id].kind \in Streaming
      BY <1>2, <1>8 DEF Request
    <2>11. MoreToCome'
      <3>. SUFFICES ASSUME NEW i \in 1..Len(toJs'), NEW r, r = toJs'[i]
                    PROVE  /\ r.hasMore => request'[r.id].kind \in Streaming
                           /\ ~Ending(r) => Served(r.id)' \/ Answered(r.id)'
        BY DEF MoreToCome, Ending
      <3>1. request' = request
        BY DEF NaclSend, jsVars
      <3>2. CASE r = m
        BY <1>5, <2>4, <2>10, <3>1, <3>2 DEF Served
      <3>3. CASE i \in 1..Len(toJs) /\ r = toJs[i]
        BY <2>4, <2>5, <3>1, <3>3 DEF IInv, MoreToCome
      <3>. QED  BY <1>5, <1>6, <3>2, <3>3, SendsEffect
    <2>. QED  BY <1>5, <1>6, <2>7, <2>8, <2>9, <2>11, SendsEffect DEF IInv
  <1>. QED  BY <1>7, <1>8

LEMMA NaclFailIInv ==
    ASSUME IInv, NEW err \in NaclErrors, NaclFail(err) PROVE IInv'
  <1>. DEFINE m == Reply(nacl.id, err, 0, FALSE)
  <1>1. nacl # Idle /\ nacl' = Idle /\ toJs' = Append(toJs, m)
    BY DEF NaclFail
  <1>2. m \in Replies /\ m.id = nacl.id /\ m.error # NoError /\ ~m.hasMore
    <2>1. nacl.id \in Ids
      BY <1>1, ServedNow
    <2>. QED  BY <2>1 DEF Reply, Replies, NaclErrors, NoError
  <1>3. Sends(m) /\ Ending(m)
    BY <1>1, <1>2 DEF Sends, NaclFail, Ending
  <1>. QED  BY <1>1, <1>2, <1>3, LastReplyIInv

LEMMA StutterIInv ==
    ASSUME IInv, UNCHANGED vars PROVE IInv'
  <1>. USE DEF vars, jsVars, routerVars, appVars
  <1>1. TypeOK' /\ Issued' /\ ServesMore'
    BY DEF IInv, TypeOK, Issued, ServesMore
  <1>2. \A id : /\ AwaitsModule(id)' <=> AwaitsModule(id)
                /\ Sending(id)' <=> Sending(id)
                /\ Posted(id)' <=> Posted(id)
                /\ Served(id)' <=> Served(id)
                /\ Answered(id)' <=> Answered(id)
                /\ Settling(id)' <=> Settling(id)
    BY Frame
  <1>3. \A id \in Ids, p \in Places : At(p, id)' <=> At(p, id)
    BY <1>2 DEF At
  <1>4. OnePlaceEach' /\ InTable'
    BY <1>3 DEF IInv, OnePlaceEach, InTable
  <1>5. EachOnce'
    BY DEF IInv, EachOnce, Once, Ending
  <1>6. MoreToCome'
    BY <1>2 DEF IInv, MoreToCome, Ending
  <1>. QED  BY <1>1, <1>4, <1>5, <1>6 DEF IInv

-----------------------------------------------------------------------------
(* Where a request is: the theorems.                                       *)

\* IInv is an invariant of the request path.
THEOREM Invariance == Spec => []IInv
  <1>1. Init => IInv
    BY InitIInv
  <1>2. IInv /\ [Next]_vars => IInv'
    <2>. SUFFICES ASSUME IInv, [Next]_vars PROVE IInv'
      OBVIOUS
    <2>1. ASSUME NEW what \in Request, Ask(what) PROVE IInv'
      BY <2>1, AskIInv
    <2>2. ASSUME NEW id \in Ids, Refuse(id) PROVE IInv'
      BY <2>2, RefuseIInv
    <2>3. ASSUME NEW id \in Ids, Route(id) PROVE IInv'
      BY <2>3, RouteIInv
    <2>4. CASE Initialize
      BY <2>4, InitializeIInv
    <2>5. CASE HandleMessage
      BY <2>5, HandleMessageIInv
    <2>6. CASE RunMicrotask
      BY <2>6, PostMessageIInv, ResolveIInv, RetryFnIInv DEF RunMicrotask
    <2>7. CASE NaclStep
      BY <2>7, NaclReceiveIInv, NaclSendIInv, NaclFailIInv DEF NaclStep
    <2>8. CASE UNCHANGED vars
      BY <2>8, StutterIInv
    <2>. QED  BY <2>1, <2>2, <2>3, <2>4, <2>5, <2>6, <2>7, <2>8 DEF Next
  <1>. QED  BY <1>1, <1>2, PTL DEF Spec

\* The state of the page, of the queues and of the module keeps its types.
THEOREM TypeCorrect == Spec => []TypeOK
  <1>1. IInv => TypeOK
    BY DEF IInv
  <1>. QED  BY <1>1, Invariance, PTL

\* Every request the router has accepted is in exactly one place, once, until
\* its caller is answered.
THEOREM RequestsInOnePlace == Spec => []InOnePlace
  <1>1. IInv => InOnePlace
    BY DEF IInv, OnePlaceEach, InOnePlace
  <1>. QED  BY <1>1, Invariance, PTL

\* A retry never finds its own id in the router's table: sendMessage does not throw.
THEOREM NoDuplicate == Spec => []NoDuplicateSend
  <1>1. IInv => NoDuplicateSend
    <2>. SUFFICES ASSUME IInv, NEW i \in 1..Len(microtasks), microtasks[i].task = "retry"
                  PROVE  microtasks[i].id \notin messages
      BY DEF NoDuplicateSend
    <2>1. microtasks[i].id \in Ids
      BY DEF IInv, TypeOK, Jobs
    <2>2. At("settling", microtasks[i].id)
      BY PlaceNames DEF Settling
    <2>. QED  BY <2>1, <2>2, PlacedWaits DEF Places
  <1>. QED  BY <1>1, Invariance, PTL

\* Each reply on its way to the page has an entry in the router's table.
THEOREM RepliesAwaited == Spec => []NoOrphanReply
  <1>1. IInv => NoOrphanReply
    BY ReplyAwaited DEF NoOrphanReply
  <1>. QED  BY <1>1, Invariance, PTL

-----------------------------------------------------------------------------
(* The batches of a streamed reply.  The argument follows them from the    *)
(* module's counter through the queue of replies to the Files app: the     *)
(* batches of one attempt are consecutive, and the first batch of an       *)
(* attempt finds the request as the attempt found it.                      *)

LastOf(s) == IF s = <<>> THEN 0 ELSE s[Len(s)]

\* The first batch of the current attempt of the request has not been handed over.
FirstOnItsWay(id) == \E i \in 1..Len(toJs) : toJs[i].id = id /\ toJs[i].batch = 1
Fresh(id) == \/ outcome[id] \in {"unissued", "parked"}
             \/ AwaitsModule(id) \/ Sending(id) \/ Posted(id)
             \/ Served(id) /\ nacl.sent = 0
             \/ FirstOnItsWay(id)

\* The attempt has failed, or succeeded, and the callback that says so has not run.
ErrorOnItsWay(id) == \E i \in 1..Len(toJs) : toJs[i].id = id /\ toJs[i].error # NoError
Retrying(id) == \E i \in 1..Len(microtasks) :
                   microtasks[i].id = id /\ microtasks[i].task = "retry"
Resolving(id) == \E i \in 1..Len(microtasks) :
                    microtasks[i].id = id /\ microtasks[i].task = "resolve"

\* A batch is one of the request's, and says more is to come unless it is the last.
BatchesFit ==
    \A i \in 1..Len(toJs) : toJs[i].error = NoError =>
        /\ toJs[i].batch <= request[toJs[i].id].batches
        /\ toJs[i].hasMore <=> toJs[i].batch < request[toJs[i].id].batches

\* The batches of a request are on their way in order, and without a gap after
\* what the Files app has been handed.
BatchesRise ==
    \A i, j \in 1..Len(toJs) :
        i < j /\ toJs[i].id = toJs[j].id /\ toJs[j].error = NoError
          => toJs[i].batch < toJs[j].batch
NoGap ==
    \A i \in 1..Len(toJs) : toJs[i].batch > 1 =>
        \/ \E j \in 1..Len(toJs) :
              j < i /\ toJs[j].id = toJs[i].id /\ toJs[j].batch = toJs[i].batch - 1
        \/ /\ LastOf(delivered[toJs[i].id]) = toJs[i].batch - 1
           /\ \A j \in 1..Len(toJs) : j < i => toJs[j].id # toJs[i].id

\* The module's counter is the last batch it sent, on its way or handed over.
SentSoFar ==
    /\ \A i \in 1..Len(toJs) : toJs[i].id = nacl.id => toJs[i].batch <= nacl.sent
    /\ nacl.sent > 0 =>
         \/ \E i \in 1..Len(toJs) : toJs[i].id = nacl.id /\ toJs[i].batch = nacl.sent
         \/ /\ LastOf(delivered[nacl.id]) = nacl.sent
            /\ \A i \in 1..Len(toJs) : toJs[i].id # nacl.id

\* A listing that fails has sent no batch.
FailsAlone ==
    \A i, j \in 1..Len(toJs) :
        request[toJs[i].id].kind = "readDirectory" /\ toJs[i].error # NoError
          /\ toJs[j].id = toJs[i].id => j = i

InSequence == BatchesFit /\ BatchesRise /\ NoGap /\ SentSoFar /\ FailsAlone

LEMMA LastOfAppend ==
    ASSUME NEW S, NEW s \in Seq(S), NEW x \in S
    PROVE  LastOf(Append(s, x)) = x /\ Append(s, x) # <<>>
  BY AppendExtends DEF LastOf

LEMMA ReplyTypes ==
    ASSUME NEW m \in Replies
    PROVE  /\ m.id \in Ids /\ m.batch \in Nat
           /\ m.error = NoError => m.batch \in 1..MaxBatches
           /\ m.error # NoError => m.batch = 0 /\ ~m.hasMore /\ m.error \in NaclErrors
  <1>1. CASE m \in [id: Ids, error: {NoError}, batch: 1..MaxBatches, hasMore: BOOLEAN]
    <2>1. m.id \in Ids /\ m.error = NoError /\ m.batch \in 1..MaxBatches
      BY <1>1
    <2>. QED
      BY <2>1, Assumptions
  <1>2. CASE m \in [id: Ids, error: NaclErrors, batch: {0}, hasMore: {FALSE}]
    <2>1. m.id \in Ids /\ m.error \in NaclErrors /\ m.batch = 0 /\ m.hasMore = FALSE
      BY <1>2
    <2>2. m.error # NoError
      BY <2>1 DEF NoError, NaclErrors
    <2>. QED
      BY <2>1, <2>2
  <1>. QED
    BY <1>1, <1>2 DEF Replies

\* Steps that touch neither the replies nor the module's counter.
LEMMA InSequenceKept ==
    ASSUME IInv, InSequence, UNCHANGED <<toJs, nacl, delivered>>,
           \A id \in messages : request'[id] = request[id]
    PROVE  InSequence'
  <1>1. \A i \in 1..Len(toJs) : request'[toJs[i].id] = request[toJs[i].id]
    BY ReplyAwaited
  <1>. QED
    BY <1>1 DEF InSequence, BatchesFit, BatchesRise, NoGap, SentSoFar, FailsAlone

\* What the handler of a reply does.
LEMMA HandleEffect ==
    ASSUME IInv, HandleMessage, NEW m, m = Head(toJs)
    PROVE  /\ toJs # <<>> /\ m \in Replies /\ m.id \in Ids /\ 1 \in 1..Len(toJs) /\ toJs[1] = m
           /\ Len(toJs) \in Nat
           /\ \A i \in 1..Len(toJs') : i + 1 \in 1..Len(toJs) /\ toJs'[i] = toJs[i + 1]
           /\ \A i \in 1..Len(toJs) : i # 1 => i - 1 \in 1..Len(toJs') /\ toJs'[i - 1] = toJs[i]
           /\ delivered' = IF m.error = NoError /\ request[m.id].kind \in Streaming
                             THEN [delivered EXCEPT ![m.id] = Append(@, m.batch)]
                             ELSE delivered
           /\ microtasks = <<>>
           /\ microtasks' = IF m.error # NoError THEN <<Job("retry", m.id, m.error)>>
                            ELSE IF ~m.hasMore THEN <<Job("resolve", m.id, NoError)>>
                            ELSE <<>>
           /\ UNCHANGED <<jsVars, isInitialized, initWaiters, toNacl, nacl, attempts, outcome>>
           /\ request[m.id] \in Request /\ outcome[m.id] = "waiting" /\ m.id \in messages
           /\ Ending(m) => \A i \in 1..Len(toJs) : i # 1 => toJs[i].id # m.id
  <1>1. toJs \in Seq(Replies) /\ toJs # <<>> /\ toJs' = Tail(toJs) /\ EndsLast(toJs)
    BY DEF IInv, TypeOK, EachOnce, EndsLast, HandleMessage
  <1>2. /\ m \in Replies /\ m = toJs[1] /\ Len(toJs) >= 1
        /\ \A i \in 1..Len(toJs') : i + 1 \in 1..Len(toJs) /\ toJs'[i] = toJs[i + 1]
        /\ \A i \in 1..Len(toJs) : i # 1 => i - 1 \in 1..Len(toJs') /\ toJs'[i - 1] = toJs[i]
    BY <1>1, TailShifts
  <1>3. 1 \in 1..Len(toJs) /\ Len(toJs) \in Nat
    BY <1>1, <1>2
  <1>4. m.id \in Ids /\ m.id \in messages /\ (At("answered", m.id) \/ At("served", m.id))
    BY <1>2, <1>3, ReplyAwaited
  <1>5. request[m.id] \in Request /\ outcome[m.id] = "waiting"
    BY <1>4, PlacedWaits DEF Places
  <1>6. m.hasMore => request[m.id].kind \in Streaming
    BY <1>2, <1>3 DEF IInv, MoreToCome
  <1>7. Failed(m) <=> m.error # NoError
    BY <1>6 DEF Failed
  <1>8. /\ microtasks = <<>> /\ microtasks' = JobsOf(m)
        /\ delivered' = IF m.error = NoError /\ request[m.id].kind \in Streaming
                          THEN [delivered EXCEPT ![m.id] = Append(@, m.batch)]
                          ELSE delivered
        /\ UNCHANGED <<jsVars, isInitialized, initWaiters, toNacl, nacl, attempts, outcome>>
    BY <1>4 DEF HandleMessage
  <1>9. Ending(m) => \A i \in 1..Len(toJs) : i # 1 => toJs[i].id # m.id
    <2>. SUFFICES ASSUME Ending(m), NEW i \in 1..Len(toJs), i # 1
                  PROVE  toJs[i].id # m.id
      OBVIOUS
    <2>1. 1 < i
      BY <1>3
    <2>. QED
      BY <1>1, <1>2, <1>3, <2>1 DEF EndsLast
  <1>10. microtasks' = IF m.error # NoError THEN <<Job("retry", m.id, m.error)>>
                       ELSE IF ~m.hasMore THEN <<Job("resolve", m.id, NoError)>>
                       ELSE <<>>
    BY <1>7, <1>8 DEF JobsOf
  <1>. QED
    BY <1>1, <1>2, <1>3, <1>4, <1>5, <1>8, <1>9, <1>10

\* A batch of a streamed reply becomes the last one handed over; nothing else does.
LEMMA HandedOver ==
    ASSUME IInv, HandleMessage, NEW m, m = Head(toJs)
    PROVE  /\ \A id \in Ids : id # m.id => delivered'[id] = delivered[id]
           /\ m.error # NoError \/ request[m.id].kind \notin Streaming
                => delivered' = delivered
           /\ m.error = NoError /\ request[m.id].kind \in Streaming
                => /\ delivered'[m.id] = Append(delivered[m.id], m.batch)
                   /\ delivered[m.id] \in Seq(1..MaxBatches) /\ m.batch \in 1..MaxBatches
                   /\ LastOf(delivered'[m.id]) = m.batch /\ delivered'[m.id] # <<>>
  <1>1. delivered \in [Ids -> Seq(1..MaxBatches)]
    BY DEF IInv, TypeOK
  <1>2. /\ m \in Replies /\ m.id \in Ids
        /\ delivered' = IF m.error = NoError /\ request[m.id].kind \in Streaming
                          THEN [delivered EXCEPT ![m.id] = Append(@, m.batch)]
                          ELSE delivered
    BY HandleEffect
  <1>3. CASE m.error = NoError /\ request[m.id].kind \in Streaming
    <2>1. m.batch \in 1..MaxBatches
      BY <1>2, <1>3, ReplyTypes
    <2>2. delivered' = [delivered EXCEPT ![m.id] = Append(delivered[m.id], m.batch)]
      BY <1>2, <1>3
    <2>3. delivered'[m.id] = Append(delivered[m.id], m.batch)
          /\ \A id \in Ids : id # m.id => delivered'[id] = delivered[id]
      BY <1>1, <1>2, <2>2
    <2>4. delivered[m.id] \in Seq(1..MaxBatches)
      BY <1>1, <1>2
    <2>. QED
      BY ZenonT(30), <1>3, <2>1, <2>3, <2>4, LastOfAppend
  <1>4. CASE ~(m.error = NoError /\ request[m.id].kind \in Streaming)
    BY <1>2, <1>4
  <1>. QED
    BY <1>3, <1>4

LEMMA HandleInSequence ==
    ASSUME IInv, InSequence, HandleMessage PROVE InSequence'
  <1>. DEFINE m == Head(toJs)
  <1>1. /\ m \in Replies /\ m.id \in Ids /\ 1 \in 1..Len(toJs) /\ toJs[1] = m
        /\ Len(toJs) \in Nat
        /\ \A i \in 1..Len(toJs') : i + 1 \in 1..Len(toJs) /\ toJs'[i] = toJs[i + 1]
        /\ \A i \in 1..Len(toJs) : i # 1 => i - 1 \in 1..Len(toJs') /\ toJs'[i - 1] = toJs[i]
        /\ UNCHANGED request /\ UNCHANGED nacl
        /\ Ending(m) => \A i \in 1..Len(toJs) : i # 1 => toJs[i].id # m.id
    BY HandleEffect DEF jsVars
  <1>2. \A i \in 1..Len(toJs) : toJs[i] \in Replies
    BY ReplyAwaited
  <1>3. \A i \in 1..Len(toJs) : toJs[i].id \in Ids /\ toJs[i].batch \in Nat
    BY <1>2, ReplyTypes
  <1>4. \A i \in 1..Len(toJs') : 1 < i + 1
    OBVIOUS
  <1>5. BatchesFit' /\ FailsAlone'
    <2>1. BatchesFit'
      BY <1>1 DEF InSequence, BatchesFit
    <2>2. FailsAlone'
      <3>. SUFFICES ASSUME NEW i \in 1..Len(toJs'), NEW j \in 1..Len(toJs'),
                           request[toJs'[i].id].kind = "readDirectory",
                           toJs'[i].error # NoError, toJs'[j].id = toJs'[i].id
                    PROVE  i = j
        BY <1>1 DEF FailsAlone
      <3>1. /\ i + 1 \in 1..Len(toJs) /\ toJs'[i] = toJs[i + 1]
            /\ j + 1 \in 1..Len(toJs) /\ toJs'[j] = toJs[j + 1]
        BY <1>1
      <3>2. i + 1 = j + 1
        BY <3>1 DEF InSequence, FailsAlone
      <3>. QED
        BY <3>2
    <2>. QED
      BY <2>1, <2>2
  <1>6. BatchesRise'
    <2>. SUFFICES ASSUME NEW i \in 1..Len(toJs'), NEW j \in 1..Len(toJs'), i < j,
                         toJs'[i].id = toJs'[j].id, toJs'[j].error = NoError
                  PROVE  toJs'[i].batch < toJs'[j].batch
      BY DEF BatchesRise
    <2>1. i + 1 < j + 1
      OBVIOUS
    <2>. QED
      BY ZenonT(30), <1>1, <2>1 DEF InSequence, BatchesRise
  <1>7. /\ ~Ending(m) => LastOf(delivered'[m.id]) = m.batch
        /\ \A id \in Ids : id # m.id => delivered'[id] = delivered[id]
    <2>1. ~Ending(m) => m.error = NoError /\ request[m.id].kind \in Streaming
      BY <1>1 DEF Ending, IInv, MoreToCome
    <2>. QED
      BY <2>1, HandedOver
  <1>8. ASSUME NEW i \in 1..Len(toJs), i # 1, toJs[i].id = m.id
        PROVE  ~Ending(m) /\ (toJs[i].error = NoError => m.batch < toJs[i].batch)
    <2>1. 1 < i
      BY <1>8
    <2>. QED
      BY <1>1, <1>8, <2>1 DEF InSequence, BatchesRise
  <1>9. NoGap'
    <2>. SUFFICES ASSUME NEW i \in 1..Len(toJs'), toJs'[i].batch > 1
                  PROVE  \/ \E j \in 1..Len(toJs') :
                               /\ j < i /\ toJs'[j].id = toJs'[i].id
                               /\ toJs'[j].batch = toJs'[i].batch - 1
                         \/ /\ LastOf(delivered'[toJs'[i].id]) = toJs'[i].batch - 1
                            /\ \A j \in 1..Len(toJs') : j < i => toJs'[j].id # toJs'[i].id
      BY DEF NoGap
    <2>. DEFINE k == i + 1
                r == toJs[k]
    <2>1. k \in 1..Len(toJs) /\ r = toJs'[i] /\ r.batch > 1 /\ 1 < k
          /\ r.id \in Ids /\ r.batch \in Nat
      BY <1>1, <1>3, <1>4
    <2>2. CASE r.id # m.id
      <3>1. CASE \E j \in 1..Len(toJs) :
                    j < k /\ toJs[j].id = r.id /\ toJs[j].batch = r.batch - 1
        <4>1. PICK j \in 1..Len(toJs) :
                    j < k /\ toJs[j].id = r.id /\ toJs[j].batch = r.batch - 1
          BY <3>1
        <4>2. j # 1
          BY <1>1, <2>2, <4>1
        <4>3. j - 1 \in 1..Len(toJs') /\ toJs'[j - 1] = toJs[j] /\ j - 1 < i
          BY <1>1, <4>1, <4>2
        <4>. QED
          BY <2>1, <4>1, <4>3
      <3>2. CASE /\ LastOf(delivered[r.id]) = r.batch - 1
                 /\ \A j \in 1..Len(toJs) : j < k => toJs[j].id # r.id
        <4>1. \A j \in 1..Len(toJs') : j < i => toJs'[j].id # r.id
          <5>. TAKE j \in 1..Len(toJs')
          <5>1. j < i => j + 1 < k
            OBVIOUS
          <5>. QED
            BY ZenonT(30), <1>1, <3>2, <5>1
        <4>. QED
          BY <1>7, <2>1, <2>2, <3>2, <4>1
      <3>. QED
        BY <2>1, <3>1, <3>2 DEF InSequence, NoGap
    <2>3. CASE r.id = m.id
      <3>0. LastOf(delivered'[m.id]) = m.batch
        BY <1>7, <1>8, <2>1, <2>3
      <3>1. PICK j \in 1..Len(toJs) :
                    j < k /\ toJs[j].id = r.id /\ toJs[j].batch = r.batch - 1
        <4>1. 1 \in 1..Len(toJs) /\ toJs[1].id = r.id
          BY <1>1, <2>3
        <4>. QED
          BY <2>1, <4>1 DEF InSequence, NoGap
      <3>2. CASE j # 1
        <4>1. j - 1 \in 1..Len(toJs') /\ toJs'[j - 1] = toJs[j] /\ j - 1 < i
          BY <1>1, <3>1, <3>2
        <4>. QED
          BY <2>1, <3>1, <4>1
      <3>3. CASE j = 1
        <4>1. m.batch = r.batch - 1
          BY <1>1, <3>1, <3>3
        <4>2. ASSUME NEW h \in 1..Len(toJs'), h < i, toJs'[h].id = r.id
              PROVE  FALSE
          <5>1. h + 1 \in 1..Len(toJs) /\ toJs[h + 1].id = m.id /\ h + 1 # 1 /\ h + 1 < k
            BY <1>1, <1>4, <2>3, <4>2
          <5>2. toJs[h + 1].error = NoError
            <6>1. ~Ending(toJs[h + 1])
              BY <2>1, <2>3, <5>1 DEF IInv, EachOnce
            <6>. QED
              BY <6>1 DEF Ending
          <5>3. m.batch < toJs[h + 1].batch
            BY <1>8, <5>1, <5>2
          <5>4. r.error = NoError
            BY <1>2, <2>1, ReplyTypes
          <5>5. toJs[h + 1].batch < r.batch
            BY <2>1, <2>3, <5>1, <5>4 DEF InSequence, BatchesRise
          <5>. QED
            BY <1>1, <1>3, <2>1, <4>1, <5>1, <5>3, <5>5
        <4>3. LastOf(delivered'[r.id]) = r.batch - 1
          BY <2>3, <3>0, <4>1
        <4>. QED
          BY <2>1, <4>2, <4>3
      <3>. QED
        BY <3>2, <3>3
    <2>. QED
      BY <2>2, <2>3
  <1>10. SentSoFar'
    <2>1. ASSUME NEW i \in 1..Len(toJs'), toJs'[i].id = nacl.id
          PROVE  toJs'[i].batch <= nacl.sent
      <3>1. i + 1 \in 1..Len(toJs) /\ toJs'[i] = toJs[i + 1]
        BY <1>1
      <3>. QED
        BY <2>1, <3>1 DEF InSequence, SentSoFar
    <2>2. ASSUME nacl.sent > 0
          PROVE  \/ \E i \in 1..Len(toJs') : toJs'[i].id = nacl.id /\ toJs'[i].batch = nacl.sent
                 \/ /\ LastOf(delivered'[nacl.id]) = nacl.sent
                    /\ \A i \in 1..Len(toJs') : toJs'[i].id # nacl.id
      <3>1. nacl.id \in Ids /\ nacl.sent \in Nat
        <4>1. nacl # Idle
          BY <2>2 DEF Idle
        <4>. QED
          BY <4>1, ServedNow
      <3>2. CASE \E i \in 1..Len(toJs) : toJs[i].id = nacl.id /\ toJs[i].batch = nacl.sent
        <4>1. PICK i \in 1..Len(toJs) : toJs[i].id = nacl.id /\ toJs[i].batch = nacl.sent
          BY <3>2
        <4>2. CASE i # 1
          <5>1. i - 1 \in 1..Len(toJs') /\ toJs'[i - 1] = toJs[i]
            BY <1>1, <4>2
          <5>. QED
            BY <4>1, <5>1
        <4>3. CASE i = 1
          <5>1. m.id = nacl.id /\ m.batch = nacl.sent
            BY <1>1, <4>1, <4>3
          <5>2. ASSUME NEW j \in 1..Len(toJs'), toJs'[j].id = nacl.id
                PROVE  FALSE
            <6>1. j + 1 \in 1..Len(toJs) /\ j + 1 # 1 /\ toJs[j + 1].id = m.id
              BY <1>1, <1>4, <5>1, <5>2
            <6>2. ~Answered(m.id)
              <7>1. nacl # Idle
                BY <2>2 DEF Idle
              <7>. QED
                BY <5>1, <7>1, ServedNow
            <6>3. toJs[j + 1].error = NoError
              BY <6>1, <6>2 DEF Answered, Ending
            <6>4. m.batch < toJs[j + 1].batch
              BY <1>8, <6>1, <6>3
            <6>5. toJs[j + 1].batch <= nacl.sent
              BY <5>1, <6>1 DEF InSequence, SentSoFar
            <6>. QED
              BY <1>3, <3>1, <5>1, <6>1, <6>4, <6>5
          <5>3. ~Ending(m)
            <6>1. nacl # Idle
              BY <2>2 DEF Idle
            <6>. QED
              BY <1>1, <5>1, <6>1, ServedNow DEF Answered
          <5>. QED
            BY <1>7, <5>1, <5>2, <5>3
        <4>. QED
          BY <4>2, <4>3
      <3>3. CASE /\ LastOf(delivered[nacl.id]) = nacl.sent
                 /\ \A i \in 1..Len(toJs) : toJs[i].id # nacl.id
        <4>1. m.id # nacl.id
          BY <1>1, <3>3
        <4>2. \A i \in 1..Len(toJs') : toJs'[i].id # nacl.id
          BY <1>1, <3>3
        <4>. QED
          BY <1>7, <3>1, <3>3, <4>1, <4>2
      <3>. QED
        BY <2>2, <3>2, <3>3 DEF InSequence, SentSoFar
    <2>. QED
      BY <1>1, <2>1, <2>2 DEF SentSoFar
  <1>. QED
    BY <1>5, <1>6, <1>9, <1>10 DEF InSequence

\* A reply joins the queue behind the others.
LEMMA SendExtends ==
    ASSUME IInv, NEW m \in Replies, toJs' = Append(toJs, m), NEW n, n = Len(toJs) + 1
    PROVE  /\ Len(toJs) \in Nat /\ n \in 1..Len(toJs') /\ toJs'[n] = m
           /\ \A i \in 1..Len(toJs) : i \in 1..Len(toJs') /\ toJs'[i] = toJs[i] /\ i < n
           /\ \A i \in 1..Len(toJs') : i = n \/ i \in 1..Len(toJs)
  <1>1. toJs \in Seq(Replies)
    BY DEF IInv, TypeOK
  <1>. QED
    BY <1>1, AppendExtends

LEMMA SendInSequence ==
    ASSUME IInv, InSequence, NaclSend PROVE InSequence'
  <1>. USE Assumptions
  <1>. DEFINE b == nacl.sent + 1
              more == b < request[nacl.id].batches
              m == Reply(nacl.id, NoError, b, more)
              n == Len(toJs) + 1
  <1>1. /\ nacl # Idle /\ toJs' = Append(toJs, m)
        /\ nacl' = IF more THEN [nacl EXCEPT !.sent = b] ELSE Idle
        /\ UNCHANGED <<request, delivered>>
    BY DEF NaclSend, jsVars, appVars
  <1>2. /\ nacl.id \in Ids /\ request[nacl.id] \in Request /\ ~Answered(nacl.id)
        /\ nacl.sent \in Nat /\ nacl.sent < request[nacl.id].batches
    BY <1>1, ServedNow
  <1>3. request[nacl.id].batches \in 1..MaxBatches
    BY <1>2 DEF Request
  <1>4. /\ m \in Replies /\ m.id = nacl.id /\ m.error = NoError /\ m.batch = b
        /\ (m.hasMore <=> more)
    <2>1. more \in BOOLEAN /\ b \in 1..MaxBatches
      BY <1>2, <1>3
    <2>. QED  BY <1>2, <2>1 DEF Reply, Replies
  <1>5. /\ Len(toJs) \in Nat /\ n \in 1..Len(toJs') /\ toJs'[n] = m
        /\ \A i \in 1..Len(toJs) : i \in 1..Len(toJs') /\ toJs'[i] = toJs[i] /\ i < n
        /\ \A i \in 1..Len(toJs') : i = n \/ i \in 1..Len(toJs)
    BY <1>1, <1>4, SendExtends
  <1>6. \A i \in 1..Len(toJs) : /\ toJs[i].id \in Ids /\ toJs[i].batch \in Nat
                                /\ toJs[i].id = nacl.id => toJs[i].error = NoError
                                /\ toJs[i].id = nacl.id => toJs[i].batch <= nacl.sent
    <2>. TAKE i \in 1..Len(toJs)
    <2>1. toJs[i] \in Replies
      BY ReplyAwaited
    <2>. QED
      BY <1>2, <2>1, ReplyTypes DEF Answered, Ending, InSequence, SentSoFar
  <1>. HIDE DEF m
  <1>7. BatchesFit'
    <2>. SUFFICES ASSUME NEW i \in 1..Len(toJs'), toJs'[i].error = NoError
                  PROVE  /\ toJs'[i].batch <= request[toJs'[i].id].batches
                         /\ toJs'[i].hasMore <=> toJs'[i].batch < request[toJs'[i].id].batches
      BY <1>1 DEF BatchesFit
    <2>1. CASE i = n
      BY <1>2, <1>3, <1>4, <1>5, <2>1
    <2>2. CASE i \in 1..Len(toJs)
      BY <1>5, <2>2 DEF InSequence, BatchesFit
    <2>. QED
      BY <1>5, <2>1, <2>2
  <1>8. BatchesRise'
    <2>. SUFFICES ASSUME NEW i \in 1..Len(toJs'), NEW j \in 1..Len(toJs'), i < j,
                         toJs'[i].id = toJs'[j].id, toJs'[j].error = NoError
                  PROVE  toJs'[i].batch < toJs'[j].batch
      BY DEF BatchesRise
    <2>1. i \in 1..Len(toJs) /\ toJs'[i] = toJs[i]
      BY <1>5
    <2>2. CASE j \in 1..Len(toJs)
      BY <1>5, <2>1, <2>2 DEF InSequence, BatchesRise
    <2>3. CASE j = n
      <3>1. toJs[i].id = nacl.id /\ toJs'[j].batch = nacl.sent + 1
        BY <1>4, <1>5, <2>1, <2>3
      <3>. QED
        BY <1>2, <1>6, <2>1, <3>1
    <2>. QED
      BY <1>5, <2>2, <2>3
  <1>9. NoGap'
    <2>. SUFFICES ASSUME NEW i \in 1..Len(toJs'), toJs'[i].batch > 1
                  PROVE  \/ \E j \in 1..Len(toJs') :
                               /\ j < i /\ toJs'[j].id = toJs'[i].id
                               /\ toJs'[j].batch = toJs'[i].batch - 1
                         \/ /\ LastOf(delivered[toJs'[i].id]) = toJs'[i].batch - 1
                            /\ \A j \in 1..Len(toJs') : j < i => toJs'[j].id # toJs'[i].id
      BY <1>1 DEF NoGap
    <2>1. CASE i \in 1..Len(toJs)
      <3>1. toJs'[i] = toJs[i] /\ \A j \in 1..Len(toJs') : j < i => j \in 1..Len(toJs)
        BY <1>5, <2>1
      <3>. QED
        BY <1>5, <2>1, <3>1 DEF InSequence, NoGap
    <2>2. CASE i = n
      <3>1. nacl.sent > 0 /\ toJs'[i].id = nacl.id /\ toJs'[i].batch - 1 = nacl.sent
        BY <1>2, <1>4, <1>5, <2>2
      <3>2. CASE \E j \in 1..Len(toJs) : toJs[j].id = nacl.id /\ toJs[j].batch = nacl.sent
        <4>1. PICK j \in 1..Len(toJs) : toJs[j].id = nacl.id /\ toJs[j].batch = nacl.sent
          BY <3>2
        <4>2. j \in 1..Len(toJs') /\ toJs'[j] = toJs[j] /\ j < i
          BY <1>5, <2>2
        <4>. QED
          BY <3>1, <4>1, <4>2
      <3>3. CASE /\ LastOf(delivered[nacl.id]) = nacl.sent
                 /\ \A j \in 1..Len(toJs) : toJs[j].id # nacl.id
        <4>1. \A j \in 1..Len(toJs') : j < i => j \in 1..Len(toJs) /\ toJs'[j] = toJs[j]
          BY <1>5, <2>2
        <4>. QED
          BY <3>1, <3>3, <4>1
      <3>. QED
        BY <3>1, <3>2, <3>3 DEF InSequence, SentSoFar
    <2>. QED
      BY <1>5, <2>1, <2>2
  <1>10. SentSoFar'
    <2>1. CASE ~more
      <3>1. nacl'.id = NoId /\ nacl'.sent = 0
        BY <1>1, <2>1 DEF Idle
      <3>2. \A i \in 1..Len(toJs') : toJs'[i].id # NoId
        BY <1>2, <1>4, <1>5, <1>6
      <3>. QED
        BY <3>1, <3>2 DEF SentSoFar
    <2>2. CASE more
      <3>1. nacl'.id = nacl.id /\ nacl'.sent = b
        BY <1>1, <2>2 DEF IInv, TypeOK
      <3>2. \A i \in 1..Len(toJs') : toJs'[i].id = nacl'.id => toJs'[i].batch <= nacl'.sent
        <4>. TAKE i \in 1..Len(toJs')
        <4>1. CASE i = n
          BY <1>2, <1>4, <1>5, <3>1, <4>1
        <4>2. CASE i \in 1..Len(toJs)
          <5>1. /\ toJs'[i] = toJs[i] /\ toJs[i].batch \in Nat
                /\ toJs[i].id = nacl.id => toJs[i].batch <= nacl.sent
            BY <1>5, <1>6, <4>2
          <5>. QED
            BY <1>2, <3>1, <5>1
        <4>. QED
          BY <1>5, <4>1, <4>2
      <3>3. \E i \in 1..Len(toJs') : toJs'[i].id = nacl'.id /\ toJs'[i].batch = nacl'.sent
        BY <1>4, <1>5, <3>1
      <3>. QED
        BY <3>2, <3>3 DEF SentSoFar
    <2>. QED
      BY <2>1, <2>2
  <1>11. FailsAlone'
    <2>. SUFFICES ASSUME NEW i \in 1..Len(toJs'), NEW j \in 1..Len(toJs'),
                         request[toJs'[i].id].kind = "readDirectory",
                         toJs'[i].error # NoError, toJs'[j].id = toJs'[i].id
                  PROVE  j = i
      BY <1>1 DEF FailsAlone
    <2>1. i \in 1..Len(toJs) /\ toJs'[i] = toJs[i]
      BY <1>4, <1>5
    <2>2. j # n
      BY <1>4, <1>5, <1>6, <2>1
    <2>. QED
      BY <1>5, <2>1, <2>2 DEF InSequence, FailsAlone
  <1>. QED
    BY <1>7, <1>8, <1>9, <1>10, <1>11 DEF InSequence

LEMMA FailInSequence ==
    ASSUME IInv, InSequence, NEW err \in NaclErrors, NaclFail(err) PROVE InSequence'
  <1>. USE Assumptions
  <1>. DEFINE m == Reply(nacl.id, err, 0, FALSE)
              n == Len(toJs) + 1
  <1>1. /\ nacl # Idle /\ toJs' = Append(toJs, m) /\ nacl' = Idle
        /\ MayFail(nacl.id, nacl.sent)
        /\ UNCHANGED <<request, delivered>>
    BY DEF NaclFail, jsVars, appVars
  <1>2. /\ nacl.id \in Ids /\ request[nacl.id] \in Request /\ ~Answered(nacl.id)
        /\ nacl.sent \in Nat
    BY <1>1, ServedNow
  <1>3. m \in Replies /\ m.id = nacl.id /\ m.error = err /\ m.batch = 0 /\ err # NoError
    BY <1>2 DEF Reply, Replies, NaclErrors, NoError
  <1>4. /\ Len(toJs) \in Nat /\ n \in 1..Len(toJs') /\ toJs'[n] = m
        /\ \A i \in 1..Len(toJs) : i \in 1..Len(toJs') /\ toJs'[i] = toJs[i] /\ i < n
        /\ \A i \in 1..Len(toJs') : i = n \/ i \in 1..Len(toJs)
    BY <1>1, <1>3, SendExtends
  <1>5. \A i \in 1..Len(toJs) : /\ toJs[i].id \in Ids /\ toJs[i].batch \in Nat
                                /\ toJs[i].id = nacl.id => toJs[i].error = NoError
                                /\ toJs[i].error = NoError => toJs[i].batch >= 1
                                /\ toJs[i].id = nacl.id => toJs[i].batch <= nacl.sent
    <2>. TAKE i \in 1..Len(toJs)
    <2>1. toJs[i] \in Replies
      BY ReplyAwaited
    <2>. QED
      BY <1>2, <2>1, ReplyTypes DEF Answered, Ending, InSequence, SentSoFar
  <1>. HIDE DEF m
  <1>6. BatchesFit'
    BY <1>1, <1>3, <1>4 DEF InSequence, BatchesFit
  <1>7. BatchesRise'
    <2>. SUFFICES ASSUME NEW i \in 1..Len(toJs'), NEW j \in 1..Len(toJs'), i < j,
                         toJs'[i].id = toJs'[j].id, toJs'[j].error = NoError
                  PROVE  toJs'[i].batch < toJs'[j].batch
      BY DEF BatchesRise
    <2>1. j \in 1..Len(toJs) /\ i \in 1..Len(toJs)
      BY <1>3, <1>4
    <2>. QED
      BY <1>4, <2>1 DEF InSequence, BatchesRise
  <1>8. NoGap'
    <2>. SUFFICES ASSUME NEW i \in 1..Len(toJs'), toJs'[i].batch > 1
                  PROVE  \/ \E j \in 1..Len(toJs') :
                               /\ j < i /\ toJs'[j].id = toJs'[i].id
                               /\ toJs'[j].batch = toJs'[i].batch - 1
                         \/ /\ LastOf(delivered[toJs'[i].id]) = toJs'[i].batch - 1
                            /\ \A j \in 1..Len(toJs') : j < i => toJs'[j].id # toJs'[i].id
      BY <1>1 DEF NoGap
    <2>1. i \in 1..Len(toJs) /\ toJs'[i] = toJs[i]
      BY <1>3, <1>4
    <2>2. \A j \in 1..Len(toJs') : j < i => j \in 1..Len(toJs)
      BY <1>4, <2>1
    <2>. QED
      BY <1>4, <2>1, <2>2 DEF InSequence, NoGap
  <1>9. SentSoFar'
    <2>1. nacl'.id = NoId /\ nacl'.sent = 0
      BY <1>1 DEF Idle
    <2>2. \A i \in 1..Len(toJs') : toJs'[i].id # NoId
      BY <1>2, <1>3, <1>4, <1>5
    <2>. QED
      BY <2>1, <2>2 DEF SentSoFar
  <1>10. FailsAlone'
    <2>. SUFFICES ASSUME NEW i \in 1..Len(toJs'), NEW j \in 1..Len(toJs'),
                         request[toJs'[i].id].kind = "readDirectory",
                         toJs'[i].error # NoError, toJs'[j].id = toJs'[i].id
                  PROVE  j = i
      BY <1>1 DEF FailsAlone
    <2>1. CASE i = n
      <3>1. nacl.sent = 0
        BY <1>1, <1>3, <1>4, <2>1 DEF MayFail
      <3>2. \A k \in 1..Len(toJs) : toJs[k].id # nacl.id
        BY <1>5, <3>1
      <3>. QED
        BY <1>3, <1>4, <2>1, <3>2
    <2>2. CASE i \in 1..Len(toJs)
      <3>1. toJs[i].id # nacl.id
        BY <1>4, <1>5, <2>2
      <3>2. j \in 1..Len(toJs)
        BY <1>3, <1>4, <2>2, <3>1
      <3>. QED
        BY <1>4, <2>2, <3>2 DEF InSequence, FailsAlone
    <2>. QED
      BY <1>4, <2>1, <2>2
  <1>. QED
    BY <1>6, <1>7, <1>8, <1>9, <1>10 DEF InSequence

LEMMA ReceiveInSequence ==
    ASSUME IInv, InSequence, NaclReceive PROVE InSequence'
  <1>1. /\ toNacl \in Seq(Ids) /\ toNacl # <<>> /\ nacl' = [id |-> Head(toNacl), sent |-> 0]
        /\ UNCHANGED <<toJs, request, delivered>>
    BY DEF IInv, TypeOK, NaclReceive, jsVars, appVars
  <1>2. nacl'.id \in Ids /\ nacl'.sent = 0 /\ At("posted", nacl'.id)
    <2>1. Head(toNacl) \in Ids /\ Head(toNacl) = toNacl[1] /\ 1 \in 1..Len(toNacl)
      BY <1>1, TailShifts
    <2>2. nacl'.id = Head(toNacl) /\ nacl'.sent = 0
      BY <1>1
    <2>3. Posted(nacl'.id)
      BY <2>1, <2>2 DEF Posted
    <2>. QED
      BY <2>1, <2>2, <2>3, PlaceNames
  <1>3. \A i \in 1..Len(toJs) : toJs[i].id # nacl'.id
    <2>. SUFFICES ASSUME NEW i \in 1..Len(toJs), toJs[i].id = nacl'.id PROVE FALSE
      OBVIOUS
    <2>1. At("answered", nacl'.id) \/ At("served", nacl'.id)
      BY ReplyAwaited
    <2>. QED
      BY <1>2, <2>1, PlacedWaits DEF Places
  <1>. QED
    BY <1>1, <1>2, <1>3 DEF InSequence, BatchesFit, BatchesRise, NoGap, SentSoFar, FailsAlone

LEMMA InSequenceNext ==
    ASSUME IInv, InSequence, [Next]_vars PROVE InSequence'
  <1>. USE DEF jsVars, routerVars, appVars
  <1>1. ASSUME NEW what \in Request, Ask(what) PROVE InSequence'
    <2>1. nextId \notin messages
      <3>1. nextId \in Ids /\ outcome[nextId] = "unissued"
        BY <1>1, Assumptions DEF Ask, IInv, TypeOK, Issued, Ids
      <3>. QED
        BY <3>1 DEF IInv, InTable, OnePlaceEach
    <2>2. \A id \in messages : request'[id] = request[id]
      BY <1>1, <2>1 DEF Ask, IInv, TypeOK
    <2>. QED
      BY <1>1, <2>2, InSequenceKept DEF Ask
  <1>2. ASSUME NEW id \in Ids, Refuse(id) \/ Route(id) PROVE InSequence'
    BY <1>2, InSequenceKept DEF Refuse, Route
  <1>3. CASE Initialize
    BY <1>3, InSequenceKept DEF Initialize
  <1>4. CASE HandleMessage
    BY <1>4, HandleInSequence
  <1>5. CASE RunMicrotask
    BY <1>5, InSequenceKept DEF RunMicrotask, PostMessage, Resolve, RetryFn
  <1>6. CASE NaclStep
    BY <1>6, ReceiveInSequence, SendInSequence, FailInSequence DEF NaclStep
  <1>7. CASE UNCHANGED vars
    BY <1>7, InSequenceKept DEF vars
  <1>. QED
    BY <1>1, <1>2, <1>3, <1>4, <1>5, <1>6, <1>7 DEF Next

-----------------------------------------------------------------------------
(* What the Files app has been handed.                                     *)

\* A request that was not sent yet, and a listing whose first batch is still to
\* come or that is failing, has handed over nothing.
NothingYet ==
    \A id \in Ids :
        /\ outcome[id] \in {"unissued", "parked"} => delivered[id] = <<>>
        /\ request[id].kind = "readDirectory" /\ (Fresh(id) \/ ErrorOnItsWay(id) \/ Retrying(id))
             => delivered[id] = <<>>

\* The last batch of a streamed request comes with its success.
Finished ==
    \A id \in Ids : request[id].kind \in Streaming =>
        /\ LastOf(delivered[id]) <= request[id].batches
        /\ LastOf(delivered[id]) = request[id].batches
             <=> outcome[id] = "resolved" \/ Resolving(id)

\* A callback that retries carries an error of the module's.
RetriesKnown ==
    \A i \in 1..Len(microtasks) : microtasks[i].task = "retry" => microtasks[i].err \in NaclErrors

AttemptsLeft ==
    \A id \in Ids :
        /\ attempts[id] <= AttemptCount
        /\ outcome[id] \in {"unissued", "parked", "waiting", "resolved"}
             => attempts[id] < AttemptCount

\* Each attempt hands over the first batch once.
Ones(s) == {i \in 1..Len(s) : s[i] = 1}
Firsts(id) == Ones(delivered[id])
FirstsCounted ==
    \A id \in Ids :
        /\ Cardinality(Firsts(id)) <= attempts[id] + 1
        /\ Fresh(id) => Cardinality(Firsts(id)) <= attempts[id]

Told == NothingYet /\ Finished /\ RetriesKnown /\ AttemptsLeft /\ FirstsCounted

-----------------------------------------------------------------------------
(* What the queues hold after a step.                                      *)

HasId(q, id) == \E i \in 1..Len(q) : q[i] = id
HasJob(q, id, task) == \E i \in 1..Len(q) : q[i].id = id /\ q[i].task = task
ErrsKnown(q) == \A i \in 1..Len(q) : q[i].task = "retry" => q[i].err \in NaclErrors

LEMMA IdsTail ==
    ASSUME NEW q \in Seq(Ids), q # <<>>
    PROVE  Head(q) \in Ids /\ \A id : HasId(q, id) <=> HasId(Tail(q), id) \/ id = Head(q)
  <1>1. \A i \in 1..Len(q) : i # 1 => i - 1 \in 1..Len(Tail(q)) /\ q[i] = Tail(q)[i - 1]
    BY TailShifts
  <1>2. \A i \in 1..Len(Tail(q)) : i + 1 \in 1..Len(q) /\ Tail(q)[i] = q[i + 1]
    BY TailShifts
  <1>3. Head(q) = q[1] /\ 1 \in 1..Len(q) /\ Head(q) \in Ids
    BY TailShifts
  <1>. QED
    BY <1>1, <1>2, <1>3 DEF HasId

LEMMA IdsAppend ==
    ASSUME NEW q \in Seq(Ids), NEW x \in Ids
    PROVE  \A id : HasId(Append(q, x), id) <=> HasId(q, id) \/ id = x
  <1>1. /\ \A i \in 1..Len(Append(q, x)) : i \in 1..Len(q) \/ i = Len(q) + 1
        /\ \A i \in 1..Len(q) : i \in 1..Len(Append(q, x)) /\ Append(q, x)[i] = q[i]
        /\ Len(q) + 1 \in 1..Len(Append(q, x)) /\ Append(q, x)[Len(q) + 1] = x
    BY AppendExtends
  <1>. QED
    BY <1>1 DEF HasId

LEMMA JobsTail ==
    ASSUME NEW q \in Seq(Jobs), q # <<>>
    PROVE  /\ Head(q) \in Jobs /\ Tail(q) \in Seq(Jobs)
           /\ \A id, task : HasJob(q, id, task)
                              <=> \/ HasJob(Tail(q), id, task)
                                  \/ Head(q).id = id /\ Head(q).task = task
           /\ ErrsKnown(q) => /\ ErrsKnown(Tail(q))
                              /\ Head(q).task = "retry" => Head(q).err \in NaclErrors
  <1>1. \A i \in 1..Len(q) : i # 1 => i - 1 \in 1..Len(Tail(q)) /\ q[i] = Tail(q)[i - 1]
    BY TailShifts
  <1>2. \A i \in 1..Len(Tail(q)) : i + 1 \in 1..Len(q) /\ Tail(q)[i] = q[i + 1]
    BY TailShifts
  <1>3. Head(q) = q[1] /\ 1 \in 1..Len(q) /\ Head(q) \in Jobs /\ Tail(q) \in Seq(Jobs)
    BY TailShifts
  <1>4. \A id, task : HasJob(q, id, task)
                        <=> \/ HasJob(Tail(q), id, task)
                            \/ Head(q).id = id /\ Head(q).task = task
    BY <1>1, <1>2, <1>3 DEF HasJob
  <1>5. ErrsKnown(q) => /\ ErrsKnown(Tail(q))
                        /\ Head(q).task = "retry" => Head(q).err \in NaclErrors
    BY <1>2, <1>3 DEF ErrsKnown
  <1>. QED
    BY <1>3, <1>4, <1>5

LEMMA JobsAppend ==
    ASSUME NEW q \in Seq(Jobs), NEW job \in Jobs
    PROVE  /\ \A id, task : HasJob(Append(q, job), id, task)
                              <=> HasJob(q, id, task) \/ (job.id = id /\ job.task = task)
           /\ ErrsKnown(q) /\ job.task # "retry" => ErrsKnown(Append(q, job))
  <1>1. /\ \A i \in 1..Len(Append(q, job)) : i \in 1..Len(q) \/ i = Len(q) + 1
        /\ \A i \in 1..Len(q) : i \in 1..Len(Append(q, job)) /\ Append(q, job)[i] = q[i]
        /\ Len(q) + 1 \in 1..Len(Append(q, job)) /\ Append(q, job)[Len(q) + 1] = job
    BY AppendExtends
  <1>2. \A id, task : HasJob(Append(q, job), id, task)
                        <=> HasJob(q, id, task) \/ (job.id = id /\ job.task = task)
    BY <1>1 DEF HasJob
  <1>3. ErrsKnown(q) /\ job.task # "retry" => ErrsKnown(Append(q, job))
    BY <1>1 DEF ErrsKnown
  <1>. QED
    BY <1>2, <1>3

LEMMA JobsHeld ==
    /\ \A id : /\ Sending(id) <=> HasJob(microtasks, id, "send")
               /\ Retrying(id) <=> HasJob(microtasks, id, "retry")
               /\ Resolving(id) <=> HasJob(microtasks, id, "resolve")
    /\ RetriesKnown <=> ErrsKnown(microtasks)
  BY DEF Sending, Retrying, Resolving, HasJob, RetriesKnown, ErrsKnown

LEMMA JobsHeldNext ==
    /\ \A id : /\ Sending(id)' <=> HasJob(microtasks', id, "send")
               /\ Retrying(id)' <=> HasJob(microtasks', id, "retry")
               /\ Resolving(id)' <=> HasJob(microtasks', id, "resolve")
    /\ RetriesKnown' <=> ErrsKnown(microtasks')
  BY DEF Sending, Retrying, Resolving, HasJob, RetriesKnown, ErrsKnown

\* sendMessage adds a send of m, or a waiter for the module to load, and no more.
LEMMA SendAdds ==
    ASSUME IInv, NEW m \in Ids, NEW rest \in Seq(Jobs), SendMessage(m, rest)
    PROVE  /\ \A id : AwaitsModule(id)' => AwaitsModule(id) \/ id = m
           /\ \A id : HasJob(microtasks', id, "send") => HasJob(rest, id, "send") \/ id = m
           /\ \A id, task : task # "send"
                => (HasJob(microtasks', id, task) <=> HasJob(rest, id, task))
           /\ ErrsKnown(rest) => ErrsKnown(microtasks')
  <1>1. initWaiters \in Seq(Ids)
    BY DEF IInv, TypeOK
  <1>2. \A id : (AwaitsModule(id) <=> HasId(initWaiters, id))
                /\ (AwaitsModule(id)' <=> HasId(initWaiters', id))
    BY DEF AwaitsModule, HasId
  <1>3. CASE microtasks' = rest /\ UNCHANGED initWaiters
    BY <1>2, <1>3
  <1>4. CASE microtasks' = rest /\ initWaiters' = Append(initWaiters, m)
    BY <1>1, <1>2, <1>4, IdsAppend
  <1>5. CASE microtasks' = Append(rest, Job("send", m, NoError)) /\ UNCHANGED initWaiters
    <2>. DEFINE job == Job("send", m, NoError)
    <2>1. job \in Jobs /\ job.id = m /\ job.task = "send"
      BY DEF Job, Jobs
    <2>2. microtasks' = Append(rest, job)
      BY <1>5
    <2>. HIDE DEF job
    <2>. QED
      BY <1>2, <1>5, <2>1, <2>2, JobsAppend
  <1>. QED
    BY <1>3, <1>4, <1>5 DEF SendMessage

-----------------------------------------------------------------------------
(* Each step keeps what has been handed over in step.                      *)

LEMMA RepliesFrame ==
    ASSUME UNCHANGED toJs
    PROVE  \A id : /\ FirstOnItsWay(id)' <=> FirstOnItsWay(id)
                   /\ ErrorOnItsWay(id)' <=> ErrorOnItsWay(id)
  BY DEF FirstOnItsWay, ErrorOnItsWay

LEMMA JobsFrame ==
    ASSUME UNCHANGED microtasks
    PROVE  /\ \A id : /\ Retrying(id)' <=> Retrying(id)
                      /\ Resolving(id)' <=> Resolving(id)
           /\ RetriesKnown' <=> RetriesKnown
  BY DEF Retrying, Resolving, RetriesKnown

\* A step that hands nothing over and counts no attempt.
LEMMA ToldKept ==
    ASSUME Told, UNCHANGED <<request, delivered, attempts>>,
           \A id \in Ids :
              /\ Fresh(id)' => Fresh(id)
              /\ request[id].kind = "readDirectory" /\ ErrorOnItsWay(id)'
                   => ErrorOnItsWay(id) \/ Fresh(id)
              /\ Retrying(id)' => Retrying(id)
              /\ Resolving(id)' <=> Resolving(id)
              /\ \/ outcome'[id] = outcome[id]
                 \/ outcome[id] = "parked" /\ outcome'[id] \in {"waiting", "NOT_FOUND"},
           RetriesKnown'
    PROVE  Told'
  <1>1. NothingYet'
    BY DEF Told, NothingYet
  <1>2. Finished'
    BY DEF Told, Finished
  <1>3. AttemptsLeft'
    BY DEF Told, AttemptsLeft
  <1>4. FirstsCounted'
    BY DEF Told, FirstsCounted, Firsts
  <1>. QED
    BY <1>1, <1>2, <1>3, <1>4 DEF Told

LEMMA AskTold ==
    ASSUME IInv, Told, NEW what \in Request, Ask(what) PROVE Told'
  <1>. USE Assumptions
  <1>1. nextId \in Ids /\ outcome[nextId] = "unissued"
    BY DEF Ask, IInv, TypeOK, Issued, Ids
  <1>2. /\ \A id \in Ids : id # nextId => request'[id] = request[id] /\ outcome'[id] = outcome[id]
        /\ request'[nextId] = what /\ outcome'[nextId] = "parked"
        /\ UNCHANGED <<delivered, attempts, initWaiters, microtasks, toNacl, nacl, toJs>>
    BY <1>1 DEF Ask, IInv, TypeOK, routerVars
  <1>3. \A id \in Ids : Fresh(id)' => Fresh(id)
    BY <1>1, <1>2, Frame, RepliesFrame DEF Fresh
  <1>4. \A id : /\ ErrorOnItsWay(id)' <=> ErrorOnItsWay(id)
                /\ Retrying(id)' <=> Retrying(id)
                /\ Resolving(id)' <=> Resolving(id)
    BY <1>2, RepliesFrame, JobsFrame
  <1>5. delivered[nextId] = <<>>
    BY <1>1 DEF Told, NothingYet
  <1>6. ~Resolving(nextId)
    <2>1. ~At("settling", nextId)
      BY <1>1 DEF IInv, OnePlaceEach, Places
    <2>. QED
      BY <2>1, PlaceNames DEF Resolving, Settling
  <1>7. NothingYet'
    BY <1>2, <1>3, <1>4, <1>5 DEF Told, NothingYet
  <1>8. Finished'
    <2>1. LastOf(delivered[nextId]) = 0 /\ what.batches >= 1 /\ what.batches \in Nat
      BY <1>5 DEF LastOf, Request
    <2>. QED
      BY <1>2, <1>4, <1>6, <2>1 DEF Told, Finished
  <1>9. RetriesKnown'
    BY <1>2, JobsFrame DEF Told
  <1>10. AttemptsLeft'
    BY <1>1, <1>2 DEF Told, AttemptsLeft
  <1>11. FirstsCounted'
    BY <1>2, <1>3 DEF Told, FirstsCounted, Firsts
  <1>. QED
    BY <1>7, <1>8, <1>9, <1>10, <1>11 DEF Told

LEMMA RefuseTold ==
    ASSUME IInv, Told, NEW x \in Ids, Refuse(x) PROVE Told'
  <1>1. /\ outcome[x] = "parked" /\ outcome'[x] = "NOT_FOUND"
        /\ \A id \in Ids : id # x => outcome'[id] = outcome[id]
        /\ UNCHANGED <<request, delivered, attempts, initWaiters, microtasks, toNacl, nacl, toJs>>
    BY DEF Refuse, IInv, TypeOK, Issued, routerVars
  <1>2. \A id \in Ids : Fresh(id)' => Fresh(id)
    BY <1>1, Frame, RepliesFrame DEF Fresh
  <1>. QED
    BY <1>1, <1>2, RepliesFrame, JobsFrame, ToldKept DEF Told

LEMMA RouteTold ==
    ASSUME IInv, Told, NEW x \in Ids, Route(x) PROVE Told'
  <1>1. /\ outcome[x] = "parked" /\ outcome'[x] = "waiting"
        /\ \A id \in Ids : id # x => outcome'[id] = outcome[id]
        /\ UNCHANGED <<request, delivered, attempts, toNacl, nacl, toJs>>
        /\ microtasks = <<>> /\ SendMessage(x, microtasks)
    BY DEF Route, IInv, TypeOK, Issued
  <1>2. /\ \A id : AwaitsModule(id)' => AwaitsModule(id) \/ id = x
        /\ \A id : Sending(id)' => Sending(id) \/ id = x
        /\ \A id : (Retrying(id)' <=> Retrying(id)) /\ (Resolving(id)' <=> Resolving(id))
        /\ RetriesKnown'
    <2>1. microtasks \in Seq(Jobs) /\ ErrsKnown(microtasks)
      BY JobsHeld DEF IInv, TypeOK, Told
    <2>. QED
      BY <1>1, <2>1, SendAdds, JobsHeld, JobsHeldNext
  <1>3. \A id \in Ids : Fresh(id)' => Fresh(id)
    BY <1>1, <1>2, Frame, RepliesFrame DEF Fresh
  <1>. QED
    BY <1>1, <1>2, <1>3, RepliesFrame, ToldKept

LEMMA InitializeTold ==
    ASSUME IInv, Told, Initialize PROVE Told'
  <1>1. /\ UNCHANGED <<request, delivered, attempts, outcome, toNacl, nacl, toJs>>
        /\ microtasks = <<>> /\ initWaiters' = <<>> /\ Len(initWaiters) \in Nat
        /\ microtasks' = [i \in 1..Len(initWaiters) |-> Job("send", initWaiters[i], NoError)]
    BY DEF Initialize, jsVars, appVars, IInv, TypeOK
  <1>2. /\ Len(microtasks') = Len(initWaiters)
        /\ \A i \in 1..Len(initWaiters) :
              microtasks'[i].id = initWaiters[i] /\ microtasks'[i].task = "send"
    BY <1>1 DEF Job
  <1>3. /\ \A id : ~Retrying(id) /\ ~Retrying(id)' /\ ~Resolving(id) /\ ~Resolving(id)'
        /\ RetriesKnown'
    BY <1>1, <1>2 DEF Retrying, Resolving, RetriesKnown
  <1>4. \A id : (Sending(id)' => AwaitsModule(id)) /\ ~AwaitsModule(id)'
    BY <1>1, <1>2 DEF Sending, AwaitsModule
  <1>5. \A id \in Ids : Fresh(id)' => Fresh(id)
    BY <1>1, <1>4, Frame, RepliesFrame DEF Fresh
  <1>. QED
    BY <1>1, <1>3, <1>5, RepliesFrame, ToldKept

LEMMA PostMessageTold ==
    ASSUME IInv, Told, PostMessage PROVE Told'
  <1>. DEFINE job == Head(microtasks)
  <1>1. /\ UNCHANGED <<request, delivered, attempts, outcome, initWaiters, nacl, toJs>>
        /\ microtasks # <<>> /\ microtasks' = Tail(microtasks) /\ job.task = "send"
        /\ toNacl' = Append(toNacl, job.id)
        /\ microtasks \in Seq(Jobs) /\ toNacl \in Seq(Ids) /\ job.id \in Ids
    BY FirstJob DEF PostMessage, jsVars, routerVars, appVars, IInv, TypeOK
  <1>2. /\ \A id : /\ Retrying(id)' <=> Retrying(id)
                   /\ Resolving(id)' <=> Resolving(id)
                   /\ Sending(id)' => Sending(id)
        /\ Sending(job.id) /\ RetriesKnown'
    BY <1>1, JobsTail, JobsHeld, JobsHeldNext DEF Told
  <1>3. \A id : Posted(id)' => Posted(id) \/ id = job.id
    <2>1. \A id : HasId(toNacl', id) <=> HasId(toNacl, id) \/ id = job.id
      BY <1>1, IdsAppend
    <2>. QED
      BY <2>1 DEF Posted, HasId
  <1>. HIDE DEF job
  <1>4. \A id \in Ids : Fresh(id)' => Fresh(id)
    BY <1>1, <1>2, <1>3, Frame, RepliesFrame DEF Fresh
  <1>. QED
    BY <1>1, <1>2, <1>4, RepliesFrame, ToldKept

LEMMA ReceiveTold ==
    ASSUME IInv, Told, NaclReceive PROVE Told'
  <1>. DEFINE x == Head(toNacl)
  <1>1. /\ UNCHANGED <<request, delivered, attempts, outcome, initWaiters, microtasks, toJs>>
        /\ toNacl # <<>> /\ toNacl' = Tail(toNacl) /\ toNacl \in Seq(Ids)
        /\ nacl' = [id |-> x, sent |-> 0]
    BY DEF NaclReceive, jsVars, routerVars, appVars, IInv, TypeOK
  <1>2. \A id : HasId(toNacl, id) <=> HasId(toNacl', id) \/ id = x
    BY <1>1, IdsTail
  <1>3. \A id : (Posted(id)' => Posted(id)) /\ (Served(id)' => Posted(id))
    <2>1. \A id : (Posted(id) <=> HasId(toNacl, id)) /\ (Posted(id)' <=> HasId(toNacl', id))
      BY DEF Posted, HasId
    <2>2. \A id : Served(id)' <=> id = x
      BY <1>1 DEF Served
    <2>. QED
      BY <1>2, <2>1, <2>2
  <1>. HIDE DEF x
  <1>4. \A id \in Ids : Fresh(id)' => Fresh(id)
    BY <1>1, <1>3, Frame, RepliesFrame DEF Fresh
  <1>. QED
    BY <1>1, <1>4, RepliesFrame, JobsFrame, ToldKept DEF Told

\* A batch, or an error, of the request the module serves.
LEMMA SentTold ==
    ASSUME IInv, Told, nacl # Idle, NEW m \in Replies, toJs' = Append(toJs, m), m.id = nacl.id,
           UNCHANGED <<request, delivered, attempts, outcome, initWaiters, microtasks, toNacl>>,
           m.batch = 1 => nacl.sent = 0,
           m.error # NoError /\ request[m.id].kind = "readDirectory" => nacl.sent = 0,
           nacl' = Idle \/ (nacl'.id = nacl.id /\ nacl'.sent # 0)
    PROVE  Told'
  <1>1. nacl.id \in Ids /\ Served(nacl.id)
    BY ServedNow, PlaceNames
  <1>2. /\ \A i \in 1..Len(toJs) : i \in 1..Len(toJs') /\ toJs'[i] = toJs[i]
        /\ \A i \in 1..Len(toJs') : toJs'[i] = m \/ (i \in 1..Len(toJs) /\ toJs'[i] = toJs[i])
    BY SendExtends
  <1>3. \A id : FirstOnItsWay(id)' => FirstOnItsWay(id) \/ (id = m.id /\ m.batch = 1)
    BY <1>2 DEF FirstOnItsWay
  <1>4. \A id : ErrorOnItsWay(id)' => ErrorOnItsWay(id) \/ (id = m.id /\ m.error # NoError)
    BY <1>2 DEF ErrorOnItsWay
  <1>5. \A id \in Ids : ~(Served(id)' /\ nacl'.sent = 0)
    BY Assumptions DEF Served, Idle
  <1>6. \A id \in Ids : Fresh(id)' => Fresh(id)
    BY <1>1, <1>3, <1>5, Frame DEF Fresh
  <1>7. \A id \in Ids : request[id].kind = "readDirectory" /\ ErrorOnItsWay(id)'
                          => ErrorOnItsWay(id) \/ Fresh(id)
    BY <1>1, <1>4 DEF Fresh
  <1>. QED
    BY <1>6, <1>7, JobsFrame, ToldKept DEF Told

LEMMA NaclSendTold ==
    ASSUME IInv, Told, NaclSend PROVE Told'
  <1>. USE Assumptions
  <1>. DEFINE b == nacl.sent + 1
              more == b < request[nacl.id].batches
              m == Reply(nacl.id, NoError, b, more)
  <1>1. /\ nacl # Idle /\ toJs' = Append(toJs, m)
        /\ nacl' = IF more THEN [nacl EXCEPT !.sent = b] ELSE Idle
        /\ UNCHANGED <<request, delivered, attempts, outcome, initWaiters, microtasks, toNacl>>
    BY DEF NaclSend, jsVars, routerVars, appVars
  <1>2. /\ nacl.id \in Ids /\ request[nacl.id] \in Request
        /\ nacl.sent \in Nat /\ nacl.sent < request[nacl.id].batches
    BY <1>1, ServedNow
  <1>3. request[nacl.id].batches \in 1..MaxBatches
    BY <1>2 DEF Request
  <1>4. m \in Replies /\ m.id = nacl.id /\ m.error = NoError /\ m.batch = b
    <2>1. more \in BOOLEAN /\ b \in 1..MaxBatches
      BY <1>2, <1>3
    <2>. QED  BY <1>2, <2>1 DEF Reply, Replies
  <1>5. nacl' = Idle \/ (nacl'.id = nacl.id /\ nacl'.sent # 0)
    <2>1. nacl \in [id: Ids \cup {NoId}, sent: 0..MaxBatches]
      BY DEF IInv, TypeOK
    <2>2. CASE more
      <3>1. nacl'.id = nacl.id /\ nacl'.sent = b
        BY <1>1, <2>1, <2>2
      <3>. QED
        BY <1>2, <3>1
    <2>. QED
      BY <1>1, <2>2
  <1>6. m.batch = 1 => nacl.sent = 0
    BY <1>2, <1>4
  <1>. HIDE DEF m
  <1>. QED
    BY <1>1, <1>4, <1>5, <1>6, SentTold

LEMMA NaclFailTold ==
    ASSUME IInv, Told, NEW err \in NaclErrors, NaclFail(err) PROVE Told'
  <1>. DEFINE m == Reply(nacl.id, err, 0, FALSE)
  <1>1. /\ nacl # Idle /\ toJs' = Append(toJs, m) /\ nacl' = Idle
        /\ MayFail(nacl.id, nacl.sent)
        /\ UNCHANGED <<request, delivered, attempts, outcome, initWaiters, microtasks, toNacl>>
    BY DEF NaclFail, jsVars, routerVars, appVars
  <1>2. nacl.id \in Ids
    BY <1>1, ServedNow
  <1>3. m \in Replies /\ m.id = nacl.id /\ m.batch = 0
    BY <1>2 DEF Reply, Replies
  <1>4. request[m.id].kind = "readDirectory" => nacl.sent = 0
    BY <1>1, <1>3 DEF MayFail
  <1>. HIDE DEF m
  <1>. QED
    BY <1>1, <1>3, <1>4, SentTold

\* The first batches a request has handed over can be counted.
LEMMA FirstsFinite ==
    ASSUME IInv, NEW id \in Ids
    PROVE  IsFiniteSet(Firsts(id)) /\ Cardinality(Firsts(id)) \in Nat
  <1>1. Len(delivered[id]) \in Nat
    BY DEF IInv, TypeOK
  <1>2. IsFiniteSet(1..Len(delivered[id]))
    BY <1>1, FS_Interval
  <1>3. IsFiniteSet(Firsts(id))
    BY <1>2, FS_Subset DEF Firsts, Ones
  <1>. QED
    BY <1>3, FS_CardinalityType

LEMMA ResolveTold ==
    ASSUME IInv, Told, Resolve PROVE Told'
  <1>. DEFINE x == Head(microtasks).id
  <1>1. /\ UNCHANGED <<request, delivered, attempts, initWaiters, toNacl, nacl, toJs>>
        /\ microtasks # <<>> /\ microtasks' = Tail(microtasks) /\ microtasks \in Seq(Jobs)
        /\ Head(microtasks).task = "resolve" /\ x \in Ids /\ At("settling", x)
        /\ \A i \in 1..Len(microtasks') : microtasks'[i].id # x
    BY FirstJob DEF Resolve, jsVars, routerVars, IInv, TypeOK
  <1>2. outcome[x] = "waiting" /\ outcome'[x] = "resolved"
        /\ \A id \in Ids : id # x => outcome'[id] = outcome[id]
    <2>1. outcome' = [outcome EXCEPT ![x] = "resolved"]
      BY DEF Resolve
    <2>2. outcome[x] = "waiting"
      BY <1>1, PlacedWaits DEF Places
    <2>. QED
      BY <1>1, <2>1, <2>2 DEF IInv, TypeOK
  <1>3. /\ \A id : /\ Retrying(id)' => Retrying(id)
                   /\ Sending(id)' => Sending(id)
                   /\ id # x => (Resolving(id)' <=> Resolving(id))
        /\ Resolving(x) /\ RetriesKnown'
    BY <1>1, JobsTail, JobsHeld, JobsHeldNext DEF Told
  <1>. HIDE DEF x
  <1>4. \A id \in Ids : Fresh(id)' => Fresh(id)
    BY <1>1, <1>2, <1>3, Frame, RepliesFrame DEF Fresh
  <1>5. NothingYet'
    BY <1>1, <1>2, <1>3, <1>4, RepliesFrame DEF Told, NothingYet
  <1>6. Finished'
    BY <1>1, <1>2, <1>3 DEF Told, Finished
  <1>7. AttemptsLeft'
    BY <1>1, <1>2 DEF Told, AttemptsLeft
  <1>8. FirstsCounted'
    BY <1>1, <1>4 DEF Told, FirstsCounted, Firsts
  <1>. QED
    BY <1>3, <1>5, <1>6, <1>7, <1>8 DEF Told

\* What retryFn decides when the error is one of the module's.
LEMMA VerdictKnown ==
    ASSUME NEW n \in Nat, NEW err \in NaclErrors, n <= AttemptCount
    PROVE  /\ RetryVerdict(n, err) = "SEND_AGAIN" => n < AttemptCount
           /\ RetryVerdict(n, err) # "SEND_AGAIN" => RetryVerdict(n, err) \in {"FAILED", "NOT_FOUND"}
  BY Assumptions DEF RetryVerdict, NaclErrors

\* The retry at the head of the queue.
LEMMA RetryEffect ==
    ASSUME IInv, Told, RetryFn, NEW x, x = Head(microtasks).id,
           NEW verdict, verdict = RetryVerdict(attempts[x] + 1, Head(microtasks).err)
    PROVE  /\ x \in Ids /\ outcome[x] = "waiting" /\ request[x] \in Request
           /\ Retrying(x) /\ ~Resolving(x)
           /\ Tail(microtasks) \in Seq(Jobs) /\ ErrsKnown(Tail(microtasks))
           /\ \A id, task : HasJob(Tail(microtasks), id, task)
                              => HasJob(microtasks, id, task) /\ id # x
           /\ \A id, task : HasJob(microtasks, id, task) /\ id # x
                              => HasJob(Tail(microtasks), id, task)
           /\ attempts[x] \in Nat /\ attempts[x] < AttemptCount /\ attempts'[x] = attempts[x] + 1
           /\ \A id \in Ids : id # x => attempts'[id] = attempts[id]
           /\ UNCHANGED <<request, delivered, toNacl, nacl, toJs>>
           /\ verdict = "SEND_AGAIN" => /\ attempts'[x] < AttemptCount
                                        /\ SendMessage(x, Tail(microtasks)) /\ UNCHANGED outcome
           /\ verdict # "SEND_AGAIN" => /\ outcome'[x] \in {"FAILED", "NOT_FOUND"}
                                        /\ \A id \in Ids : id # x => outcome'[id] = outcome[id]
                                        /\ microtasks' = Tail(microtasks)
                                        /\ UNCHANGED initWaiters
  <1>. USE Assumptions
  <1>1. /\ microtasks # <<>> /\ Head(microtasks).task = "retry" /\ microtasks \in Seq(Jobs)
        /\ x \in Ids /\ At("settling", x) /\ Tail(microtasks) \in Seq(Jobs)
        /\ \A i \in 1..Len(Tail(microtasks)) : Tail(microtasks)[i].id # x
    BY FirstJob DEF RetryFn, IInv, TypeOK
  <1>2. outcome[x] = "waiting" /\ request[x] \in Request
    BY <1>1, PlacedWaits DEF Places
  <1>3. ErrsKnown(microtasks)
    BY JobsHeld DEF Told
  <1>4. /\ ErrsKnown(Tail(microtasks)) /\ Head(microtasks).err \in NaclErrors
        /\ \A id, task : HasJob(microtasks, id, task)
                           <=> \/ HasJob(Tail(microtasks), id, task)
                               \/ x = id /\ Head(microtasks).task = task
    BY <1>1, <1>3, JobsTail
  <1>5. \A task : ~HasJob(Tail(microtasks), x, task)
    BY <1>1 DEF HasJob
  <1>6. Retrying(x) /\ ~Resolving(x)
    BY <1>1, <1>4, <1>5, JobsHeld
  <1>7. attempts[x] \in Nat /\ attempts[x] < AttemptCount
    BY <1>1, <1>2 DEF Told, AttemptsLeft, IInv, TypeOK
  <1>8. attempts'[x] = attempts[x] + 1 /\ \A id \in Ids : id # x => attempts'[id] = attempts[id]
    BY <1>1 DEF RetryFn, IInv, TypeOK
  <1>9. UNCHANGED <<request, delivered, toNacl, nacl, toJs>>
    BY DEF RetryFn, jsVars
  <1>10. verdict = "SEND_AGAIN" => SendMessage(x, Tail(microtasks)) /\ UNCHANGED outcome
    BY DEF RetryFn
  <1>11. verdict # "SEND_AGAIN"
           => /\ outcome' = [outcome EXCEPT ![x] = verdict]
              /\ microtasks' = Tail(microtasks) /\ UNCHANGED initWaiters
    BY DEF RetryFn
  <1>12. attempts[x] + 1 \in Nat /\ attempts[x] + 1 <= AttemptCount
    BY <1>7
  <1>13. /\ verdict = "SEND_AGAIN" => attempts[x] + 1 < AttemptCount
         /\ verdict # "SEND_AGAIN" => verdict \in {"FAILED", "NOT_FOUND"}
    BY <1>4, <1>12, VerdictKnown
  <1>14. verdict # "SEND_AGAIN"
           => /\ outcome'[x] \in {"FAILED", "NOT_FOUND"}
              /\ \A id \in Ids : id # x => outcome'[id] = outcome[id]
    BY <1>1, <1>11, <1>13 DEF IInv, TypeOK
  <1>15. \A id, task : HasJob(Tail(microtasks), id, task)
                         => HasJob(microtasks, id, task) /\ id # x
    BY <1>4, <1>5
  <1>16. \A id, task : HasJob(microtasks, id, task) /\ id # x
                         => HasJob(Tail(microtasks), id, task)
    BY <1>4
  <1>. QED
    BY <1>1, <1>2, <1>4, <1>6, <1>7, <1>8, <1>9, <1>10, <1>11, <1>13, <1>14, <1>15, <1>16

LEMMA RetryTold ==
    ASSUME IInv, Told, RetryFn PROVE Told'
  <1>. USE Assumptions
  <1>. DEFINE x == Head(microtasks).id
              rest == Tail(microtasks)
              verdict == RetryVerdict(attempts[x] + 1, Head(microtasks).err)
  <1>0. Head(microtasks).id = x /\ verdict = RetryVerdict(attempts[x] + 1, Head(microtasks).err)
    OBVIOUS
  <1>1. /\ x \in Ids /\ outcome[x] = "waiting" /\ Retrying(x) /\ ~Resolving(x)
        /\ rest \in Seq(Jobs) /\ ErrsKnown(rest)
        /\ \A id, task : HasJob(rest, id, task) => HasJob(microtasks, id, task) /\ id # x
        /\ \A id, task : HasJob(microtasks, id, task) /\ id # x => HasJob(rest, id, task)
        /\ attempts[x] \in Nat /\ attempts[x] < AttemptCount /\ attempts'[x] = attempts[x] + 1
        /\ \A id \in Ids : id # x => attempts'[id] = attempts[id]
        /\ UNCHANGED <<request, delivered, toNacl, nacl, toJs>>
        /\ verdict = "SEND_AGAIN" => /\ attempts'[x] < AttemptCount
                                     /\ SendMessage(x, rest) /\ UNCHANGED outcome
        /\ verdict # "SEND_AGAIN" => /\ outcome'[x] \in {"FAILED", "NOT_FOUND"}
                                     /\ \A id \in Ids : id # x => outcome'[id] = outcome[id]
                                     /\ microtasks' = rest /\ UNCHANGED initWaiters
    BY <1>0, RetryEffect
  <1>. HIDE DEF x, rest, verdict
  <1>2. /\ \A id : AwaitsModule(id)' => AwaitsModule(id) \/ id = x
        /\ \A id : HasJob(microtasks', id, "send") => HasJob(rest, id, "send") \/ id = x
        /\ \A id, task : task # "send"
             => (HasJob(microtasks', id, task) <=> HasJob(rest, id, task))
        /\ ErrsKnown(microtasks')
    <2>1. CASE verdict = "SEND_AGAIN"
      BY <1>1, <2>1, SendAdds
    <2>2. CASE verdict # "SEND_AGAIN"
      BY <1>1, <2>2, Frame
    <2>. QED
      BY <2>1, <2>2
  <1>3. /\ \A id : /\ Retrying(id)' => Retrying(id) /\ id # x
                   /\ Sending(id)' => Sending(id) \/ id = x
                   /\ Resolving(id)' <=> Resolving(id)
        /\ RetriesKnown'
    BY <1>1, <1>2, JobsHeld, JobsHeldNext
  <1>4. \A id \in Ids : outcome'[id] \in {"unissued", "parked"} => outcome[id] = outcome'[id]
    BY <1>1
  <1>5. \A id \in Ids : Fresh(id)' => Fresh(id) \/ id = x
    BY <1>1, <1>2, <1>3, <1>4, Frame, RepliesFrame DEF Fresh
  <1>6. NothingYet'
    BY <1>1, <1>3, <1>4, <1>5, RepliesFrame DEF Told, NothingYet
  <1>7. Finished'
    <2>1. \A id \in Ids : outcome'[id] = "resolved" <=> outcome[id] = "resolved"
      BY <1>1
    <2>. QED
      BY <1>1, <1>3, <2>1 DEF Told, Finished
  <1>8. AttemptsLeft'
    <2>. SUFFICES ASSUME NEW id \in Ids
                  PROVE  /\ attempts'[id] <= AttemptCount
                         /\ outcome'[id] \in {"unissued", "parked", "waiting", "resolved"}
                              => attempts'[id] < AttemptCount
      BY DEF AttemptsLeft
    <2>1. CASE id = x
      BY <1>1, <2>1
    <2>2. CASE id # x
      <3>1. attempts'[id] = attempts[id] /\ outcome'[id] = outcome[id]
        BY <1>1, <2>2
      <3>. QED
        BY <3>1 DEF Told, AttemptsLeft
    <2>. QED
      BY <2>1, <2>2
  <1>9. FirstsCounted'
    <2>. SUFFICES ASSUME NEW id \in Ids
                  PROVE  /\ Cardinality(Firsts(id)) <= attempts'[id] + 1
                         /\ Fresh(id)' => Cardinality(Firsts(id)) <= attempts'[id]
      BY <1>1 DEF FirstsCounted, Firsts
    <2>1. CASE id = x
      <3>1. Cardinality(Firsts(x)) \in Nat /\ Cardinality(Firsts(x)) <= attempts[x] + 1
        BY <1>1, FirstsFinite DEF Told, FirstsCounted
      <3>. QED
        BY <1>1, <2>1, <3>1
    <2>2. CASE id # x
      BY <1>1, <1>5, <2>2 DEF Told, FirstsCounted
    <2>. QED
      BY <2>1, <2>2
  <1>. QED
    BY <1>3, <1>6, <1>7, <1>8, <1>9 DEF Told

\* Handing over a batch adds to the first batches only when it is one.
LEMMA FirstsGrow ==
    ASSUME NEW s \in Seq(1..MaxBatches), NEW b \in 1..MaxBatches, IsFiniteSet(Ones(s))
    PROVE  Cardinality(Ones(Append(s, b))) = IF b = 1 THEN Cardinality(Ones(s)) + 1
                                                      ELSE Cardinality(Ones(s))
  <1>. DEFINE t == Append(s, b)
  <1>1. /\ Len(t) = Len(s) + 1 /\ Len(s) \in Nat /\ t[Len(s) + 1] = b
        /\ \A i \in 1..Len(s) : t[i] = s[i]
    BY AppendExtends
  <1>. HIDE DEF t
  <1>2. Len(s) + 1 \notin Ones(s)
    BY <1>1 DEF Ones
  <1>3. CASE b = 1
    <2>1. Ones(t) = Ones(s) \cup {Len(s) + 1}
      BY <1>1, <1>3 DEF Ones
    <2>. QED
      BY <1>2, <1>3, <2>1, FS_AddElement DEF t
  <1>4. CASE b # 1
    <2>1. Ones(t) = Ones(s)
      BY <1>1, <1>4 DEF Ones
    <2>. QED
      BY <1>4, <2>1 DEF t
  <1>. QED
    BY <1>3, <1>4

LEMMA HandleTold ==
    ASSUME IInv, InSequence, Told, HandleMessage,
           NEW m, m = Head(toJs), NEW x, x = m.id
    PROVE  Told'
  <1>. USE Assumptions
  <1>1. /\ m \in Replies /\ x \in Ids /\ 1 \in 1..Len(toJs) /\ toJs[1] = m
        /\ \A i \in 1..Len(toJs') : i + 1 \in 1..Len(toJs) /\ toJs'[i] = toJs[i + 1]
        /\ UNCHANGED <<request, nacl, initWaiters, toNacl, attempts, outcome>>
        /\ outcome[x] = "waiting" /\ microtasks = <<>>
        /\ microtasks' = IF m.error # NoError THEN <<Job("retry", x, m.error)>>
                         ELSE IF ~m.hasMore THEN <<Job("resolve", x, NoError)>>
                         ELSE <<>>
    BY HandleEffect DEF jsVars
  <1>2. /\ \A id \in Ids : id # x => delivered'[id] = delivered[id]
        /\ m.error # NoError \/ request[x].kind \notin Streaming => delivered' = delivered
        /\ m.error = NoError /\ request[x].kind \in Streaming
                => /\ delivered'[x] = Append(delivered[x], m.batch)
                   /\ delivered[x] \in Seq(1..MaxBatches) /\ m.batch \in 1..MaxBatches
                   /\ LastOf(delivered'[x]) = m.batch
    BY HandedOver
  <1>3. /\ m.error = NoError => m.batch \in 1..MaxBatches
        /\ m.error # NoError => m.error \in NaclErrors
    BY <1>1, ReplyTypes
  <1>4. \A id : ~Sending(id) /\ ~Retrying(id) /\ ~Resolving(id)
    BY <1>1 DEF Sending, Retrying, Resolving
  <1>5. /\ \A id : /\ Retrying(id)' <=> id = x /\ m.error # NoError
                   /\ Resolving(id)' <=> id = x /\ m.error = NoError /\ ~m.hasMore
                   /\ ~Sending(id)'
        /\ RetriesKnown'
    <2>1. CASE m.error # NoError
      <3>1. /\ Len(microtasks') = 1 /\ microtasks'[1].id = x /\ microtasks'[1].task = "retry"
            /\ microtasks'[1].err = m.error
        BY <1>1, <2>1 DEF Job
      <3>. QED
        BY <1>3, <2>1, <3>1 DEF Sending, Retrying, Resolving, RetriesKnown
    <2>2. CASE m.error = NoError /\ ~m.hasMore
      <3>1. /\ Len(microtasks') = 1 /\ microtasks'[1].id = x /\ microtasks'[1].task = "resolve"
        BY <1>1, <2>2 DEF Job
      <3>. QED
        BY <2>2, <3>1 DEF Sending, Retrying, Resolving, RetriesKnown
    <2>3. CASE m.error = NoError /\ m.hasMore
      <3>1. microtasks' = <<>>
        BY <1>1, <2>3
      <3>. QED
        BY <2>3, <3>1 DEF Sending, Retrying, Resolving, RetriesKnown
    <2>. QED
      BY <2>1, <2>2, <2>3
  <1>6. \A id : FirstOnItsWay(id)' => FirstOnItsWay(id)
    BY <1>1 DEF FirstOnItsWay
  <1>7. \A id : ErrorOnItsWay(id)' => ErrorOnItsWay(id)
    BY <1>1 DEF ErrorOnItsWay
  <1>8. \A id \in Ids : Fresh(id)' => Fresh(id)
    BY <1>1, <1>5, <1>6, Frame DEF Fresh
  <1>9. m.error = NoError => ~Fresh(x)'
    <2>. SUFFICES ASSUME m.error = NoError PROVE ~Fresh(x)'
      OBVIOUS
    <2>1. At("answered", x) \/ At("served", x)
      BY <1>1, ReplyAwaited
    <2>2. ~AwaitsModule(x) /\ ~Posted(x)
      BY <1>1, <2>1, PlacedWaits, PlaceNames DEF Places
    <2>3. Served(x) => nacl.sent # 0
      <3>. SUFFICES ASSUME Served(x) PROVE nacl.sent # 0
        OBVIOUS
      <3>1. m.batch <= nacl.sent
        BY <1>1 DEF Served, InSequence, SentSoFar
      <3>. QED
        BY <1>3, <3>1
    <2>4. ~FirstOnItsWay(x)'
      <3>. SUFFICES ASSUME NEW i \in 1..Len(toJs'), toJs'[i].id = x, toJs'[i].batch = 1
                    PROVE  FALSE
        BY <1>1 DEF FirstOnItsWay
      <3>1. /\ i + 1 \in 1..Len(toJs) /\ 1 < i + 1
            /\ toJs[i + 1].id = toJs[1].id /\ toJs[i + 1].batch = 1
        BY <1>1
      <3>2. toJs[i + 1] \in Replies
        BY <3>1, ReplyAwaited
      <3>3. toJs[i + 1].error = NoError
        BY <3>1, <3>2, ReplyTypes
      <3>4. m.batch < 1
        BY <1>1, <3>1, <3>3 DEF InSequence, BatchesRise
      <3>. QED
        BY <1>3, <3>4
    <2>5. (AwaitsModule(x)' => AwaitsModule(x)) /\ (Posted(x)' => Posted(x))
          /\ (Served(x)' => Served(x))
      BY <1>1, Frame
    <2>. QED
      BY <1>1, <1>5, <2>2, <2>3, <2>4, <2>5 DEF Fresh
  <1>10. request[x].kind = "readDirectory" /\ m.error = NoError => ~ErrorOnItsWay(x)'
    <2>. SUFFICES ASSUME request[x].kind = "readDirectory", m.error = NoError,
                         NEW i \in 1..Len(toJs'), toJs'[i].id = x, toJs'[i].error # NoError
                  PROVE  FALSE
      BY <1>1 DEF ErrorOnItsWay
    <2>1. /\ i + 1 \in 1..Len(toJs) /\ toJs[i + 1].id = x /\ toJs[i + 1].error # NoError
      BY <1>1
    <2>2. 1 = i + 1
      BY <1>1, <2>1 DEF InSequence, FailsAlone
    <2>. QED
      BY <2>2
  <1>11. m.error # NoError => ErrorOnItsWay(x)
    BY <1>1 DEF ErrorOnItsWay
  <1>12. NothingYet'
    <2>. SUFFICES ASSUME NEW id \in Ids
                  PROVE  /\ outcome[id] \in {"unissued", "parked"} => delivered'[id] = <<>>
                         /\ request[id].kind = "readDirectory"
                            /\ (Fresh(id)' \/ ErrorOnItsWay(id)' \/ Retrying(id)')
                              => delivered'[id] = <<>>
      BY <1>1 DEF NothingYet
    <2>1. CASE id # x
      BY <1>2, <1>5, <1>7, <1>8, <2>1 DEF Told, NothingYet
    <2>2. CASE id = x /\ m.error = NoError
      BY <1>1, <1>5, <1>9, <1>10, <2>2
    <2>3. CASE id = x /\ m.error # NoError
      BY <1>1, <1>2, <1>11, <2>3 DEF Told, NothingYet
    <2>. QED
      BY <2>1, <2>2, <2>3
  <1>13. Finished'
    <2>. SUFFICES ASSUME NEW id \in Ids, request[id].kind \in Streaming
                  PROVE  /\ LastOf(delivered'[id]) <= request[id].batches
                         /\ LastOf(delivered'[id]) = request[id].batches
                              <=> outcome[id] = "resolved" \/ Resolving(id)'
      BY <1>1 DEF Finished
    <2>1. CASE id # x
      BY <1>2, <1>4, <1>5, <2>1 DEF Told, Finished
    <2>2. CASE id = x /\ m.error = NoError
      <3>1. /\ m.batch <= request[x].batches
            /\ m.hasMore <=> m.batch < request[x].batches
        BY <1>1, <2>2 DEF InSequence, BatchesFit
      <3>2. m.batch \in 1..MaxBatches /\ LastOf(delivered'[x]) = m.batch
        BY <1>2, <2>2
      <3>3. request[x].batches \in 1..MaxBatches
        BY <1>1, HandleEffect DEF Request
      <3>. QED
        BY <1>1, <1>5, <2>2, <3>1, <3>2, <3>3
    <2>3. CASE id = x /\ m.error # NoError
      BY <1>2, <1>4, <1>5, <2>3 DEF Told, Finished
    <2>. QED
      BY <2>1, <2>2, <2>3
  <1>14. AttemptsLeft'
    BY <1>1 DEF Told, AttemptsLeft
  <1>15. FirstsCounted'
    <2>. SUFFICES ASSUME NEW id \in Ids
                  PROVE  /\ Cardinality(Firsts(id)') <= attempts[id] + 1
                         /\ Fresh(id)' => Cardinality(Firsts(id)') <= attempts[id]
      BY <1>1 DEF FirstsCounted
    <2>1. /\ Cardinality(Firsts(id)) <= attempts[id] + 1
          /\ Fresh(id) => Cardinality(Firsts(id)) <= attempts[id]
      BY DEF Told, FirstsCounted
    <2>2. CASE delivered'[id] = delivered[id]
      <3>1. Firsts(id)' = Firsts(id)
        BY <2>2 DEF Firsts
      <3>. QED
        BY <1>8, <2>1, <3>1
    <2>3. CASE id = x /\ m.error = NoError /\ request[x].kind \in Streaming
      <3>1. Cardinality(Firsts(x)') = IF m.batch = 1 THEN Cardinality(Firsts(x)) + 1
                                                     ELSE Cardinality(Firsts(x))
        <4>1. IsFiniteSet(Firsts(x))
          BY <1>1, FirstsFinite
        <4>2. delivered[x] \in Seq(1..MaxBatches) /\ m.batch \in 1..MaxBatches
              /\ delivered'[x] = Append(delivered[x], m.batch)
          BY <1>2, <2>3
        <4>3. Firsts(x) = Ones(delivered[x]) /\ Firsts(x)' = Ones(delivered'[x])
          BY DEF Firsts
        <4>. QED
          BY <4>1, <4>2, <4>3, FirstsGrow
      <3>2. m.batch = 1 => Fresh(x)
        BY <1>1 DEF Fresh, FirstOnItsWay
      <3>3. Cardinality(Firsts(x)) \in Nat /\ attempts[x] \in Nat
        BY <1>1, FirstsFinite DEF IInv, TypeOK
      <3>. QED
        BY <1>9, <2>1, <2>3, <3>1, <3>2, <3>3
    <2>. QED
      BY <1>2, <2>2, <2>3
  <1>. QED
    BY <1>5, <1>12, <1>13, <1>14, <1>15 DEF Told

LEMMA ToldNext ==
    ASSUME IInv, InSequence, Told, [Next]_vars PROVE Told'
  <1>1. ASSUME NEW what \in Request, Ask(what) PROVE Told'
    BY <1>1, AskTold
  <1>2. ASSUME NEW id \in Ids, Refuse(id) PROVE Told'
    BY <1>2, RefuseTold
  <1>3. ASSUME NEW id \in Ids, Route(id) PROVE Told'
    BY <1>3, RouteTold
  <1>4. CASE Initialize
    BY <1>4, InitializeTold
  <1>5. CASE HandleMessage
    BY <1>5, HandleTold
  <1>6. CASE RunMicrotask
    BY <1>6, PostMessageTold, ResolveTold, RetryTold DEF RunMicrotask
  <1>7. CASE NaclStep
    BY <1>7, ReceiveTold, NaclSendTold, NaclFailTold DEF NaclStep
  <1>8. CASE UNCHANGED vars
    <2>. USE <1>8 DEF vars, jsVars, routerVars, appVars
    <2>1. \A id \in Ids : Fresh(id)' => Fresh(id)
      BY Frame, RepliesFrame DEF Fresh
    <2>. QED
      BY <2>1, RepliesFrame, JobsFrame, ToldKept DEF Told
  <1>. QED
    BY <1>1, <1>2, <1>3, <1>4, <1>5, <1>6, <1>7, <1>8 DEF Next

-----------------------------------------------------------------------------
(* The attempts, and the promise of RequestStream.                         *)

\* The batches on their way and those handed over stay in step.
THEOREM BatchesInStep == Spec => [](IInv /\ InSequence /\ Told)
  <1>1. Init => IInv /\ InSequence /\ Told
    <2>. SUFFICES ASSUME Init PROVE IInv /\ InSequence /\ Told
      OBVIOUS
    <2>. USE Assumptions
    <2>1. InSequence
      BY DEF Init, InSequence, BatchesFit, BatchesRise, NoGap, SentSoFar, FailsAlone, Idle
    <2>2. NothingYet /\ Finished /\ RetriesKnown
      BY DEF Init, NothingYet, Finished, RetriesKnown, Resolving, Unissued, Streaming
    <2>3. AttemptsLeft
      BY DEF Init, AttemptsLeft
    <2>4. FirstsCounted
      <3>. SUFFICES ASSUME NEW id \in Ids PROVE Cardinality(Firsts(id)) = 0 /\ attempts[id] = 0
        BY DEF FirstsCounted
      <3>1. Firsts(id) = {} /\ attempts[id] = 0
        BY DEF Init, Firsts, Ones
      <3>. QED
        BY <3>1, FS_EmptySet
    <2>. QED
      BY <2>1, <2>2, <2>3, <2>4, InitIInv DEF Told
  <1>2. IInv /\ InSequence /\ Told /\ IInv' /\ [Next]_vars => (InSequence /\ Told)'
    BY InSequenceNext, ToldNext
  <1>3. Spec => []IInv
    BY Invariance
  <1>. QED
    BY <1>1, <1>2, <1>3, PTL DEF Spec

\* The attempts add up: a request that waits or succeeded has one left, none has
\* more than getRetryingPromise was told, and a file read that hands over its first
\* batch again has failed before.
THEOREM AttemptsCounted == Spec => []AttemptsAddUp
  <1>1. IInv /\ Told => AttemptsAddUp
    BY DEF Told, AttemptsLeft, FirstsCounted, Firsts, Ones, AttemptsAddUp
  <1>. QED
    BY <1>1, BatchesInStep, PTL

\* The status RequestStream gives a request: parked or sent, it waits.
Status == [id \in Ids |-> IF outcome[id] = "parked" THEN "waiting" ELSE outcome[id]]

LEMMA StatusChanges ==
    ASSUME NEW x \in Ids, NEW v, outcome'[x] = v,
           \A id \in Ids : id # x => outcome'[id] = outcome[id]
    PROVE  Status' = [Status EXCEPT ![x] = IF v = "parked" THEN "waiting" ELSE v]
  BY DEF Status

LEMMA InitStream == Init => Stream!Init
  BY DEF Init, Stream!Init, Unissued, Stream!Unissued

LEMMA AskStream ==
    ASSUME IInv, Told, NEW what \in Request, Ask(what) PROVE Stream!Next
  <1>1. nextId \in Ids /\ outcome[nextId] = "unissued"
    BY Assumptions DEF Ask, IInv, TypeOK, Issued, Ids
  <1>2. /\ request' = [request EXCEPT ![nextId] = what] /\ UNCHANGED delivered
        /\ outcome' = [outcome EXCEPT ![nextId] = "parked"]
    BY DEF Ask
  <1>3. Status[nextId] = "unissued" /\ Status' = [Status EXCEPT ![nextId] = "waiting"]
    BY <1>1, <1>2, StatusChanges DEF Status, IInv, TypeOK
  <1>4. Stream!Issue(nextId, what)
    BY <1>2, <1>3 DEF Stream!Issue, Status
  <1>5. what \in Stream!Request
    BY DEF Request, Streaming, Stream!Request, Stream!Streaming
  <1>. QED
    BY <1>1, <1>4, <1>5 DEF Stream!Next

LEMMA RequestBatches ==
    ASSUME NEW r \in Request \cup {Unissued}
    PROVE  r.batches \in Nat /\ (r \in Request => r.batches \in 1..MaxBatches)
  <1>1. CASE r \in [kind: {"plain"}, batches: {1}]
    <2>1. r.batches = 1
      BY <1>1
    <2>. QED
      BY <2>1, Assumptions
  <1>2. CASE r \in [kind: Streaming, batches: 1..MaxBatches]
    <2>1. r.batches \in 1..MaxBatches
      BY <1>2
    <2>. QED
      BY <2>1, Assumptions
  <1>3. CASE r = Unissued
    <2>1. r.batches = 0 /\ r.kind = "none"
      BY <1>3 DEF Unissued
    <2>2. r \notin Request
      BY <2>1 DEF Request, Streaming
    <2>. QED
      BY <2>1, <2>2
  <1>. QED
    BY <1>1, <1>2, <1>3 DEF Request

\* Any error of a request that waits and has not finished.
LEMMA RejectStream ==
    ASSUME IInv, Told, NEW x \in Ids, outcome[x] \in {"parked", "waiting"}, ~Resolving(x),
           outcome[x] = "parked" \/ Retrying(x),
           NEW err \in {"FAILED", "NOT_FOUND"}, outcome'[x] = err,
           \A id \in Ids : id # x => outcome'[id] = outcome[id],
           UNCHANGED <<request, delivered>>
    PROVE  Stream!Next
  <1>1. Status[x] = "waiting" /\ Status' = [Status EXCEPT ![x] = err]
    BY StatusChanges DEF Status
  <1>2. request[x].kind = "readDirectory" => delivered[x] = <<>>
    BY DEF Told, NothingYet
  <1>3. request[x].kind = "readFile" => LastOf(delivered[x]) < request[x].batches
    <2>. SUFFICES ASSUME request[x].kind = "readFile"
                  PROVE  LastOf(delivered[x]) < request[x].batches
      OBVIOUS
    <2>1. /\ LastOf(delivered[x]) <= request[x].batches
          /\ LastOf(delivered[x]) # request[x].batches
      BY DEF Told, Finished, Streaming
    <2>2. LastOf(delivered[x]) \in Nat
      <3>1. delivered[x] \in Seq(1..MaxBatches)
        BY DEF IInv, TypeOK
      <3>. QED
        BY <3>1, Assumptions DEF LastOf
    <2>3. request[x].batches \in Nat
      <3>1. request[x] \in Request \cup {Unissued}
        BY DEF IInv, TypeOK
      <3>. QED
        BY <3>1, RequestBatches
    <2>. QED
      BY <2>1, <2>2, <2>3
  <1>4. Stream!LastBatch(x) = LastOf(delivered[x])
    BY DEF Stream!LastBatch, LastOf
  <1>5. Stream!Reject(x, err)
    BY <1>1, <1>2, <1>3, <1>4 DEF Stream!Reject, Status
  <1>. QED
    BY <1>5 DEF Stream!Next

LEMMA RefuseStream ==
    ASSUME IInv, Told, NEW x \in Ids, Refuse(x) PROVE Stream!Next
  <1>1. /\ outcome[x] = "parked" /\ outcome'[x] = "NOT_FOUND" /\ microtasks = <<>>
        /\ \A id \in Ids : id # x => outcome'[id] = outcome[id]
        /\ UNCHANGED <<request, delivered>>
    BY DEF Refuse, IInv, TypeOK, Issued
  <1>2. ~Resolving(x)
    BY <1>1 DEF Resolving
  <1>. QED
    BY <1>1, <1>2, RejectStream

LEMMA RouteStream ==
    ASSUME IInv, NEW x \in Ids, Route(x) PROVE UNCHANGED Stream!vars
  <1>1. /\ outcome[x] = "parked" /\ outcome' = [outcome EXCEPT ![x] = "waiting"]
        /\ UNCHANGED <<request, delivered>>
    BY DEF Route, IInv, Issued
  <1>2. Status' = Status
    BY <1>1 DEF Status, IInv, TypeOK
  <1>. QED
    BY <1>1, <1>2 DEF Stream!vars, Status

LEMMA ResolveStream ==
    ASSUME IInv, Told, Resolve, NEW x, x = Head(microtasks).id PROVE Stream!Next
  <1>1. /\ microtasks # <<>> /\ microtasks \in Seq(Jobs) /\ Head(microtasks).task = "resolve"
        /\ x \in Ids /\ At("settling", x)
        /\ outcome' = [outcome EXCEPT ![x] = "resolved"] /\ UNCHANGED <<request, delivered>>
    BY FirstJob DEF Resolve, jsVars, IInv, TypeOK
  <1>2. outcome[x] = "waiting"
    BY <1>1, PlacedWaits DEF Places
  <1>3. Resolving(x)
    BY <1>1, JobsTail, JobsHeld
  <1>4. Status[x] = "waiting" /\ Status' = [Status EXCEPT ![x] = "resolved"]
    BY <1>1, <1>2, StatusChanges DEF Status, IInv, TypeOK
  <1>5. request[x].kind \in Streaming => LastOf(delivered[x]) = request[x].batches
    BY <1>1, <1>3 DEF Told, Finished
  <1>6. Stream!Resolve(x)
    BY <1>1, <1>4, <1>5
    DEF Stream!Resolve, Stream!LastBatch, LastOf, Status, Streaming, Stream!Streaming
  <1>. QED
    BY <1>1, <1>6 DEF Stream!Next

LEMMA RetryStream ==
    ASSUME IInv, Told, RetryFn, NEW x, x = Head(microtasks).id
    PROVE  Stream!Next \/ UNCHANGED Stream!vars
  <1>. DEFINE verdict == RetryVerdict(attempts[x] + 1, Head(microtasks).err)
  <1>1. /\ x \in Ids /\ outcome[x] = "waiting" /\ Retrying(x) /\ ~Resolving(x)
        /\ UNCHANGED <<request, delivered>>
        /\ verdict = "SEND_AGAIN" => UNCHANGED outcome
        /\ verdict # "SEND_AGAIN" => /\ outcome'[x] \in {"FAILED", "NOT_FOUND"}
                                     /\ \A id \in Ids : id # x => outcome'[id] = outcome[id]
    BY RetryEffect
  <1>. HIDE DEF verdict
  <1>2. CASE verdict = "SEND_AGAIN"
    BY <1>1, <1>2 DEF Stream!vars
  <1>3. CASE verdict # "SEND_AGAIN"
    BY <1>1, <1>3, RejectStream
  <1>. QED
    BY <1>2, <1>3

LEMMA HandleStream ==
    ASSUME IInv, InSequence, Told, HandleMessage, NEW m, m = Head(toJs), NEW x, x = m.id
    PROVE  Stream!Next \/ UNCHANGED Stream!vars
  <1>1. /\ m \in Replies /\ x \in Ids /\ 1 \in 1..Len(toJs) /\ toJs[1] = m
        /\ UNCHANGED <<request, outcome>>
        /\ outcome[x] = "waiting" /\ microtasks = <<>> /\ request[x] \in Request
        /\ delivered' = IF m.error = NoError /\ request[x].kind \in Streaming
                          THEN [delivered EXCEPT ![x] = Append(@, m.batch)]
                          ELSE delivered
    BY HandleEffect DEF jsVars
  <1>2. CASE ~(m.error = NoError /\ request[x].kind \in Streaming)
    BY <1>1, <1>2 DEF Stream!vars
  <1>3. CASE m.error = NoError /\ request[x].kind \in Streaming
    <2>1. m.batch \in 1..MaxBatches /\ m.batch <= request[x].batches
      BY <1>1, <1>3, ReplyTypes DEF InSequence, BatchesFit
    <2>2. request[x].batches \in 1..MaxBatches
      BY <1>1, RequestBatches
    <2>3. m.batch > 1 => LastOf(delivered[x]) = m.batch - 1
      BY <1>1 DEF InSequence, NoGap
    <2>4. m.batch = 1 => LastOf(delivered[x]) = 0 \/ request[x].kind = "readFile"
      <3>. SUFFICES ASSUME m.batch = 1, request[x].kind = "readDirectory"
                    PROVE  LastOf(delivered[x]) = 0
        BY <1>3 DEF Streaming
      <3>1. Fresh(x)
        BY <1>1 DEF Fresh, FirstOnItsWay
      <3>. QED
        BY <1>1, <3>1 DEF Told, NothingYet, LastOf
    <2>5. LastOf(delivered[x]) < request[x].batches
      <3>1. LastOf(delivered[x]) \in Nat
        <4>1. delivered[x] \in Seq(1..MaxBatches)
          BY <1>1 DEF IInv, TypeOK
        <4>. QED
          BY <4>1, Assumptions DEF LastOf
      <3>2. ~Resolving(x)
        BY <1>1 DEF Resolving
      <3>3. /\ LastOf(delivered[x]) <= request[x].batches
            /\ LastOf(delivered[x]) # request[x].batches
        BY <1>1, <1>3, <3>2 DEF Told, Finished
      <3>. QED
        BY <2>2, <3>1, <3>3
    <2>6. m.batch = LastOf(delivered[x]) + 1 \/ (m.batch = 1 /\ request[x].kind = "readFile")
      BY <2>1, <2>3, <2>4
    <2>7. Status[x] = "waiting" /\ Status' = Status
      BY <1>1 DEF Status
    <2>8. Stream!Deliver(x, m.batch)
      BY <1>1, <1>3, <2>5, <2>6, <2>7
      DEF Stream!Deliver, Stream!LastBatch, LastOf, Status, Streaming, Stream!Streaming
    <2>. QED
      BY <1>1, <2>1, <2>8 DEF Stream!Next
  <1>. QED
    BY <1>2, <1>3

\* The router, the retries and the native module implement RequestStream: every
\* step is a step of the abstract stream of one request, or is not seen by it.
THEOREM StreamImplemented == Spec => KeepsPromise
  <1>1. Init => Stream!Init
    BY InitStream
  <1>2. IInv /\ InSequence /\ Told /\ [Next]_vars => [Stream!Next]_(Stream!vars)
    <2>. SUFFICES ASSUME IInv, InSequence, Told, [Next]_vars
                  PROVE  Stream!Next \/ UNCHANGED Stream!vars
      OBVIOUS
    <2>1. ASSUME NEW what \in Request, Ask(what) PROVE Stream!Next
      BY <2>1, AskStream
    <2>2. ASSUME NEW id \in Ids, Refuse(id) PROVE Stream!Next
      BY <2>2, RefuseStream
    <2>3. ASSUME NEW id \in Ids, Route(id) PROVE UNCHANGED Stream!vars
      BY <2>3, RouteStream
    <2>4. CASE HandleMessage
      BY <2>4, HandleStream
    <2>5. CASE RunMicrotask
      <3>1. CASE PostMessage
        BY <3>1 DEF PostMessage, jsVars, appVars, Stream!vars
      <3>. QED
        BY <2>5, <3>1, ResolveStream, RetryStream DEF RunMicrotask
    <2>6. CASE Initialize \/ NaclStep \/ UNCHANGED vars
      <3>1. UNCHANGED <<request, outcome, delivered>>
        BY <2>6 DEF Initialize, NaclStep, NaclReceive, NaclSend, NaclFail, vars, jsVars, appVars
      <3>. QED
        BY <3>1 DEF Stream!vars
    <2>. QED
      BY <2>1, <2>2, <2>3, <2>4, <2>5, <2>6 DEF Next
  <1>. QED
    BY <1>1, <1>2, BatchesInStep, PTL DEF Spec, KeepsPromise, Stream!Spec
=============================================================================
