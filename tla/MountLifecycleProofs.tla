------------------------ MODULE MountLifecycleProofs ------------------------
(***************************************************************************)
(* Proofs about MountLifecycle for any shares and keys, any calls that may *)
(* fail, and any number of mounts, requests and restarts.                  *)
(***************************************************************************)
EXTENDS MountLifecycle, Queues, FiniteSetTheorems

-----------------------------------------------------------------------------
(* The order in which populateMounts_ meets the shares.                    *)

\* The calls that unmount the shares of S, in the order o.
BootUnmounts(o) == [i \in DOMAIN o |-> Call("boot unmount", o[i])]

LEMMA OrdersList ==
    ASSUME NEW S \in SUBSET Shares, NEW o \in Orders(S)
    PROVE  /\ BootUnmounts(o) \in Seq(FspCalls)
           /\ DOMAIN o = 1..Len(BootUnmounts(o))
           /\ \A i \in DOMAIN o : o[i] \in S /\ BootUnmounts(o)[i] = Call("boot unmount", o[i])
           /\ \A i, j \in DOMAIN o : o[i] = o[j] => i = j
  <1>1. Cardinality(S) \in Nat
    BY SharesAssumption, FS_Subset, FS_CardinalityType
  <1>2. o \in [1..Cardinality(S) -> S] /\ \A i, j \in DOMAIN o : o[i] = o[j] => i = j
    BY DEF Orders
  <1>3. \A i \in DOMAIN o : o[i] \in S /\ Call("boot unmount", o[i]) \in FspCalls
    BY <1>2 DEF Call, FspCalls, FspOps
  <1>4. BootUnmounts(o) \in [1..Cardinality(S) -> FspCalls]
    BY <1>2, <1>3 DEF BootUnmounts
  <1>5. BootUnmounts(o) \in Seq(FspCalls) /\ Len(BootUnmounts(o)) = Cardinality(S)
    <2>. HIDE DEF BootUnmounts
    <2>. QED  BY <1>1, <1>4
  <1>6. \A i \in DOMAIN o : BootUnmounts(o)[i] = Call("boot unmount", o[i])
    BY DEF BootUnmounts
  <1>. QED
    BY <1>2, <1>3, <1>5, <1>6

-----------------------------------------------------------------------------
(* The steps, one by one.                                                  *)

\* What a call of chrome.fileSystemProvider leaves alone, whichever it is.
FspFrame == Calm /\ fspCalls # <<>> /\ UNCHANGED <<request, toNacl, toJs, naclVars, boundVars>>

FspAnswer(op, f) == FspFrame /\ Head(fspCalls).op = op /\ Head(fspCalls).share = f

ListAnswered == FspFrame /\ Head(fspCalls).op = "getAll" /\ PopulateMounts
ListRefused == FspFrame /\ Head(fspCalls).op = "getAll" /\ ListFails

BootUnmountAnswered(f) == FspAnswer("boot unmount", f) /\ BootUnmount(f)
MountAnswered(f) == FspAnswer("mount", f) /\ FspMount(f)
GetAnswered(f) == FspAnswer("get", f) /\ FspGet(f)
UnmountAnswered(f) == FspAnswer("unmount", f) /\ FspUnmount(f)

LEMMA FspHead ==
    ASSUME TypeOK, NEW op, NEW f, op # "getAll", FspAnswer(op, f)
    PROVE  f \in Shares /\ Tail(fspCalls) \in Seq(FspCalls)
  <1>1. Head(fspCalls) \in FspCalls /\ Tail(fspCalls) \in Seq(FspCalls)
    BY TailShifts DEF TypeOK, FspAnswer, FspFrame
  <1>. QED
    BY <1>1 DEF FspAnswer, FspCalls

LEMMA StepCases ==
    ASSUME Next
    PROVE  \/ CredentialsLoaded \/ LoadFails \/ ListAnswered \/ ListRefused
           \/ \E f \in Shares : Mount(f) \/ Unmount(f) \/ \E r \in Requests : AskFile(r, f)
           \/ \E r \in Requests : Admit(r) \/ Route(r)
           \/ BootUnmountAnswered(Head(fspCalls).share)
           \/ MountAnswered(Head(fspCalls).share)
           \/ GetAnswered(Head(fspCalls).share)
           \/ UnmountAnswered(Head(fspCalls).share)
           \/ SaveSucceeds \/ SaveFails \/ HandleReply \/ NaclServes \/ Restart
  BY DEF Next, Start, Callback, FspAnswers, SavesDone, FspAnswer, FspFrame, ListAnswered,
         ListRefused, BootUnmountAnswered, MountAnswered, GetAnswered, UnmountAnswered

-----------------------------------------------------------------------------
(* Types.                                                                  *)

\* A request that was made names a share.
RequestsNamed == \A r \in Requests : request[r].state # "none" => request[r].share \in Shares

\* What the module is sent for a request names the request's share.
CallsMatch ==
    \A i \in 1..Len(toNacl) :
        toNacl[i].op = "request" =>
            /\ toNacl[i].share = request[toNacl[i].id].share
            /\ request[toNacl[i].id].state # "none"

Types == TypeOK /\ RequestsNamed
Typed == Types /\ CallsMatch

RequestStates == {"none", "parked", "remount", "mount", "ready", "routed"} \cup Answered
RequestRecords == [share: Shares \cup {"none"}, state: RequestStates]

LEMMA TellTyped ==
    ASSUME Typed, NEW f \in Shares, NEW p \in RequestStates,
           NEW state \in RequestStates, state # "none", Tell(f, p, state)
    PROVE  /\ request' \in [Requests -> RequestRecords]
           /\ \A r \in Requests : request'[r].state # "none" => request'[r].share \in Shares
           /\ \A r \in Requests :
                 \/ request'[r] = request[r]
                 \/ request[r].share = f /\ request[r].state = p
                    /\ request'[r].share = f /\ request'[r].state = state
  BY DEF Typed, Types, TypeOK, RequestsNamed, Tell, RequestRecords, RequestStates, Answered

LEMMA RestateTyped ==
    ASSUME Typed, NEW r \in Requests, request[r].state # "none", NEW state \in RequestStates,
           request' = [request EXCEPT ![r].state = state]
    PROVE  /\ request' \in [Requests -> RequestRecords]
           /\ \A q \in Requests : request'[q].state # "none" => request'[q].share \in Shares
           /\ request'[r].state = state /\ request'[r].share = request[r].share
           /\ \A q \in Requests \ {r} : request'[q] = request[q]
  BY DEF Typed, Types, TypeOK, RequestsNamed, RequestRecords, RequestStates, Answered

LEMMA TypedInit == Init => Typed
  <1>. SUFFICES ASSUME Init  PROVE Typed
    OBVIOUS
  <1>. USE DEF Init
  <1>1. request \in [Requests -> RequestRecords] /\ RequestsNamed
    BY DEF NoRequest, RequestRecords, RequestStates, RequestsNamed
  <1>2. mounts \in [Shares -> MountStates]
    BY DEF MountStates
  <1>3. asked \in 0..MaxMounts /\ restarts \in 0..MaxRestarts
    BY BoundsAssumption
  <1>4. /\ toNacl \in Seq(Calls) /\ toJs \in Seq(Replies)
        /\ fspCalls \in Seq(FspCalls) /\ saves \in Seq(SaveCalls)
    OBVIOUS
  <1>5. CallsMatch
    BY DEF CallsMatch
  <1>6. registered \subseteq Shares /\ stored \subseteq Shares /\ remembered \subseteq Shares
    OBVIOUS
  <1>7. TypeOK
    BY <1>1, <1>2, <1>3, <1>4, <1>6 DEF TypeOK, RequestRecords, RequestStates
  <1>. QED
    BY <1>1, <1>5, <1>7 DEF Typed, Types

LEMMA TypesStep == Typed /\ [Next]_vars => Types'
  <1>. SUFFICES ASSUME Typed, [Next]_vars  PROVE Types'
    OBVIOUS
  <1>. USE DEF Typed, Types, RequestsNamed
  <1>1. ASSUME CredentialsLoaded  PROVE Types'
    <2>1. fspCalls' \in Seq(FspCalls)
      BY <1>1 DEF CredentialsLoaded, TypeOK, Call, FspCalls
    <2>. QED
      BY <1>1, <2>1 DEF CredentialsLoaded, TypeOK, persistentVars, naclVars, boundVars, historyVars
  <1>2. ASSUME LoadFails  PROVE Types'
    BY <1>2 DEF LoadFails, TypeOK, persistentVars, queueVars, naclVars, boundVars, historyVars
  <1>3. ASSUME ListAnswered  PROVE Types'
    <2>. USE <1>3 DEF ListAnswered, PopulateMounts
    <2>1. registered \ creds \in SUBSET Shares
      BY DEF TypeOK
    <2>2. PICK o \in Orders(registered \ creds) : fspCalls' = Tail(fspCalls) \o BootUnmounts(o)
      BY DEF BootUnmounts
    <2>3. fspCalls' \in Seq(FspCalls)
      <3>1. BootUnmounts(o) \in Seq(FspCalls)
        BY <2>1, OrdersList
      <3>2. Tail(fspCalls) \in Seq(FspCalls)
        BY TailShifts DEF TypeOK, FspFrame
      <3>. QED
        BY <2>2, <3>1, <3>2, ConcatJoins
    <2>4. mounts' \in [Shares -> MountStates]
      BY DEF TypeOK, MountStates
    <2>5. phase' \in {"unmounting", "populated"} /\ departing' \subseteq Shares
      BY <2>1
    <2>. QED
      BY <2>3, <2>4, <2>5 DEF TypeOK, FspFrame, persistentVars, naclVars, boundVars, historyVars
  <1>4. ASSUME NEW f \in Shares, Mount(f)  PROVE Types'
    <2>1. toNacl' \in Seq(Calls) /\ asked' \in 0..MaxMounts
      BY <1>4, BoundsAssumption DEF Mount, TypeOK, Call, Calls
    <2>. QED
      BY <1>4, <2>1 DEF Mount, TypeOK, persistentVars, pageVars, naclVars, historyVars
  <1>5. ASSUME NEW f \in Shares, Unmount(f)  PROVE Types'
    <2>1. toNacl' \in Seq(Calls) /\ asked' \in 0..MaxMounts
      BY <1>5, BoundsAssumption DEF Unmount, TypeOK, Call, Calls
    <2>. QED
      BY <1>5, <2>1 DEF Unmount, TypeOK, persistentVars, pageVars, naclVars
  <1>6. ASSUME NEW f \in Shares, NEW r \in Requests, AskFile(r, f)  PROVE Types'
    BY <1>6 DEF AskFile, TypeOK, persistentVars, queueVars, naclVars, boundVars, historyVars
  <1>7. ASSUME NEW r \in Requests, Admit(r)  PROVE Types'
    <2>. USE <1>7 DEF Admit
    <2>1. request[r].share \in Shares /\ mounts[request[r].share] \in MountStates
      BY DEF TypeOK
    <2>2. Admission(mounts[request[r].share]) \in {"NOT_FOUND", "remount", "mount", "ready"}
      BY <2>1 DEF Admission, MountStates, Null
    <2>3. /\ request' \in [Requests -> RequestRecords]
          /\ \A q \in Requests : request'[q].state # "none" => request'[q].share \in Shares
      BY <2>2, RestateTyped DEF RequestStates, Answered
    <2>4. toNacl' \in Seq(Calls)
      <3>1. Call("remount", request[r].share) \in Calls
        BY <2>1 DEF Call, Calls
      <3>2. Append(toNacl, Call("remount", request[r].share)) \in Seq(Calls)
        BY <3>1, AppendExtends DEF TypeOK
      <3>. QED
        BY <3>2 DEF TypeOK
    <2>5. mounts' \in [Shares -> MountStates]
      BY <2>1 DEF TypeOK, MountStates
    <2>. QED
      BY <2>3, <2>4, <2>5
      DEF TypeOK, RequestRecords, RequestStates, persistentVars, naclVars, boundVars, historyVars
  <1>8. ASSUME NEW r \in Requests, Route(r)  PROVE Types'
    <2>. USE <1>8 DEF Route
    <2>1. request[r].share \in Shares
      BY DEF TypeOK
    <2>3. /\ request' \in [Requests -> RequestRecords]
          /\ \A q \in Requests : request'[q].state # "none" => request'[q].share \in Shares
      BY RestateTyped DEF RequestStates, Answered
    <2>4. toNacl' \in Seq(Calls)
      BY <2>1 DEF TypeOK, RequestCall, Calls
    <2>. QED
      BY <2>3, <2>4
      DEF TypeOK, RequestRecords, RequestStates, persistentVars, naclVars, boundVars, historyVars
  <1>9. ASSUME NEW f, BootUnmountAnswered(f)  PROVE Types'
    <2>. USE <1>9 DEF BootUnmountAnswered, FspAnswer, FspFrame, BootUnmount
    <2>1. f \in Shares /\ fspCalls' \in Seq(FspCalls)
      BY FspHead
    <2>. QED
      BY <2>1 DEF TypeOK, naclVars, boundVars
  <1>10. ASSUME NEW f, MountAnswered(f)  PROVE Types'
    <2>. USE <1>10 DEF MountAnswered, FspAnswer, FspFrame, FspMount, Note
    <2>1. f \in Shares /\ Tail(fspCalls) \in Seq(FspCalls) /\ Call("get", f) \in FspCalls
      BY FspHead DEF FspCalls, FspOps, Call
    <2>2. fspCalls' \in Seq(FspCalls)
      BY <2>1
    <2>. QED
      BY <2>1, <2>2 DEF TypeOK, naclVars, boundVars
  <1>11. ASSUME NEW f, GetAnswered(f)  PROVE Types'
    <2>. USE <1>11 DEF GetAnswered, FspAnswer, FspFrame, FspGet, Note
    <2>1. f \in Shares /\ fspCalls' \in Seq(FspCalls)
      BY FspHead
    <2>2. creds' \subseteq Shares
      BY <2>1 DEF TypeOK
    <2>3. saves' \in Seq(SaveCalls)
      <3>1. Save("mount", f, creds') \in SaveCalls
        BY <2>1, <2>2 DEF Save, SaveCalls
      <3>2. Append(saves, Save("mount", f, creds')) \in Seq(SaveCalls)
        BY <3>1, AppendExtends DEF TypeOK
      <3>. QED
        BY <3>2 DEF TypeOK
    <2>4. mounts' \in [Shares -> MountStates]
      BY <2>1 DEF TypeOK, MountStates
    <2>. QED
      BY <2>1, <2>2, <2>3, <2>4 DEF TypeOK, naclVars, boundVars, persistentVars
  <1>12. ASSUME NEW f, UnmountAnswered(f)  PROVE Types'
    <2>. USE <1>12 DEF UnmountAnswered, FspAnswer, FspFrame, FspUnmount, Note
    <2>1. f \in Shares /\ fspCalls' \in Seq(FspCalls)
      BY FspHead
    <2>2. creds' \subseteq Shares
      BY <2>1 DEF TypeOK
    <2>3. saves' \in Seq(SaveCalls)
      <3>1. Save("unmount", f, creds') \in SaveCalls
        BY <2>1, <2>2 DEF Save, SaveCalls
      <3>2. Append(saves, Save("unmount", f, creds')) \in Seq(SaveCalls)
        BY <3>1, AppendExtends DEF TypeOK
      <3>. QED
        BY <3>2 DEF TypeOK
    <2>. QED
      BY <2>1, <2>2, <2>3 DEF TypeOK, naclVars, boundVars
  <1>13. ASSUME SaveSucceeds \/ SaveFails  PROVE Types'
    <2>. DEFINE save == Head(saves)
    <2>1. saves # <<>>
      BY <1>13 DEF SaveSucceeds, SaveFails
    <2>2. save \in SaveCalls /\ saves' \in Seq(SaveCalls)
      <3>1. saves \in Seq(SaveCalls) /\ saves' = Tail(saves)
        BY <1>13 DEF SaveSucceeds, SaveFails, TypeOK
      <3>. QED
        BY <2>1, <3>1, TailShifts
    <2>3. save.share \in Shares /\ save.creds \subseteq Shares
      BY <2>2 DEF SaveCalls
    <2>. HIDE DEF save
    <2>4. ASSUME SaveSucceeds  PROVE Types'
      <3>. USE <2>4 DEF SaveSucceeds
      <3>1. mounts' \in [Shares -> MountStates]
        BY <2>3 DEF TypeOK, MountStates, save
      <3>2. /\ request' \in [Requests -> RequestRecords]
            /\ \A r \in Requests : request'[r].state # "none" => request'[r].share \in Shares
        <4>1. CASE save.op = "mount"
          BY <4>1, <2>3, TellTyped DEF save, RequestStates
        <4>2. CASE save.op # "mount"
          BY <4>2 DEF TypeOK, RequestRecords, RequestStates, save
        <4>. QED  BY <4>1, <4>2
      <3>3. remembered' \subseteq Shares /\ stored' \subseteq Shares
        BY <2>3 DEF TypeOK, save
      <3>. QED
        BY <2>2, <3>1, <3>2, <3>3 DEF TypeOK, RequestRecords, RequestStates, naclVars, boundVars
    <2>5. ASSUME SaveFails  PROVE Types'
      <3>. USE <2>5 DEF SaveFails
      <3>1. mounts' \in [Shares -> MountStates]
        BY <2>3 DEF TypeOK, MountStates, save
      <3>2. /\ request' \in [Requests -> RequestRecords]
            /\ \A r \in Requests : request'[r].state # "none" => request'[r].share \in Shares
        <4>1. CASE save.op = "mount"
          BY <4>1, <2>3, TellTyped DEF save, RequestStates, Answered
        <4>2. CASE save.op # "mount"
          BY <4>2 DEF TypeOK, RequestRecords, RequestStates, save
        <4>. QED  BY <4>1, <4>2
      <3>3. excused' \subseteq Shares
        BY <2>3 DEF TypeOK, save
      <3>. QED
        BY <2>2, <3>1, <3>2, <3>3
        DEF TypeOK, RequestRecords, RequestStates, naclVars, boundVars, persistentVars
    <2>. QED
      BY <1>13, <2>4, <2>5
  <1>14. ASSUME HandleReply  PROVE Types'
    <2>. USE <1>14 DEF HandleReply
    <2>. DEFINE reply == Head(toJs)
    <2>1. reply \in Replies /\ toJs' \in Seq(Replies)
      <3>1. toJs \in Seq(Replies) /\ toJs # <<>> /\ toJs' = Tail(toJs)
        BY DEF TypeOK
      <3>. QED
        BY <3>1, TailShifts
    <2>2. reply.share \in Shares /\ reply.op \in {"mount", "remount", "unmount"}
      BY <2>1 DEF Replies
    <2>. HIDE DEF reply
    <2>3. mounts' \in [Shares -> MountStates]
      BY <2>2 DEF TypeOK, MountStates, Null, reply
    <2>4. /\ request' \in [Requests -> RequestRecords]
          /\ \A r \in Requests : request'[r].state # "none" => request'[r].share \in Shares
      <3>1. CASE reply.op = "remount" /\ reply.ok
        BY <3>1, <2>2, TellTyped DEF reply, RequestStates
      <3>2. CASE reply.op = "remount" /\ ~reply.ok
        BY <3>2, <2>2, TellTyped DEF reply, RequestStates, Answered
      <3>3. CASE reply.op # "remount"
        BY <3>3 DEF TypeOK, RequestRecords, RequestStates, reply
      <3>. QED  BY <3>1, <3>2, <3>3
    <2>5. fspCalls' \in Seq(FspCalls)
      <3>1. CASE reply.op \in {"mount", "unmount"} /\ reply.ok
        <4>1. Call(reply.op, reply.share) \in FspCalls
          BY <3>1, <2>2 DEF Call, FspCalls, FspOps
        <4>2. Append(fspCalls, Call(reply.op, reply.share)) \in Seq(FspCalls)
          BY <4>1, AppendExtends DEF TypeOK
        <4>. QED
          BY <3>1, <4>2 DEF reply
      <3>2. CASE ~(reply.op \in {"mount", "unmount"} /\ reply.ok)
        BY <3>2 DEF TypeOK, reply
      <3>. QED  BY <3>1, <3>2
    <2>. QED
      BY <2>1, <2>3, <2>4, <2>5
      DEF TypeOK, RequestRecords, RequestStates, naclVars, boundVars, persistentVars, historyVars
  <1>15. ASSUME NaclServes  PROVE Types'
    <2>. USE <1>15 DEF NaclServes
    <2>. DEFINE call == Head(toNacl)
    <2>1. call \in Calls /\ toNacl' \in Seq(Calls)
      <3>1. toNacl \in Seq(Calls) /\ toNacl # <<>> /\ toNacl' = Tail(toNacl)
        BY DEF TypeOK
      <3>. QED
        BY <3>1, TailShifts
    <2>2. call.share \in Shares /\ CredKey[call.share] \in Keys
      BY <2>1 DEF Calls, Keys
    <2>. HIDE DEF call
    <2>3. ASSUME call.op \in {"mount", "remount"}, NaclMount(call) \/ NaclRefuses(call)
          PROVE  Types'
      <3>1. \A ok \in BOOLEAN : Reply(call.op, call.share, ok) \in Replies
        BY <2>2, <2>3 DEF Reply, Replies
      <3>3. \A ok \in BOOLEAN : Append(toJs, Reply(call.op, call.share, ok)) \in Seq(Replies)
        BY <3>1, AppendExtends DEF TypeOK
      <3>2. toJs' \in Seq(Replies)
        BY <2>3, <3>3 DEF NaclMount, NaclRefuses
      <3>. QED
        BY <2>1, <2>2, <2>3, <3>2 DEF TypeOK, NaclMount, NaclRefuses, boundVars, persistentVars
    <2>4. ASSUME call.op = "unmount", NaclUnmount(call)  PROVE Types'
      <3>1. Reply("unmount", call.share, TRUE) \in Replies
        BY <2>2 DEF Reply, Replies
      <3>2. toJs' \in Seq(Replies)
        BY <2>4, <3>1, AppendExtends DEF TypeOK, NaclUnmount
      <3>. QED
        BY <2>1, <2>2, <2>4, <3>2 DEF TypeOK, NaclUnmount, boundVars, persistentVars
    <2>5. ASSUME call.op = "request",
                 request' = [request EXCEPT ![call.id].state = "served"],
                 UNCHANGED <<toJs, naclVars, failedKeys, everMounted, refused>>
          PROVE  Types'
      <3>1. toNacl # <<>> /\ call = toNacl[1] /\ 1 \in 1..Len(toNacl)
        BY TailShifts DEF TypeOK, call
      <3>2. call.id \in Requests /\ request[call.id].state # "none"
        BY <2>1, <2>5, <3>1 DEF Calls, CallsMatch
      <3>3. /\ request' \in [Requests -> RequestRecords]
            /\ \A r \in Requests : request'[r].state # "none" => request'[r].share \in Shares
        BY <2>5, <3>2, RestateTyped DEF RequestStates, Answered
      <3>. QED
        BY <2>1, <2>5, <3>3
        DEF TypeOK, RequestRecords, RequestStates, boundVars, persistentVars, naclVars
    <2>. QED
      BY <2>3, <2>4, <2>5 DEF call
  <1>16. ASSUME Restart  PROVE Types'
    <2>. USE <1>16 DEF Restart
    <2>1. /\ request' \in [Requests -> RequestRecords]
          /\ \A r \in Requests : request'[r].state # "none" => request'[r].share \in Shares
      BY DEF TypeOK, RequestRecords, RequestStates, Answered
    <2>2. mounts' \in [Shares -> MountStates] /\ restarts' \in 0..MaxRestarts
      BY BoundsAssumption DEF TypeOK, MountStates
    <2>3. /\ toNacl' \in Seq(Calls) /\ toJs' \in Seq(Replies)
          /\ fspCalls' \in Seq(FspCalls) /\ saves' \in Seq(SaveCalls)
      OBVIOUS
    <2>4. /\ registered' \subseteq Shares /\ stored' \subseteq Shares
          /\ asked' \in 0..MaxMounts /\ early' \in BOOLEAN /\ remembered' \subseteq Shares
      BY DEF TypeOK, persistentVars
    <2>. QED
      BY <2>1, <2>2, <2>3, <2>4 DEF TypeOK, RequestRecords, RequestStates, persistentVars
  <1>17. ASSUME ListRefused  PROVE Types'
    <2>. USE <1>17 DEF ListRefused, FspFrame, ListFails
    <2>1. fspCalls' \in Seq(FspCalls)
      BY TailShifts DEF TypeOK
    <2>. QED
      BY <2>1 DEF TypeOK, persistentVars, naclVars, boundVars, historyVars
  <1>18. CASE UNCHANGED vars
    BY <1>18 DEF TypeOK, vars, persistentVars, pageVars, queueVars, naclVars, boundVars, historyVars
  <1>. QED
    BY <1>1, <1>2, <1>3, <1>4, <1>5, <1>6, <1>7, <1>8, <1>9, <1>10, <1>11, <1>12, <1>13, <1>14,
       <1>15, <1>16, <1>17, <1>18, StepCases

\* What a step does to a request that was made, and to the messages to the module.
LEMMA RequestsLast ==
    ASSUME Typed, [Next]_vars, NEW r \in Requests, request[r].state # "none"
    PROVE  request'[r].share = request[r].share /\ request'[r].state # "none"
  <1>. USE DEF Typed, Types
  <1>1. ASSUME Tell(Head(saves).share, "mount", "ready") \/ Tell(Head(saves).share, "mount", "NOT_FOUND")
               \/ Tell(Head(toJs).share, "remount", "ready")
               \/ Tell(Head(toJs).share, "remount", "NOT_FOUND")
        PROVE  request'[r].share = request[r].share /\ request'[r].state # "none"
    BY <1>1 DEF Tell
  <1>2. ASSUME NEW q \in Requests, NEW state, state # "none",
               request' = [request EXCEPT ![q].state = state]
        PROVE  request'[r].share = request[r].share /\ request'[r].state # "none"
    BY <1>2 DEF TypeOK
  <1>3. ASSUME NEW f \in Shares, NEW q \in Requests, AskFile(q, f)
        PROVE  request'[r].share = request[r].share /\ request'[r].state # "none"
    BY <1>3 DEF AskFile, NoRequest, TypeOK
  <1>4. ASSUME NEW q \in Requests, Admit(q)
        PROVE  request'[r].share = request[r].share /\ request'[r].state # "none"
    <2>1. mounts[request[q].share] \in MountStates
      BY <1>4 DEF TypeOK, Admit, RequestsNamed
    <2>2. Admission(mounts[request[q].share]) # "none"
      BY <2>1 DEF Admission, MountStates, Null
    <2>. QED
      BY <1>2, <1>4, <2>2 DEF Admit
  <1>5. ASSUME NaclServes
        PROVE  request'[r].share = request[r].share /\ request'[r].state # "none"
    <2>1. Head(toNacl) \in Calls
      BY <1>5, TailShifts DEF NaclServes, TypeOK
    <2>2. CASE UNCHANGED request
      BY <2>2
    <2>3. CASE Head(toNacl).op = "request"
               /\ request' = [request EXCEPT ![Head(toNacl).id].state = "served"]
      <3>1. Head(toNacl).id \in Requests
        BY <2>1, <2>3 DEF Calls
      <3>. QED
        BY <1>2, <2>3, <3>1
    <2>. QED
      BY <1>5, <2>2, <2>3 DEF NaclServes, NaclMount, NaclRefuses, NaclUnmount
  <1>6. ASSUME Restart
        PROVE  request'[r].share = request[r].share /\ request'[r].state # "none"
    BY <1>6 DEF Restart, TypeOK, Answered
  <1>7. ASSUME NEW q \in Requests, Route(q)
        PROVE  request'[r].share = request[r].share /\ request'[r].state # "none"
    BY <1>2, <1>7 DEF Route
  <1>8. ASSUME HandleReply
        PROVE  request'[r].share = request[r].share /\ request'[r].state # "none"
    BY <1>1, <1>8 DEF HandleReply
  <1>9. ASSUME SaveSucceeds \/ SaveFails
        PROVE  request'[r].share = request[r].share /\ request'[r].state # "none"
    BY <1>1, <1>9 DEF SaveSucceeds, SaveFails
  <1>10. ASSUME UNCHANGED request
         PROVE  request'[r].share = request[r].share /\ request'[r].state # "none"
    BY <1>10
  <1>11. UNCHANGED vars => UNCHANGED request
    BY DEF vars, pageVars
  <1>12. CredentialsLoaded \/ LoadFails => UNCHANGED request
    BY DEF CredentialsLoaded, LoadFails
  <1>13. ASSUME NEW f, Mount(f) \/ Unmount(f)  PROVE UNCHANGED request
    BY <1>13 DEF Mount, Unmount, pageVars
  <1>14. FspFrame => UNCHANGED request
    BY DEF FspFrame
  <1>. QED
    BY <1>3, <1>4, <1>5, <1>6, <1>7, <1>8, <1>9, <1>10, <1>11, <1>12, <1>13, <1>14, StepCases
    DEF ListAnswered, ListRefused, BootUnmountAnswered, MountAnswered, GetAnswered, UnmountAnswered,
        FspAnswer

LEMMA CallsChange ==
    ASSUME Typed, [Next]_vars
    PROVE  \/ UNCHANGED toNacl
           \/ toNacl' = <<>>
           \/ toNacl # <<>> /\ toNacl' = Tail(toNacl)
           \/ \E f \in Shares, op \in {"mount", "remount", "unmount"} :
                 toNacl' = Append(toNacl, Call(op, f))
           \/ \E r \in Requests :
                 /\ request[r].state = "ready"
                 /\ toNacl' = Append(toNacl, RequestCall(r))
  <1>1. UNCHANGED vars => UNCHANGED toNacl
    BY DEF vars, queueVars
  <1>2. CredentialsLoaded \/ LoadFails \/ HandleReply \/ SaveSucceeds \/ SaveFails => UNCHANGED toNacl
    BY DEF CredentialsLoaded, LoadFails, HandleReply, SaveSucceeds, SaveFails, queueVars
  <1>3. FspFrame => UNCHANGED toNacl
    BY DEF FspFrame
  <1>4. \A r, f : AskFile(r, f) => UNCHANGED toNacl
    BY DEF AskFile, queueVars
  <1>5. ASSUME NEW r \in Requests, Admit(r)
        PROVE  \/ UNCHANGED toNacl
               \/ \E f \in Shares : toNacl' = Append(toNacl, Call("remount", f))
    BY <1>5 DEF Admit, Typed, Types, RequestsNamed
  <1>. QED
    BY <1>1, <1>2, <1>3, <1>4, <1>5, StepCases
    DEF ListAnswered, ListRefused, BootUnmountAnswered, MountAnswered, GetAnswered, UnmountAnswered,
        FspAnswer, Mount, Unmount, Route, NaclServes, Restart

LEMMA CallsMatchStep == Typed /\ [Next]_vars => CallsMatch'
  <1>. SUFFICES ASSUME Typed, [Next]_vars, NEW i \in 1..Len(toNacl'), toNacl'[i].op = "request"
                PROVE  /\ toNacl'[i].share = request'[toNacl'[i].id].share
                       /\ request'[toNacl'[i].id].state # "none"
    BY DEF CallsMatch
  <1>. USE DEF Typed, Types
  <1>0. toNacl \in Seq(Calls)
    BY DEF TypeOK
  <1>1. CASE \E j \in 1..Len(toNacl) : toNacl'[i] = toNacl[j]
    <2>1. PICK j \in 1..Len(toNacl) : toNacl'[i] = toNacl[j]
      BY <1>1
    <2>2. toNacl[j] \in Calls
      BY <1>0
    <2>3. toNacl[j].id \in Requests
      BY <2>1, <2>2 DEF Calls
    <2>. QED
      BY <2>1, <2>3, RequestsLast DEF CallsMatch
  <1>2. CASE \E r \in Requests : request[r].state = "ready" /\ toNacl'[i] = RequestCall(r)
    BY <1>2, RequestsLast DEF RequestCall
  <1>3. CASE UNCHANGED toNacl
    BY <1>1, <1>3
  <1>4. CASE toNacl' = <<>>
    BY <1>4
  <1>5. CASE toNacl # <<>> /\ toNacl' = Tail(toNacl)
    BY <1>0, <1>1, <1>5, TailShifts
  <1>6. CASE \E f \in Shares, op \in {"mount", "remount", "unmount"} :
                toNacl' = Append(toNacl, Call(op, f))
    <2>1. PICK f \in Shares, op \in {"mount", "remount", "unmount"} :
                  toNacl' = Append(toNacl, Call(op, f))
      BY <1>6
    <2>2. Call(op, f) \in Calls /\ Call(op, f).op # "request"
      BY DEF Call, Calls
    <2>. QED
      BY <1>0, <1>1, <2>1, <2>2, AppendExtends
  <1>7. CASE \E r \in Requests :
                request[r].state = "ready" /\ toNacl' = Append(toNacl, RequestCall(r))
    <2>1. PICK r \in Requests :
                  request[r].state = "ready" /\ toNacl' = Append(toNacl, RequestCall(r))
      BY <1>7
    <2>2. RequestCall(r) \in Calls
      BY <2>1 DEF RequestCall, Calls, RequestsNamed
    <2>. QED
      BY <1>0, <1>1, <1>2, <2>1, <2>2, AppendExtends
  <1>. QED
    BY <1>3, <1>4, <1>5, <1>6, <1>7, CallsChange

LEMMA AlwaysTyped == Spec => []Typed
  BY TypedInit, TypesStep, CallsMatchStep, PTL DEF Spec, Typed

\* Every variable has its type, for any number of shares.
THEOREM TypeCorrect == Spec => []TypeOK
  BY AlwaysTyped, PTL DEF Typed, Types

-----------------------------------------------------------------------------
(* What a queue holds.                                                     *)

LEMMA ElementsTyped ==
    ASSUME TypeOK
    PROVE  /\ Elements(toNacl) \subseteq Calls /\ Elements(toJs) \subseteq Replies
           /\ Elements(fspCalls) \subseteq FspCalls /\ Elements(saves) \subseteq SaveCalls
  BY DEF TypeOK, Elements

LEMMA HoldsElements ==
    ASSUME NEW q, NEW op, NEW f
    PROVE  Holds(q, op, f) <=> \E m \in Elements(q) : m.op = op /\ m.share = f
  BY DEF Holds, Elements

LEMMA Appends ==
    ASSUME TypeOK
    PROVE  /\ \A x \in Calls : Elements(Append(toNacl, x)) = Elements(toNacl) \cup {x}
           /\ \A x \in Replies : Elements(Append(toJs, x)) = Elements(toJs) \cup {x}
           /\ \A x \in FspCalls : Elements(Append(fspCalls, x)) = Elements(fspCalls) \cup {x}
           /\ \A x \in SaveCalls : Elements(Append(saves, x)) = Elements(saves) \cup {x}
  BY ElementsAppend DEF TypeOK

\* How the calls of chrome.fileSystemProvider go on.
LEMMA FspTail ==
    ASSUME TypeOK, FspFrame
    PROVE  /\ Head(fspCalls) \in Elements(fspCalls) /\ Tail(fspCalls) \in Seq(FspCalls)
           /\ Elements(fspCalls) = Elements(Tail(fspCalls)) \cup {Head(fspCalls)}
           /\ \A x \in FspCalls :
                 Elements(Append(Tail(fspCalls), x)) = Elements(Tail(fspCalls)) \cup {x}
  <1>1. fspCalls \in Seq(FspCalls) /\ fspCalls # <<>> /\ Tail(fspCalls) \in Seq(FspCalls)
    BY TailShifts DEF TypeOK, FspFrame
  <1>2. /\ Head(fspCalls) \in Elements(fspCalls)
        /\ Elements(fspCalls) = Elements(Tail(fspCalls)) \cup {Head(fspCalls)}
    BY <1>1, ElementsTail
  <1>3. \A x \in FspCalls :
           Elements(Append(Tail(fspCalls), x)) = Elements(Tail(fspCalls)) \cup {x}
    BY <1>1, ElementsAppend
  <1>. QED
    BY <1>1, <1>2, <1>3

LEMMA ListQueue ==
    ASSUME TypeOK, ListAnswered
    PROVE  \E o \in Orders(registered \ creds) :
              /\ fspCalls' = Tail(fspCalls) \o BootUnmounts(o)
              /\ BootUnmounts(o) \in Seq(FspCalls)
              /\ Elements(fspCalls') = Elements(Tail(fspCalls)) \cup Elements(BootUnmounts(o))
              /\ \A m \in Elements(BootUnmounts(o)) :
                    m.op = "boot unmount" /\ m.share \in registered \ creds
  <1>1. registered \ creds \in SUBSET Shares /\ FspFrame
    BY DEF TypeOK, ListAnswered
  <1>2. PICK o \in Orders(registered \ creds) : fspCalls' = Tail(fspCalls) \o BootUnmounts(o)
    BY DEF ListAnswered, PopulateMounts, BootUnmounts
  <1>3. /\ BootUnmounts(o) \in Seq(FspCalls)
        /\ DOMAIN o = 1..Len(BootUnmounts(o))
        /\ \A i \in DOMAIN o : o[i] \in registered \ creds
                               /\ BootUnmounts(o)[i] = Call("boot unmount", o[i])
    BY <1>1, OrdersList
  <1>4. Elements(fspCalls') = Elements(Tail(fspCalls)) \cup Elements(BootUnmounts(o))
    <2>1. Tail(fspCalls) \in Seq(FspCalls)
      BY <1>1, FspTail
    <2>. QED
      BY <1>2, <1>3, <2>1, ElementsConcat
  <1>5. ASSUME NEW m \in Elements(BootUnmounts(o))
        PROVE  m.op = "boot unmount" /\ m.share \in registered \ creds
    <2>1. PICK i \in DOMAIN o : m = BootUnmounts(o)[i]
      BY <1>3 DEF Elements
    <2>2. m = Call("boot unmount", o[i]) /\ o[i] \in registered \ creds
      BY <1>3, <2>1
    <2>. QED
      BY <2>2 DEF Call
  <1>. QED
    BY <1>2, <1>3, <1>4, <1>5

\* The reply, the save or the message that a step takes from its queue.
LEMMA Heads ==
    ASSUME TypeOK
    PROVE  /\ toJs # <<>> => /\ Head(toJs) \in Replies /\ Head(toJs).share \in Shares
                             /\ Elements(toJs) = Elements(Tail(toJs)) \cup {Head(toJs)}
           /\ toNacl # <<>> => /\ Head(toNacl) \in Calls /\ Head(toNacl).share \in Shares
                               /\ Elements(toNacl) = Elements(Tail(toNacl)) \cup {Head(toNacl)}
           /\ saves # <<>> => /\ Head(saves) \in SaveCalls /\ Head(saves).share \in Shares
                              /\ Elements(saves) = Elements(Tail(saves)) \cup {Head(saves)}
  <1>1. ASSUME toJs # <<>>
        PROVE  /\ Head(toJs) \in Replies
               /\ Elements(toJs) = Elements(Tail(toJs)) \cup {Head(toJs)}
    BY <1>1, ElementsTail DEF TypeOK
  <1>2. ASSUME toNacl # <<>>
        PROVE  /\ Head(toNacl) \in Calls
               /\ Elements(toNacl) = Elements(Tail(toNacl)) \cup {Head(toNacl)}
    BY <1>2, ElementsTail DEF TypeOK
  <1>3. ASSUME saves # <<>>
        PROVE  /\ Head(saves) \in SaveCalls
               /\ Elements(saves) = Elements(Tail(saves)) \cup {Head(saves)}
    BY <1>3, ElementsTail DEF TypeOK
  <1>. QED
    BY <1>1, <1>2, <1>3 DEF Replies, Calls, SaveCalls

-----------------------------------------------------------------------------
(* The module's credentials.                                               *)

LEMMA ModuleCases ==
    ASSUME [Next]_vars
    PROVE  \/ NaclServes \/ Restart
           \/ UNCHANGED <<naclMounts, naclCreds, failedKeys, everMounted>>
  <1>1. FspFrame => UNCHANGED <<naclMounts, naclCreds>>
    BY DEF FspFrame, naclVars
  <1>2. ListAnswered \/ ListRefused => UNCHANGED <<failedKeys, everMounted>>
    BY DEF ListAnswered, PopulateMounts, ListRefused, ListFails, historyVars
  <1>3. \A f : FspMount(f) \/ FspGet(f) \/ FspUnmount(f) \/ BootUnmount(f)
                 => UNCHANGED <<failedKeys, everMounted>>
    BY DEF FspMount, FspGet, FspUnmount, BootUnmount
  <1>4. \A f, r : Mount(f) \/ Unmount(f) \/ AskFile(r, f)
                 => UNCHANGED <<naclMounts, naclCreds, failedKeys, everMounted>>
    BY DEF Mount, Unmount, AskFile, naclVars, historyVars
  <1>5. \A r : Admit(r) \/ Route(r) \/ CredentialsLoaded \/ LoadFails \/ HandleReply
                 => UNCHANGED <<naclMounts, naclCreds, failedKeys, everMounted>>
    BY DEF Admit, Route, CredentialsLoaded, LoadFails, HandleReply, naclVars, historyVars
  <1>6. SaveSucceeds \/ SaveFails => UNCHANGED <<naclMounts, naclCreds, failedKeys, everMounted>>
    BY DEF SaveSucceeds, SaveFails, naclVars
  <1>7. UNCHANGED vars => UNCHANGED <<naclMounts, naclCreds, failedKeys, everMounted>>
    BY DEF vars, naclVars, historyVars
  <1>. QED
    BY <1>1, <1>2, <1>3, <1>4, <1>5, <1>6, <1>7, StepCases
    DEF BootUnmountAnswered, MountAnswered, GetAnswered, UnmountAnswered, FspAnswer, ListAnswered,
        ListRefused

\* A share that the module has mounted has credentials to connect with again, for
\* any shares that share keys, unless a mount with its key has been refused:
\* unmount leaves the credentials, and a later mount's refusal alone removes them.
THEOREM CredentialsStay == Spec => []MountedHasCredentials
  <1>1. Init => MountedHasCredentials
    BY DEF Init, MountedHasCredentials
  <1>2. Typed /\ MountedHasCredentials /\ [Next]_vars => MountedHasCredentials'
    <2>. SUFFICES ASSUME TypeOK, MountedHasCredentials, [Next]_vars
                  PROVE  MountedHasCredentials'
      BY DEF Typed, Types
    <2>. USE DEF MountedHasCredentials
    <2>1. CASE NaclServes
      BY <2>1 DEF NaclServes, NaclMount, NaclRefuses, NaclUnmount, naclVars
    <2>2. CASE Restart
      BY <2>2 DEF Restart
    <2>3. CASE UNCHANGED <<naclMounts, naclCreds, failedKeys, everMounted>>
      BY <2>3
    <2>. QED
      BY <2>1, <2>2, <2>3, ModuleCases
  <1>. QED
    BY <1>1, <1>2, AlwaysTyped, PTL DEF Spec

-----------------------------------------------------------------------------
(* Requests and mounts.                                                    *)

\* Wherever the page takes a share for mounted, the module has mounted it in this
\* session: in its table, in what a request waits for or has been told, in the
\* replies, and in the calls that end a mount.
MountsWereMade ==
    /\ \A f \in Shares : mounts[f] \in {"mounting", "mounted"} => f \in everMounted
    /\ \A r \in Requests :
          request[r].state \in {"mount", "ready"} => request[r].share \in everMounted
    /\ \A m \in Elements(toJs) : m.op \in {"mount", "remount"} /\ m.ok => m.share \in everMounted
    /\ \A m \in Elements(fspCalls) : m.op \in {"mount", "get"} => m.share \in everMounted

\* A request that is sent to the module is for a share that was mounted.
RequestsMade ==
    \A i \in 1..Len(toNacl) : toNacl[i].op = "request" => toNacl[i].share \in everMounted

LEMMA RequestsMadeElements ==
    RequestsMade <=> \A m \in Elements(toNacl) : m.op = "request" => m.share \in everMounted
  BY DEF RequestsMade, Elements

MountsStand == MountsWereMade /\ RequestsMade

LEMMA MountsStandStep ==
    ASSUME Typed, MountsStand, [Next]_vars
    PROVE  MountsStand'
  <1>. USE DEF Typed, Types, MountsStand
  \* What a step keeps is stated over the sets of what the queues hold.
  <1>. DEFINE Reached(calls) == \A m \in calls : m.op = "request" => m.share \in everMounted
  <1>a. RequestsMade => Reached(Elements(toNacl))
    BY RequestsMadeElements
  <1>b. ASSUME \A m \in Elements(toNacl') : m.op = "request" => m.share \in everMounted'
        PROVE  RequestsMade'
    BY <1>b DEF RequestsMade, Elements
  <1>1. ASSUME CredentialsLoaded  PROVE MountsStand'
    <2>. USE <1>1 DEF CredentialsLoaded, naclVars, historyVars
    <2>1. Call("getAll", "none") \in FspCalls
      BY DEF Call, FspCalls
    <2>2. Elements(fspCalls') = Elements(fspCalls) \cup {Call("getAll", "none")}
      BY <2>1, ElementsAppend DEF TypeOK
    <2>3. MountsWereMade'
      BY <2>2 DEF MountsWereMade, Call
    <2>. QED
      BY <2>3 DEF RequestsMade
  <1>2. ASSUME LoadFails  PROVE MountsStand'
    BY <1>2 DEF LoadFails, queueVars, historyVars, MountsWereMade, RequestsMade
  <1>3. ASSUME ListAnswered  PROVE MountsStand'
    <2>. USE <1>3 DEF ListAnswered, PopulateMounts, FspFrame, historyVars, Null
    <2>1. \A m \in Elements(fspCalls') : m \in Elements(fspCalls) \/ m.op = "boot unmount"
      BY ListQueue, FspTail
    <2>2. MountsWereMade'
      BY <2>1 DEF MountsWereMade
    <2>. QED
      BY <2>2 DEF RequestsMade
  <1>4. ASSUME NEW f \in Shares, Mount(f) \/ Unmount(f)  PROVE MountsStand'
    <2>. USE <1>4 DEF Mount, Unmount, pageVars, historyVars
    <2>1. MountsWereMade'
      BY DEF MountsWereMade
    <2>2. /\ Call("mount", f) \in Calls /\ Call("mount", f).op # "request"
          /\ Call("unmount", f) \in Calls /\ Call("unmount", f).op # "request"
      BY DEF Call, Calls
    <2>3. \A m \in Elements(toNacl') : m \in Elements(toNacl) \/ m.op # "request"
      <3>1. toNacl' = Append(toNacl, Call("mount", f)) \/ toNacl' = Append(toNacl, Call("unmount", f))
        OBVIOUS
      <3>2. /\ Elements(Append(toNacl, Call("mount", f))) = Elements(toNacl) \cup {Call("mount", f)}
            /\ Elements(Append(toNacl, Call("unmount", f))) = Elements(toNacl) \cup {Call("unmount", f)}
        BY <2>2, Appends
      <3>. QED
        BY <2>2, <3>1, <3>2
    <2>. QED
      BY <1>a, <1>b, <2>1, <2>3
  <1>5. ASSUME NEW f \in Shares, NEW r \in Requests, AskFile(r, f)  PROVE MountsStand'
    <2>. USE <1>5 DEF AskFile, queueVars, historyVars
    <2>1. MountsWereMade'
      BY DEF MountsWereMade, TypeOK
    <2>. QED
      BY <2>1 DEF RequestsMade
  <1>6. ASSUME NEW r \in Requests, Admit(r)  PROVE MountsStand'
    <2>. USE <1>6 DEF Admit, historyVars
    <2>. DEFINE f == request[r].share
    <2>1. f \in Shares /\ mounts[f] \in MountStates
      BY DEF TypeOK, RequestsNamed
    <2>2. Admission(mounts[f]) \in {"mount", "ready"} => f \in everMounted
      BY <2>1 DEF Admission, MountStates, Null, MountsWereMade
    <2>3. Admission(mounts[f]) \in RequestStates
      BY <2>1 DEF Admission, MountStates, Null, RequestStates, Answered
    <2>4. /\ request'[r].state = Admission(mounts[f]) /\ request'[r].share = f
          /\ \A q \in Requests \ {r} : request'[q] = request[q]
      BY <2>3, RestateTyped
    <2>5. \A q \in Requests :
             request'[q].state \in {"mount", "ready"} => request'[q].share \in everMounted
      BY <2>2, <2>4 DEF MountsWereMade
    <2>6. \A g \in Shares : mounts'[g] \in {"mounting", "mounted"} => g \in everMounted
      BY <2>1 DEF MountsWereMade, TypeOK
    <2>7. MountsWereMade'
      BY <2>5, <2>6 DEF MountsWereMade
    <2>8. Call("remount", f) \in Calls /\ Call("remount", f).op # "request"
      BY <2>1 DEF Call, Calls
    <2>9. \A m \in Elements(toNacl') : m \in Elements(toNacl) \/ m.op # "request"
      BY <2>8, Appends
    <2>. QED
      BY <1>a, <1>b, <2>7, <2>9
  <1>7. ASSUME NEW r \in Requests, Route(r)  PROVE MountsStand'
    <2>. USE <1>7 DEF Route, historyVars
    <2>1. /\ request'[r].state = "routed"
          /\ \A q \in Requests \ {r} : request'[q] = request[q]
      BY RestateTyped DEF RequestStates
    <2>2. MountsWereMade'
      BY <2>1 DEF MountsWereMade
    <2>3. RequestCall(r) \in Calls /\ RequestCall(r).share \in everMounted
      BY DEF RequestCall, Calls, MountsWereMade, RequestsNamed
    <2>4. Elements(toNacl') = Elements(toNacl) \cup {RequestCall(r)}
      BY <2>3, ElementsAppend DEF TypeOK
    <2>. QED
      BY <1>a, <1>b, <2>2, <2>3, <2>4
  <1>8. ASSUME NEW f, BootUnmountAnswered(f)  PROVE MountsStand'
    <2>. USE <1>8 DEF BootUnmountAnswered, FspAnswer, BootUnmount
    <2>1. Elements(fspCalls') \subseteq Elements(fspCalls)
      BY FspTail
    <2>2. MountsWereMade'
      BY <2>1 DEF MountsWereMade, FspFrame
    <2>. QED
      BY <2>2 DEF RequestsMade, FspFrame
  <1>9. ASSUME NEW f, MountAnswered(f)  PROVE MountsStand'
    <2>. USE <1>9 DEF MountAnswered, FspAnswer, FspMount
    <2>1. f \in Shares /\ f \in everMounted
      BY FspHead, FspTail DEF MountsWereMade
    <2>2. Call("get", f) \in FspCalls /\ Call("get", f).share \in everMounted
      BY <2>1 DEF Call, FspCalls, FspOps
    <2>3. Elements(fspCalls') \subseteq Elements(fspCalls) \cup {Call("get", f)}
      <3>1. Elements(Append(Tail(fspCalls), Call("get", f)))
              = Elements(Tail(fspCalls)) \cup {Call("get", f)}
        BY <2>2, FspTail
      <3>. QED
        BY <3>1, FspTail
    <2>4. MountsWereMade'
      BY <2>2, <2>3 DEF MountsWereMade, FspFrame
    <2>. QED
      BY <2>4 DEF RequestsMade, FspFrame
  <1>10. ASSUME NEW f, GetAnswered(f)  PROVE MountsStand'
    <2>. USE <1>10 DEF GetAnswered, FspAnswer, FspGet
    <2>1. f \in Shares /\ f \in everMounted
      BY FspHead, FspTail DEF MountsWereMade
    <2>2. Elements(fspCalls') \subseteq Elements(fspCalls)
      BY FspTail
    <2>3. \A g \in Shares : mounts'[g] \in {"mounting", "mounted"} => g \in everMounted
      BY <2>1 DEF MountsWereMade, TypeOK
    <2>4. MountsWereMade'
      BY <2>2, <2>3 DEF MountsWereMade, FspFrame
    <2>. QED
      BY <2>4 DEF RequestsMade, FspFrame
  <1>11. ASSUME NEW f, UnmountAnswered(f)  PROVE MountsStand'
    <2>. USE <1>11 DEF UnmountAnswered, FspAnswer, FspUnmount
    <2>1. Elements(fspCalls') \subseteq Elements(fspCalls)
      BY FspTail
    <2>2. MountsWereMade'
      BY <2>1 DEF MountsWereMade, FspFrame
    <2>. QED
      BY <2>2 DEF RequestsMade, FspFrame
  <1>12. ASSUME SaveSucceeds \/ SaveFails  PROVE MountsStand'
    <2>. DEFINE f == Head(saves).share
    <2>1. saves # <<>> /\ UNCHANGED <<toNacl, toJs, fspCalls, everMounted>>
      BY <1>12 DEF SaveSucceeds, SaveFails
    <2>2. f \in Shares
      BY <2>1, Heads
    <2>3. \A g \in Shares : mounts'[g] \in {"mounting", "mounted"} => g \in everMounted
      BY <1>12, <2>2 DEF SaveSucceeds, SaveFails, MountsWereMade, TypeOK
    <2>4. \A r \in Requests :
             request'[r].state \in {"mount", "ready"} => request'[r].share \in everMounted
      <3>1. CASE Tell(f, "mount", "ready") \/ Tell(f, "mount", "NOT_FOUND")
        BY <3>1 DEF Tell, MountsWereMade
      <3>2. CASE UNCHANGED request
        BY <3>2 DEF MountsWereMade
      <3>. QED
        BY <1>12, <3>1, <3>2 DEF SaveSucceeds, SaveFails
    <2>5. MountsWereMade'
      BY <2>1, <2>3, <2>4 DEF MountsWereMade
    <2>. QED
      BY <2>1, <2>5 DEF RequestsMade
  <1>13. ASSUME HandleReply  PROVE MountsStand'
    <2>. USE <1>13 DEF HandleReply, historyVars
    <2>. DEFINE reply == Head(toJs)
                f == reply.share
    <2>1. /\ reply \in Replies /\ f \in Shares
          /\ Elements(toJs) = Elements(toJs') \cup {reply}
      BY Heads
    <2>2. reply.op \in {"mount", "remount"} /\ reply.ok => f \in everMounted
      BY <2>1 DEF MountsWereMade
    <2>. HIDE DEF reply
    <2>3. \A g \in Shares : mounts'[g] \in {"mounting", "mounted"} => g \in everMounted
      BY <2>1, <2>2 DEF MountsWereMade, TypeOK, reply, Null
    <2>4. \A r \in Requests :
             request'[r].state \in {"mount", "ready"} => request'[r].share \in everMounted
      <3>1. CASE reply.op = "remount" /\ reply.ok
        BY <2>2, <3>1 DEF Tell, MountsWereMade, reply
      <3>2. CASE reply.op = "remount" /\ ~reply.ok
        BY <3>2 DEF Tell, MountsWereMade, reply
      <3>3. CASE reply.op # "remount"
        BY <3>3 DEF MountsWereMade, reply
      <3>. QED
        BY <3>1, <3>2, <3>3
    <2>5. \A m \in Elements(fspCalls') : m.op \in {"mount", "get"} => m.share \in everMounted
      <3>1. CASE reply.op \in {"mount", "unmount"} /\ reply.ok
        <4>1. Call(reply.op, f) \in FspCalls
          BY <2>1, <3>1 DEF Call, FspCalls, FspOps
        <4>2. fspCalls' = Append(fspCalls, Call(reply.op, f))
          BY <3>1 DEF reply
        <4>3. Elements(fspCalls') = Elements(fspCalls) \cup {Call(reply.op, f)}
          BY <4>1, <4>2, ElementsAppend DEF TypeOK
        <4>. QED
          BY <2>2, <3>1, <4>3 DEF Call, MountsWereMade
      <3>2. CASE ~(reply.op \in {"mount", "unmount"} /\ reply.ok)
        BY <3>2 DEF MountsWereMade, reply
      <3>. QED
        BY <3>1, <3>2
    <2>6. MountsWereMade'
      BY <2>1, <2>3, <2>4, <2>5 DEF MountsWereMade
    <2>. QED
      BY <2>6 DEF RequestsMade
  <1>14. ASSUME NaclServes  PROVE MountsStand'
    <2>. USE <1>14 DEF NaclServes
    <2>. DEFINE call == Head(toNacl)
                f == call.share
    <2>1. /\ call \in Calls /\ f \in Shares
          /\ Elements(toNacl) = Elements(toNacl') \cup {call}
      BY Heads
    <2>2. everMounted \subseteq everMounted'
      BY DEF NaclMount, NaclRefuses, NaclUnmount
    <2>3. RequestsMade'
      BY <1>a, <1>b, <2>1, <2>2
    <2>4. \A r \in Requests :
             request'[r].state \in {"mount", "ready"} => request'[r].share \in everMounted'
      <3>1. CASE UNCHANGED request
        BY <2>2, <3>1 DEF MountsWereMade
      <3>2. CASE call.op = "request"
                 /\ request' = [request EXCEPT ![call.id].state = "served"]
        BY <2>2, <3>2 DEF MountsWereMade, TypeOK
      <3>. QED
        BY <3>1, <3>2 DEF NaclMount, NaclRefuses, NaclUnmount
    <2>. HIDE DEF call
    <2>5. \A m \in Elements(toJs') :
             m.op \in {"mount", "remount"} /\ m.ok => m.share \in everMounted'
      <3>1. ASSUME call.op \in {"mount", "remount"}, NaclMount(call)
            PROVE  \A m \in Elements(toJs') : m \in Elements(toJs) \/ m.share \in everMounted'
        <4>1. Reply(call.op, f, TRUE) \in Replies
          BY <2>1, <3>1 DEF Reply, Replies
        <4>2. Elements(toJs') = Elements(toJs) \cup {Reply(call.op, f, TRUE)}
          BY <3>1, <4>1, Appends DEF NaclMount, call
        <4>3. f \in everMounted' /\ Reply(call.op, f, TRUE).share = f
          BY <3>1 DEF NaclMount, Reply
        <4>. QED
          BY <4>2, <4>3
      <3>2. ASSUME call.op \in {"mount", "remount"}, NaclRefuses(call)
            PROVE  \A m \in Elements(toJs') : m \in Elements(toJs) \/ ~m.ok
        <4>1. Reply(call.op, f, FALSE) \in Replies
          BY <2>1, <3>2 DEF Reply, Replies
        <4>2. Elements(toJs') = Elements(toJs) \cup {Reply(call.op, f, FALSE)}
          BY <3>2, <4>1, Appends DEF NaclRefuses, call
        <4>. QED
          BY <4>2 DEF Reply
      <3>3. ASSUME NaclUnmount(call)
            PROVE  \A m \in Elements(toJs') : m \in Elements(toJs) \/ m.op = "unmount"
        <4>1. Reply("unmount", f, TRUE) \in Replies
          BY <2>1 DEF Reply, Replies
        <4>2. Elements(toJs') = Elements(toJs) \cup {Reply("unmount", f, TRUE)}
          BY <3>3, <4>1, Appends DEF NaclUnmount, call
        <4>. QED
          BY <4>2 DEF Reply
      <3>. QED
        BY <2>2, <3>1, <3>2, <3>3 DEF MountsWereMade, call
    <2>6. MountsWereMade'
      BY <2>2, <2>4, <2>5 DEF MountsWereMade
    <2>. QED
      BY <2>3, <2>6
  <1>15. ASSUME Restart  PROVE MountsStand'
    <2>. USE <1>15 DEF Restart
    <2>1. \A r \in Requests : request'[r].state \notin {"mount", "ready"}
      BY DEF TypeOK, Answered
    <2>2. MountsWereMade'
      BY <2>1, ElementsEmpty DEF MountsWereMade
    <2>. QED
      BY <2>2 DEF RequestsMade
  <1>16. ASSUME ListRefused  PROVE MountsStand'
    <2>. USE <1>16 DEF ListRefused, ListFails, FspFrame, historyVars
    <2>1. Elements(fspCalls') \subseteq Elements(fspCalls)
      BY FspTail
    <2>2. MountsWereMade'
      BY <2>1 DEF MountsWereMade
    <2>. QED
      BY <2>2 DEF RequestsMade
  <1>17. CASE UNCHANGED vars
    BY <1>17 DEF vars, pageVars, queueVars, historyVars, MountsWereMade, RequestsMade
  <1>. QED
    BY <1>1, <1>2, <1>3, <1>4, <1>5, <1>6, <1>7, <1>8, <1>9, <1>10, <1>11, <1>12, <1>13, <1>14,
       <1>15, <1>16, <1>17, StepCases

LEMMA AlwaysStand == Spec => []MountsStand
  <1>1. Init => MountsStand
    BY ElementsEmpty DEF Init, MountsStand, MountsWereMade, RequestsMade, NoRequest
  <1>2. Typed /\ MountsStand /\ [Next]_vars => MountsStand'
    BY MountsStandStep
  <1>. QED
    BY <1>1, <1>2, AlwaysTyped, PTL DEF Spec

-----------------------------------------------------------------------------
(* The start of the page.                                                  *)

Starting == {"getAll", "boot unmount"}

\* No call of the start is in q twice.
Once(q) == \A i, j \in 1..Len(q) : q[i].op \in Starting /\ q[i] = q[j] => i = j

\* The list is under way only while the page waits for it; what it unmounts then
\* is departing, and is asked for once.
StartOrder ==
    /\ \A m \in Elements(fspCalls) :
          /\ m.op = "getAll" => phase = "listing"
          /\ m.op = "boot unmount" => phase = "unmounting" /\ m.share \in departing
    /\ Once(fspCalls)

LEMMA OnceEmpty == Once(<<>>)
  BY DEF Once

LEMMA OnceTail ==
    ASSUME NEW S, NEW q \in Seq(S), q # <<>>, Once(q)
    PROVE  Once(Tail(q)) /\ (Head(q).op \in Starting => Head(q) \notin Elements(Tail(q)))
  <1>1. Once(Tail(q))
    BY TailShifts DEF Once
  <1>2. ASSUME NEW i \in 1..Len(Tail(q)), Head(q).op \in Starting, Tail(q)[i] = Head(q)
        PROVE  FALSE
    <2>1. 1 \in 1..Len(q) /\ i + 1 \in 1..Len(q) /\ q[i + 1] = q[1] /\ q[1].op \in Starting
      BY <1>2, TailShifts
    <2>2. 1 = i + 1
      BY <2>1 DEF Once
    <2>. QED
      BY <2>2
  <1>. QED
    BY <1>1, <1>2 DEF Elements

LEMMA OnceAppend ==
    ASSUME NEW S, NEW q \in Seq(S), NEW x \in S, Once(q),
           x.op \notin Starting \/ x \notin Elements(q)
    PROVE  Once(Append(q, x))
  <1>. SUFFICES ASSUME NEW i \in 1..Len(Append(q, x)), NEW j \in 1..Len(Append(q, x)),
                       Append(q, x)[i].op \in Starting, Append(q, x)[i] = Append(q, x)[j]
                PROVE  i = j
    BY DEF Once
  <1>1. CASE i \in 1..Len(q) /\ j \in 1..Len(q)
    BY <1>1, AppendExtends DEF Once
  <1>2. CASE i = Len(q) + 1 /\ j = Len(q) + 1
    BY <1>2
  <1>3. CASE i = Len(q) + 1 /\ j \in 1..Len(q)
    BY <1>3, AppendExtends DEF Elements
  <1>4. CASE i \in 1..Len(q) /\ j = Len(q) + 1
    BY <1>4, AppendExtends DEF Elements
  <1>. QED
    BY <1>1, <1>2, <1>3, <1>4, AppendExtends

LEMMA OnceConcat ==
    ASSUME NEW S, NEW q \in Seq(S), NEW t \in Seq(S), Once(t),
           \A m \in Elements(q) : m.op \notin Starting
    PROVE  Once(q \o t)
  <1>. SUFFICES ASSUME NEW i \in 1..Len(q \o t), NEW j \in 1..Len(q \o t),
                       (q \o t)[i].op \in Starting, (q \o t)[i] = (q \o t)[j]
                PROVE  i = j
    BY DEF Once
  <1>1. \A k \in 1..Len(q) : (q \o t)[k].op \notin Starting
    BY ConcatJoins DEF Elements
  <1>2. i - Len(q) \in 1..Len(t) /\ j - Len(q) \in 1..Len(t)
    BY <1>1, ConcatJoins
  <1>3. /\ (q \o t)[Len(q) + (i - Len(q))] = t[i - Len(q)]
        /\ (q \o t)[Len(q) + (j - Len(q))] = t[j - Len(q)]
    BY <1>2, ConcatJoins
  <1>4. Len(q) + (i - Len(q)) = i /\ Len(q) + (j - Len(q)) = j
    BY ConcatJoins
  <1>5. i - Len(q) = j - Len(q)
    BY <1>2, <1>3, <1>4 DEF Once
  <1>. QED
    BY <1>5, ConcatJoins

\* The steps that add no call to chrome.fileSystemProvider and take none.
LEMMA StartCases ==
    ASSUME [Next]_vars
    PROVE  \/ UNCHANGED <<phase, departing, fspCalls>>
           \/ CredentialsLoaded \/ LoadFails \/ ListAnswered \/ ListRefused
           \/ BootUnmountAnswered(Head(fspCalls).share) \/ MountAnswered(Head(fspCalls).share)
           \/ GetAnswered(Head(fspCalls).share) \/ UnmountAnswered(Head(fspCalls).share)
           \/ HandleReply \/ Restart
  <1>1. \A f, r : Mount(f) \/ Unmount(f) \/ AskFile(r, f) \/ Admit(r) \/ Route(r)
                      => UNCHANGED <<phase, departing, fspCalls>>
    BY DEF Mount, Unmount, AskFile, Admit, Route, pageVars, queueVars
  <1>2. SaveSucceeds \/ SaveFails \/ NaclServes => UNCHANGED <<phase, departing, fspCalls>>
    BY DEF SaveSucceeds, SaveFails, NaclServes
  <1>3. UNCHANGED vars => UNCHANGED <<phase, departing, fspCalls>>
    BY DEF vars, pageVars, queueVars
  <1>. QED
    BY <1>1, <1>2, <1>3, StepCases

LEMMA OneListOneCall ==
    ASSUME NEW m \in FspCalls, NEW n \in FspCalls
    PROVE  /\ m.op = "getAll" /\ n.op = "getAll" => m = n
           /\ m.op = "boot unmount" /\ n.op = "boot unmount" /\ m.share = n.share => m = n
  <1>1. ASSUME NEW c \in FspCalls, c.op = "getAll"
        PROVE  c = Call("getAll", "none")
    <2>1. c \in [op: {"getAll"}, share: {"none"}]
      BY <1>1 DEF FspCalls, FspOps
    <2>. QED
      BY <2>1 DEF Call
  <1>2. ASSUME NEW c \in FspCalls, c.op = "boot unmount"
        PROVE  c = Call("boot unmount", c.share)
    <2>1. c \in [op: FspOps, share: Shares]
      BY <1>2 DEF FspCalls
    <2>. QED
      BY <1>2, <2>1 DEF Call
  <1>. QED
    BY <1>1, <1>2

LEMMA StartOrderStep ==
    ASSUME Typed, StartOrder, [Next]_vars
    PROVE  StartOrder'
  <1>. USE DEF Typed, Types
  <1>0. /\ fspCalls \in Seq(FspCalls) /\ Elements(fspCalls) \subseteq FspCalls
        /\ Once(fspCalls)
    BY ElementsTyped DEF TypeOK, StartOrder
  <1>1. CASE UNCHANGED <<phase, departing, fspCalls>>
    BY <1>1 DEF StartOrder
  <1>2. ASSUME CredentialsLoaded  PROVE StartOrder'
    <2>. USE <1>2 DEF CredentialsLoaded
    <2>1. Call("getAll", "none") \in FspCalls /\ Call("getAll", "none").op = "getAll"
      BY DEF Call, FspCalls
    <2>2. \A m \in Elements(fspCalls) : m.op \notin Starting
      BY DEF StartOrder, Starting
    <2>3. Elements(fspCalls') = Elements(fspCalls) \cup {Call("getAll", "none")}
      BY <2>1, Appends
    <2>4. Once(fspCalls')
      BY <1>0, <2>1, <2>2, OnceAppend DEF Starting
    <2>. QED
      BY <2>1, <2>2, <2>3, <2>4 DEF StartOrder, Starting
  <1>3. ASSUME LoadFails  PROVE StartOrder'
    BY <1>3 DEF LoadFails, StartOrder, queueVars
  <1>4. ASSUME ListAnswered  PROVE StartOrder'
    <2>. DEFINE rest == Tail(fspCalls)
    <2>1. /\ rest \in Seq(FspCalls) /\ Head(fspCalls) \in Elements(fspCalls)
          /\ Elements(fspCalls) = Elements(rest) \cup {Head(fspCalls)}
          /\ Head(fspCalls).op = "getAll"
      BY <1>4, FspTail DEF ListAnswered
    <2>2. Head(fspCalls) \notin Elements(rest)
      BY <1>0, <1>4, <2>1, OnceTail DEF ListAnswered, FspFrame, Starting
    <2>3. phase = "listing"
      BY <2>1 DEF StartOrder
    <2>4. \A m \in Elements(rest) : m.op \notin Starting
      BY <1>0, <2>1, <2>2, <2>3, OneListOneCall DEF StartOrder, Starting
    <2>5. PICK o \in Orders(registered \ creds) :
              /\ fspCalls' = rest \o BootUnmounts(o)
              /\ BootUnmounts(o) \in Seq(FspCalls)
              /\ Elements(fspCalls') = Elements(rest) \cup Elements(BootUnmounts(o))
              /\ \A m \in Elements(BootUnmounts(o)) :
                    m.op = "boot unmount" /\ m.share \in registered \ creds
      BY <1>4, ListQueue
    <2>6. Once(BootUnmounts(o))
      <3>1. registered \ creds \in SUBSET Shares
        BY DEF TypeOK
      <3>2. /\ DOMAIN o = 1..Len(BootUnmounts(o))
            /\ \A i \in DOMAIN o : BootUnmounts(o)[i].share = o[i]
            /\ \A i, j \in DOMAIN o : o[i] = o[j] => i = j
        <4>1. /\ DOMAIN o = 1..Len(BootUnmounts(o))
              /\ \A i \in DOMAIN o : BootUnmounts(o)[i] = Call("boot unmount", o[i])
              /\ \A i, j \in DOMAIN o : o[i] = o[j] => i = j
          BY <3>1, OrdersList
        <4>2. \A g : Call("boot unmount", g).share = g
          BY DEF Call
        <4>. QED
          BY <4>1, <4>2
      <3>3. ASSUME NEW i \in 1..Len(BootUnmounts(o)), NEW j \in 1..Len(BootUnmounts(o)),
                   BootUnmounts(o)[i] = BootUnmounts(o)[j]
            PROVE  i = j
        <4>1. i \in DOMAIN o /\ j \in DOMAIN o
          BY <3>2
        <4>2. o[i] = o[j]
          BY <3>2, <3>3, <4>1
        <4>. QED
          BY <3>2, <4>1, <4>2
      <3>. QED
        BY <3>3 DEF Once
    <2>7. Once(fspCalls')
      BY <2>1, <2>4, <2>5, <2>6, OnceConcat
    <2>8. /\ departing' = registered \ creds
          /\ registered \ creds # {} => phase' = "unmounting"
      BY <1>4 DEF ListAnswered, PopulateMounts
    <2>. QED
      BY <2>4, <2>5, <2>7, <2>8 DEF StartOrder, Starting
  <1>5. ASSUME NEW f, BootUnmountAnswered(f)  PROVE StartOrder'
    <2>. USE <1>5 DEF BootUnmountAnswered, FspAnswer, BootUnmount
    <2>1. /\ Head(fspCalls) \in Elements(fspCalls)
          /\ Elements(fspCalls) = Elements(fspCalls') \cup {Head(fspCalls)}
      BY FspTail
    <2>2. Once(fspCalls') /\ Head(fspCalls) \notin Elements(fspCalls')
      BY <1>0, OnceTail DEF FspFrame, Starting
    <2>3. phase = "unmounting" /\ f \in departing
      BY <2>1 DEF StartOrder
    <2>4. \A m \in Elements(fspCalls') :
             m.op # "getAll" /\ (m.op = "boot unmount" => m.share \in departing \ {f})
      BY <1>0, <2>1, <2>2, <2>3, OneListOneCall DEF StartOrder
    <2>. QED
      BY <2>2, <2>3, <2>4 DEF StartOrder
  <1>6. ASSUME NEW f, MountAnswered(f)  PROVE StartOrder'
    <2>. USE <1>6 DEF MountAnswered, FspAnswer, FspMount
    <2>1. Call("get", f) \in FspCalls /\ Call("get", f).op \notin Starting
      BY FspHead DEF Call, FspCalls, FspOps, Starting
    <2>2. /\ Tail(fspCalls) \in Seq(FspCalls)
          /\ Elements(fspCalls) = Elements(Tail(fspCalls)) \cup {Head(fspCalls)}
          /\ Elements(Append(Tail(fspCalls), Call("get", f)))
               = Elements(Tail(fspCalls)) \cup {Call("get", f)}
      BY <2>1, FspTail
    <2>3. Once(Tail(fspCalls))
      BY <1>0, OnceTail DEF FspFrame
    <2>4. Once(Append(Tail(fspCalls), Call("get", f)))
      BY <2>1, <2>2, <2>3, OnceAppend
    <2>5. \A m \in Elements(fspCalls') : m \in Elements(fspCalls) \/ m.op \notin Starting
      BY <2>1, <2>2
    <2>6. Once(fspCalls') /\ UNCHANGED <<phase, departing>>
      BY <2>3, <2>4
    <2>. QED
      BY <2>5, <2>6 DEF StartOrder, Starting
  <1>7. ASSUME NEW f, GetAnswered(f) \/ UnmountAnswered(f)  PROVE StartOrder'
    <2>1. /\ fspCalls' = Tail(fspCalls) /\ UNCHANGED <<phase, departing>> /\ FspFrame
      BY <1>7 DEF GetAnswered, UnmountAnswered, FspAnswer, FspGet, FspUnmount
    <2>2. Elements(fspCalls') \subseteq Elements(fspCalls)
      BY <2>1, FspTail
    <2>3. Once(fspCalls')
      BY <1>0, <2>1, OnceTail DEF FspFrame
    <2>. QED
      BY <2>1, <2>2, <2>3 DEF StartOrder
  <1>8. ASSUME HandleReply  PROVE StartOrder'
    <2>. DEFINE reply == Head(toJs)
                call == Call(reply.op, reply.share)
    <2>1. UNCHANGED <<phase, departing>>
      BY <1>8 DEF HandleReply
    <2>2. CASE UNCHANGED fspCalls
      BY <2>1, <2>2 DEF StartOrder
    <2>3. CASE reply.op \in {"mount", "unmount"} /\ fspCalls' = Append(fspCalls, call)
      <3>1. reply.share \in Shares
        BY <1>8, Heads DEF HandleReply
      <3>2. call \in FspCalls /\ call.op \notin Starting
        BY <2>3, <3>1 DEF Call, FspCalls, FspOps, Starting
      <3>3. Elements(fspCalls') = Elements(fspCalls) \cup {call}
        BY <2>3, <3>2, Appends
      <3>4. Once(fspCalls')
        BY <1>0, <2>3, <3>2, OnceAppend
      <3>. QED
        BY <2>1, <3>2, <3>3, <3>4 DEF StartOrder, Starting
    <2>. QED
      BY <1>8, <2>2, <2>3 DEF HandleReply
  <1>9. ASSUME Restart  PROVE StartOrder'
    BY <1>9, ElementsEmpty, OnceEmpty DEF Restart, StartOrder
  <1>10. ASSUME ListRefused  PROVE StartOrder'
    <2>1. /\ Head(fspCalls) \in Elements(fspCalls) /\ Head(fspCalls).op = "getAll"
          /\ Elements(fspCalls) = Elements(fspCalls') \cup {Head(fspCalls)}
      BY <1>10, FspTail DEF ListRefused, ListFails
    <2>2. Once(fspCalls') /\ Head(fspCalls) \notin Elements(fspCalls')
      BY <1>0, <1>10, <2>1, OnceTail DEF ListRefused, ListFails, FspFrame, Starting
    <2>3. phase = "listing"
      BY <2>1 DEF StartOrder
    <2>4. \A m \in Elements(fspCalls') : m.op \notin Starting
      BY <1>0, <2>1, <2>2, <2>3, OneListOneCall DEF StartOrder, Starting
    <2>. QED
      BY <2>2, <2>4 DEF StartOrder, Starting
  <1>. QED
    BY <1>1, <1>2, <1>3, <1>4, <1>5, <1>6, <1>7, <1>8, <1>9, <1>10, StartCases

LEMMA AlwaysOrdered == Spec => []StartOrder
  <1>1. Init => StartOrder
    BY ElementsEmpty, OnceEmpty DEF Init, StartOrder
  <1>2. Typed /\ StartOrder /\ [Next]_vars => StartOrder'
    BY StartOrderStep
  <1>. QED
    BY <1>1, <1>2, AlwaysTyped, PTL DEF Spec

-----------------------------------------------------------------------------
(* The saved credentials.                                                  *)

CredsKnown == phase \notin {"loading", "stuck"}

\* Nothing is saved before populate is over, and the last save under way is of
\* the credentials as they are.
LastSaveCurrent ==
    ~early => /\ phase # "populated" => saves = <<>>
              /\ CredsKnown /\ saves # <<>> => saves[Len(saves)].creds = creds

SavedInStep == LastSaveCurrent /\ StorageInStep

LEMMA LastOfQueue ==
    ASSUME NEW S, NEW q \in Seq(S)
    PROVE  /\ \A x \in S : Append(q, x)[Len(Append(q, x))] = x /\ Append(q, x) # <<>>
           /\ q # <<>> =>
                IF Tail(q) = <<>> THEN Head(q) = q[Len(q)]
                ELSE Tail(q)[Len(Tail(q))] = q[Len(q)]
  <1>1. \A x \in S : Append(q, x)[Len(Append(q, x))] = x /\ Append(q, x) # <<>>
    BY AppendExtends
  <1>2. ASSUME q # <<>>
        PROVE  IF Tail(q) = <<>> THEN Head(q) = q[Len(q)]
               ELSE Tail(q)[Len(Tail(q))] = q[Len(q)]
    <2>1. CASE Tail(q) = <<>>
      <3>1. Len(q) = 1 /\ Head(q) = q[1]
        <4>1. Len(Tail(q)) = 0
          <5>1. \A e : e = <<>> => Len(e) = 0
            OBVIOUS
          <5>. QED
            BY <2>1, <5>1
        <4>. QED
          BY <1>2, <4>1, TailShifts
      <3>2. Head(q) = q[Len(q)]
        BY <3>1
      <3>. QED
        BY <2>1, <3>2
    <2>2. CASE Tail(q) # <<>>
      <3>1. Len(Tail(q)) \in 1..Len(Tail(q)) /\ Len(Tail(q)) + 1 = Len(q)
        BY <1>2, <2>2, TailShifts
      <3>. QED
        BY <1>2, <2>2, <3>1, TailShifts
    <2>. QED
      BY <2>1, <2>2
  <1>. QED
    BY <1>1, <1>2

\* What the steps that have nothing to do with credentials or Chrome's list leave
\* alone; they may forget a remembered share.
StorageFrame ==
    /\ UNCHANGED <<phase, departing, creds, stored, saves, saveFailed, registered, early>>
    /\ remembered' \subseteq remembered

LEMMA StorageCases ==
    ASSUME [Next]_vars
    PROVE  \/ StorageFrame
           \/ CredentialsLoaded \/ LoadFails \/ ListAnswered \/ ListRefused
           \/ BootUnmountAnswered(Head(fspCalls).share) \/ MountAnswered(Head(fspCalls).share)
           \/ GetAnswered(Head(fspCalls).share) \/ UnmountAnswered(Head(fspCalls).share)
           \/ SaveSucceeds \/ SaveFails \/ Restart
  <1>. USE DEF StorageFrame
  <1>1. \A f, r : Mount(f) \/ Unmount(f) \/ AskFile(r, f) => StorageFrame
    BY DEF Mount, Unmount, AskFile, persistentVars, pageVars, queueVars, historyVars
  <1>2. \A r : Admit(r) \/ Route(r) => StorageFrame
    BY DEF Admit, Route, persistentVars, historyVars
  <1>3. HandleReply \/ NaclServes => StorageFrame
    BY DEF HandleReply, NaclServes, persistentVars, historyVars
  <1>4. UNCHANGED vars => StorageFrame
    BY DEF vars, persistentVars, pageVars, queueVars, historyVars
  <1>. HIDE DEF StorageFrame
  <1>. QED
    BY <1>1, <1>2, <1>3, <1>4, StepCases

LEMMA Noted ==
    ASSUME TypeOK, Note
    PROVE  ~early' => ~early /\ phase = "populated"
  <1>1. early \in BOOLEAN
    BY DEF TypeOK
  <1>. QED
    BY <1>1 DEF Note

LEMMA LastSaved ==
    ASSUME TypeOK, NEW save \in SaveCalls, save.creds = creds', saves' = Append(saves, save)
    PROVE  saves' # <<>> /\ saves'[Len(saves')].creds = creds'
  <1>1. saves \in Seq(SaveCalls)
    BY DEF TypeOK
  <1>2. Append(saves, save)[Len(Append(saves, save))] = save /\ Append(saves, save) # <<>>
    BY <1>1, LastOfQueue
  <1>. QED
    BY <1>2

LEMMA SavedInStepStep ==
    ASSUME Typed, StartOrder, SavedInStep, [Next]_vars
    PROVE  SavedInStep'
  <1>. USE DEF Typed, Types, SavedInStep, LastSaveCurrent, StorageInStep, CredsKnown
  <1>0. saves \in Seq(SaveCalls)
    BY DEF TypeOK
  <1>1. CASE StorageFrame
    BY <1>1 DEF StorageFrame
  <1>2. CASE CredentialsLoaded
    BY <1>2 DEF CredentialsLoaded, persistentVars, historyVars
  <1>3. CASE LoadFails
    BY <1>3 DEF LoadFails, persistentVars, queueVars, historyVars
  <1>4. CASE ListAnswered
    <2>1. /\ phase' \in {"unmounting", "populated"}
          /\ UNCHANGED <<creds, saves, stored, early, saveFailed>>
      BY <1>4 DEF ListAnswered, PopulateMounts, persistentVars, historyVars
    <2>2. phase = "listing"
      BY <1>4, FspTail DEF StartOrder, ListAnswered
    <2>. QED
      BY <2>1, <2>2
  <1>5. ASSUME NEW f, BootUnmountAnswered(f)  PROVE SavedInStep'
    <2>1. phase = "unmounting"
      BY <1>5, FspTail DEF StartOrder, BootUnmountAnswered, FspAnswer
    <2>. QED
      BY <1>5, <2>1 DEF BootUnmountAnswered, BootUnmount
  <1>6. ASSUME NEW f, MountAnswered(f)  PROVE SavedInStep'
    <2>1. UNCHANGED <<phase, creds, stored, saves, saveFailed>> /\ (~early' => ~early)
      BY <1>6, Noted DEF MountAnswered, FspMount
    <2>. QED
      BY <2>1
  <1>7. ASSUME NEW f, GetAnswered(f)  PROVE SavedInStep'
    <2>. USE <1>7 DEF GetAnswered, FspGet, FspAnswer
    <2>1. f \in Shares
      BY FspHead
    <2>2. UNCHANGED <<phase, stored, saveFailed>> /\ (~early' => ~early)
      BY Noted DEF persistentVars
    <2>3. CASE UNCHANGED <<creds, saves>>
      BY <2>2, <2>3
    <2>4. CASE Note /\ creds' = creds \cup {f} /\ saves' = Append(saves, Save("mount", f, creds'))
      <3>1. Save("mount", f, creds') \in SaveCalls /\ Save("mount", f, creds').creds = creds'
        BY <2>1, <2>4 DEF Save, SaveCalls, TypeOK
      <3>. QED
        BY <2>2, <2>4, <3>1, Noted, LastSaved
    <2>. QED
      BY <2>3, <2>4
  <1>8. ASSUME NEW f, UnmountAnswered(f)  PROVE SavedInStep'
    <2>. USE <1>8 DEF UnmountAnswered, FspUnmount, FspAnswer
    <2>1. f \in Shares
      BY FspHead
    <2>2. Save("unmount", f, creds') \in SaveCalls /\ Save("unmount", f, creds').creds = creds'
      BY <2>1 DEF Save, SaveCalls, TypeOK
    <2>. QED
      BY <2>2, Noted, LastSaved
  <1>9. ASSUME SaveSucceeds  PROVE SavedInStep'
    <2>1. /\ saves # <<>> /\ saves' = Tail(saves) /\ stored' = Head(saves).creds
          /\ UNCHANGED <<creds, phase, early>>
      BY <1>9 DEF SaveSucceeds
    <2>2. IF saves' = <<>> THEN Head(saves) = saves[Len(saves)]
          ELSE saves'[Len(saves')] = saves[Len(saves)]
      BY <1>0, <2>1, LastOfQueue
    <2>. QED
      BY <2>1, <2>2
  <1>10. ASSUME SaveFails  PROVE SavedInStep'
    <2>1. /\ saves # <<>> /\ saves' = Tail(saves) /\ saveFailed'
          /\ UNCHANGED <<creds, phase, early>>
      BY <1>10 DEF SaveFails
    <2>2. saves' # <<>> => saves'[Len(saves')] = saves[Len(saves)]
      BY <1>0, <2>1, LastOfQueue
    <2>. QED
      BY <2>1, <2>2
  <1>11. ASSUME Restart  PROVE SavedInStep'
    BY <1>11 DEF Restart
  <1>12. ASSUME ListRefused  PROVE SavedInStep'
    <2>1. phase = "listing"
      BY <1>12, FspTail DEF StartOrder, ListRefused
    <2>. QED
      BY <1>12, <2>1 DEF ListRefused, ListFails, persistentVars, historyVars
  <1>. QED
    BY <1>1, <1>2, <1>3, <1>4, <1>5, <1>6, <1>7, <1>8, <1>9, <1>10, <1>11, <1>12, StorageCases

\* The credentials the page works with are the saved ones whenever no save is
\* under way and the last one did not fail, for any shares and any interleaving
\* of mounts and unmounts: the saves are a queue, and the last one in it is of
\* the credentials as they are.
THEOREM SavedCredentialsInStep == Spec => []StorageInStep
  <1>1. Init => SavedInStep
    BY DEF Init, SavedInStep, LastSaveCurrent, StorageInStep, CredsKnown
  <1>2. Typed /\ StartOrder /\ SavedInStep /\ [Next]_vars => SavedInStep'
    BY SavedInStepStep
  <1>3. SavedInStep => StorageInStep
    BY DEF SavedInStep
  <1>. QED
    BY <1>1, <1>2, <1>3, AlwaysTyped, AlwaysOrdered, PTL DEF Spec

-----------------------------------------------------------------------------
(* What a step adds to a queue.                                            *)

LEMMA SentCall ==
    ASSUME TypeOK, NEW f \in Shares, NEW op \in {"mount", "remount", "unmount"},
           toNacl' = Append(toNacl, Call(op, f))
    PROVE  /\ Elements(toNacl') = Elements(toNacl) \cup {Call(op, f)}
           /\ Call(op, f).op = op /\ Call(op, f).share = f
  <1>1. Call(op, f) \in Calls /\ Call(op, f).op = op /\ Call(op, f).share = f
    BY DEF Call, Calls
  <1>2. Elements(Append(toNacl, Call(op, f))) = Elements(toNacl) \cup {Call(op, f)}
    BY <1>1, Appends
  <1>. QED
    BY <1>1, <1>2

LEMMA SentRequest ==
    ASSUME Typed, NEW r \in Requests, request[r].state # "none",
           toNacl' = Append(toNacl, RequestCall(r))
    PROVE  /\ Elements(toNacl') = Elements(toNacl) \cup {RequestCall(r)}
           /\ RequestCall(r).op = "request"
  <1>1. RequestCall(r) \in Calls /\ RequestCall(r).op = "request"
    BY DEF RequestCall, Calls, Typed, Types, RequestsNamed
  <1>2. Elements(Append(toNacl, RequestCall(r))) = Elements(toNacl) \cup {RequestCall(r)}
    BY <1>1, Appends DEF Typed, Types
  <1>. QED
    BY <1>1, <1>2

LEMMA Replied ==
    ASSUME TypeOK, NEW f \in Shares, NEW op \in {"mount", "remount", "unmount"},
           NEW ok \in BOOLEAN, toJs' = Append(toJs, Reply(op, f, ok))
    PROVE  /\ Elements(toJs') = Elements(toJs) \cup {Reply(op, f, ok)}
           /\ Reply(op, f, ok).op = op /\ Reply(op, f, ok).share = f /\ Reply(op, f, ok).ok = ok
  <1>1. Reply(op, f, ok) \in Replies
    BY DEF Reply, Replies
  <1>2. Elements(Append(toJs, Reply(op, f, ok))) = Elements(toJs) \cup {Reply(op, f, ok)}
    BY <1>1, Appends
  <1>. QED
    BY <1>2 DEF Reply

LEMMA Asked ==
    ASSUME TypeOK, NEW f \in Shares, NEW op \in FspOps, fspCalls' = Append(fspCalls, Call(op, f))
    PROVE  /\ Elements(fspCalls') = Elements(fspCalls) \cup {Call(op, f)}
           /\ Call(op, f).op = op /\ Call(op, f).share = f
  <1>1. Call(op, f) \in FspCalls /\ Call(op, f).op = op /\ Call(op, f).share = f
    BY DEF Call, FspCalls
  <1>2. Elements(Append(fspCalls, Call(op, f))) = Elements(fspCalls) \cup {Call(op, f)}
    BY <1>1, Appends
  <1>. QED
    BY <1>1, <1>2

LEMMA AskedList ==
    ASSUME TypeOK, CredentialsLoaded
    PROVE  Elements(fspCalls') = Elements(fspCalls) \cup {Call("getAll", "none")}
  <1>1. Call("getAll", "none") \in FspCalls
    BY DEF Call, FspCalls
  <1>2. fspCalls' = Append(fspCalls, Call("getAll", "none"))
    BY DEF CredentialsLoaded
  <1>3. Elements(Append(fspCalls, Call("getAll", "none")))
          = Elements(fspCalls) \cup {Call("getAll", "none")}
    BY <1>1, Appends
  <1>. QED
    BY <1>2, <1>3

LEMMA AskedNext ==
    ASSUME TypeOK, NEW f, MountAnswered(f)
    PROVE  /\ f \in Shares
           /\ \/ fspCalls' = Tail(fspCalls)
              \/ /\ fspCalls' = Append(Tail(fspCalls), Call("get", f))
                 /\ Elements(fspCalls') = Elements(Tail(fspCalls)) \cup {Call("get", f)}
           /\ Call("get", f) \in FspCalls /\ Call("get", f).op = "get" /\ Call("get", f).share = f
  <1>1. f \in Shares
    BY FspHead DEF MountAnswered
  <1>2. Call("get", f) \in FspCalls /\ Call("get", f).op = "get" /\ Call("get", f).share = f
    BY <1>1 DEF Call, FspCalls, FspOps
  <1>3. Elements(Append(Tail(fspCalls), Call("get", f)))
          = Elements(Tail(fspCalls)) \cup {Call("get", f)}
    BY <1>2, FspTail DEF MountAnswered, FspAnswer
  <1>. QED
    BY <1>1, <1>2, <1>3 DEF MountAnswered, FspMount

LEMMA SaveAsked ==
    ASSUME TypeOK, NEW f \in Shares, NEW op \in {"mount", "unmount"}, NEW entries \in SUBSET Shares,
           saves' = Append(saves, Save(op, f, entries))
    PROVE  /\ Elements(saves') = Elements(saves) \cup {Save(op, f, entries)}
           /\ Save(op, f, entries).op = op /\ Save(op, f, entries).share = f
           /\ Save(op, f, entries).creds = entries /\ Save(op, f, entries) \in SaveCalls
  <1>1. Save(op, f, entries) \in SaveCalls
    BY DEF Save, SaveCalls
  <1>2. Elements(Append(saves, Save(op, f, entries))) = Elements(saves) \cup {Save(op, f, entries)}
    BY <1>1, Appends
  <1>. QED
    BY <1>1, <1>2 DEF Save

-----------------------------------------------------------------------------
(* Remembered shares.                                                      *)

\* An unmount of f is on its way, wherever.
UnmountIn(queue, f) == \E m \in Elements(queue) : m.op = "unmount" /\ m.share = f

LEMMA UnderWayElements ==
    ASSUME NEW f
    PROVE  UnderWay("unmount", f) <=>
               \/ UnmountIn(toNacl, f) \/ UnmountIn(toJs, f)
               \/ UnmountIn(fspCalls, f) \/ UnmountIn(saves, f)
  BY HoldsElements DEF UnderWay, UnmountIn

LEMMA UnderWayElementsNext ==
    ASSUME NEW f
    PROVE  UnderWay("unmount", f)' <=>
               \/ UnmountIn(toNacl', f) \/ UnmountIn(toJs', f)
               \/ UnmountIn(fspCalls', f) \/ UnmountIn(saves', f)
  BY DEF UnderWay, UnmountIn, Holds, Elements

\* Only the user's wish begins an unmount; the steps after it pass it on.
LEMMA UnmountsPassOn ==
    ASSUME Typed, [Next]_vars, NEW f \in Shares, UnderWay("unmount", f)'
    PROVE  UnderWay("unmount", f) \/ f \notin remembered'
  <1>. USE DEF Typed, Types
  <1>. DEFINE Was == \/ UnmountIn(toNacl, f) \/ UnmountIn(toJs, f)
                     \/ UnmountIn(fspCalls, f) \/ UnmountIn(saves, f)
              Is == \/ UnmountIn(toNacl', f) \/ UnmountIn(toJs', f)
                    \/ UnmountIn(fspCalls', f) \/ UnmountIn(saves', f)
  <1>. SUFFICES ASSUME ~Was, f \in remembered'
                PROVE  ~Is
    BY UnderWayElements, UnderWayElementsNext
  <1>1. CASE UNCHANGED queueVars
    BY <1>1 DEF queueVars
  <1>2. CASE CredentialsLoaded
    <2>1. Call("getAll", "none").op # "unmount"
      BY DEF Call
    <2>. QED
      BY <1>2, <2>1, AskedList DEF CredentialsLoaded, UnmountIn
  <1>3. CASE ListAnswered
    <2>1. \A m \in Elements(fspCalls') : m \in Elements(fspCalls) \/ m.op # "unmount"
      BY <1>3, ListQueue, FspTail DEF ListAnswered
    <2>. QED
      BY <1>3, <2>1 DEF ListAnswered, PopulateMounts, FspFrame, UnmountIn
  <1>4. ASSUME NEW g \in Shares, Mount(g)  PROVE ~Is
    BY <1>4, SentCall DEF Mount, UnmountIn
  <1>5. ASSUME NEW g \in Shares, Unmount(g)  PROVE ~Is
    BY <1>5, SentCall DEF Unmount, UnmountIn
  <1>6. ASSUME NEW r \in Requests, Admit(r)  PROVE ~Is
    BY <1>6, SentCall DEF Admit, UnmountIn, RequestsNamed
  <1>7. ASSUME NEW r \in Requests, Route(r)  PROVE ~Is
    BY <1>7, SentRequest DEF Route, UnmountIn
  <1>8. ASSUME NEW g, BootUnmountAnswered(g)  PROVE ~Is
    BY <1>8, FspTail DEF BootUnmountAnswered, FspAnswer, FspFrame, BootUnmount, UnmountIn
  <1>9. ASSUME NEW g, MountAnswered(g)  PROVE ~Is
    BY ZenonT(30), <1>9, FspTail, AskedNext DEF MountAnswered, FspAnswer, FspFrame, FspMount, UnmountIn
  <1>10. ASSUME NEW g, GetAnswered(g)  PROVE ~Is
    <2>. USE <1>10 DEF GetAnswered, FspAnswer, FspGet
    <2>1. g \in Shares /\ creds \cup {g} \in SUBSET Shares
      BY FspHead DEF TypeOK
    <2>2. ~UnmountIn(saves', f)
      <3>1. CASE UNCHANGED saves
        BY <3>1
      <3>2. CASE \E entries \in SUBSET Shares : saves' = Append(saves, Save("mount", g, entries))
        <4>1. PICK entries \in SUBSET Shares : saves' = Append(saves, Save("mount", g, entries))
          BY <3>2
        <4>2. /\ Elements(saves') = Elements(saves) \cup {Save("mount", g, entries)}
              /\ Save("mount", g, entries).op = "mount"
          BY <2>1, <4>1, SaveAsked
        <4>. QED
          BY <4>2 DEF UnmountIn
      <3>. QED
        BY <2>1, <3>1, <3>2
    <2>. QED
      BY <2>2, FspTail DEF FspFrame, UnmountIn
  <1>11. ASSUME NEW g, UnmountAnswered(g)  PROVE ~Is
    <2>. USE <1>11 DEF UnmountAnswered, FspAnswer, FspUnmount
    <2>1. g \in Shares /\ creds \ {g} \in SUBSET Shares
      BY FspHead DEF TypeOK
    <2>2. g # f
      BY FspTail DEF UnmountIn
    <2>3. ~UnmountIn(saves', f)
      <3>1. saves' = Append(saves, Save("unmount", g, creds \ {g}))
        OBVIOUS
      <3>2. /\ Elements(saves') = Elements(saves) \cup {Save("unmount", g, creds \ {g})}
            /\ Save("unmount", g, creds \ {g}).share = g
        BY ZenonT(30), <2>1, <3>1, SaveAsked
      <3>. QED
        BY <2>2, <3>2 DEF UnmountIn
    <2>. QED
      BY <2>3, FspTail DEF FspFrame, UnmountIn
  <1>12. CASE SaveSucceeds \/ SaveFails
    <2>1. saves # <<>> /\ saves' = Tail(saves) /\ UNCHANGED <<toNacl, toJs, fspCalls>>
      BY <1>12 DEF SaveSucceeds, SaveFails
    <2>. QED
      BY <2>1, Heads DEF UnmountIn
  <1>13. CASE HandleReply
    <2>. USE <1>13 DEF HandleReply
    <2>. DEFINE reply == Head(toJs)
    <2>1. /\ reply.share \in Shares
          /\ Elements(toJs) = Elements(toJs') \cup {reply}
      BY Heads
    <2>2. ~UnmountIn(fspCalls', f)
      <3>1. CASE UNCHANGED fspCalls
        BY <3>1
      <3>2. CASE /\ reply.op \in {"mount", "unmount"}
                 /\ fspCalls' = Append(fspCalls, Call(reply.op, reply.share))
        <4>1. /\ Elements(fspCalls') = Elements(fspCalls) \cup {Call(reply.op, reply.share)}
              /\ Call(reply.op, reply.share).op = reply.op
              /\ Call(reply.op, reply.share).share = reply.share
          <5>1. reply.op \in FspOps
            BY <3>2 DEF FspOps
          <5>. HIDE DEF reply
          <5>. QED
            BY <2>1, <3>2, <5>1, Asked
        <4>. QED
          BY <2>1, <4>1 DEF UnmountIn
      <3>. QED
        BY <3>1, <3>2
    <2>. QED
      BY <2>1, <2>2 DEF UnmountIn
  <1>14. CASE NaclServes
    <2>. USE <1>14 DEF NaclServes
    <2>. DEFINE call == Head(toNacl)
    <2>1. /\ call.share \in Shares
          /\ Elements(toNacl) = Elements(toNacl') \cup {call}
      BY Heads
    <2>2. ~UnmountIn(toJs', f)
      <3>1. CASE UNCHANGED toJs
        BY <3>1
      <3>2. CASE /\ call.op \in {"mount", "remount"}
                 /\ \E ok \in BOOLEAN : toJs' = Append(toJs, Reply(call.op, call.share, ok))
        BY <2>1, <3>2, Replied DEF UnmountIn
      <3>3. CASE call.op = "unmount" /\ toJs' = Append(toJs, Reply("unmount", call.share, TRUE))
        <4>1. /\ Elements(toJs') = Elements(toJs) \cup {Reply("unmount", call.share, TRUE)}
              /\ Reply("unmount", call.share, TRUE).share = call.share
          BY <2>1, <3>3, Replied
        <4>. QED
          BY <2>1, <3>3, <4>1 DEF UnmountIn
      <3>. QED
        BY <3>1, <3>2, <3>3 DEF NaclMount, NaclRefuses, NaclUnmount
    <2>. QED
      BY <2>1, <2>2 DEF UnmountIn
  <1>15. CASE Restart
    BY <1>15, ElementsEmpty DEF Restart, UnmountIn
  <1>16. UNCHANGED vars => UNCHANGED queueVars
    BY DEF vars
  <1>17. LoadFails => UNCHANGED queueVars
    BY DEF LoadFails
  <1>18. \A r, g : AskFile(r, g) => UNCHANGED queueVars
    BY DEF AskFile
  <1>19. CASE ListRefused
    BY <1>19, FspTail DEF ListRefused, ListFails, FspFrame, UnmountIn
  <1>. QED
    BY <1>1, <1>2, <1>3, <1>4, <1>5, <1>6, <1>7, <1>8, <1>9, <1>10, <1>11, <1>12, <1>13, <1>14,
       <1>15, <1>16, <1>17, <1>18, <1>19, StepCases

\* In a queue of saves, the i-th is followed by the save of an unmount of its
\* share; or all from the i-th on have its share.
Undone(q, i) == \E k \in 1..Len(q) : k > i /\ q[k].op = "unmount" /\ q[k].share = q[i].share
KeptFrom(q, i) == \A j \in i..Len(q) : q[i].share \in q[j].creds

\* The share of a mount to be saved is still in the set listed, of the registered
\* shares, and in the set entries, of those with credentials, and every later
\* save has it, unless an unmount of it is to be saved later.
SavesKept(q, listed, entries) ==
    \A i \in 1..Len(q) :
        q[i].op = "mount" =>
            Undone(q, i) \/ (q[i].share \in listed \cap entries /\ KeptFrom(q, i))

RememberedKept ==
    /\ \A f \in remembered : ~UnderWay("unmount", f)
    /\ ~early =>
         /\ remembered \subseteq registered \cap stored
         /\ CredsKnown => remembered \subseteq creds
         /\ \A m \in Elements(saves) : remembered \subseteq m.creds
         /\ SavesKept(saves, registered, creds)
         /\ phase = "unmounting" => departing \cap creds = {}

LEMMA SavesKeptEmpty == \A listed, entries : SavesKept(<<>>, listed, entries)
  BY DEF SavesKept

LEMMA SavesKeptTail ==
    ASSUME NEW q \in Seq(SaveCalls), q # <<>>, NEW listed, NEW entries, SavesKept(q, listed, entries)
    PROVE  /\ SavesKept(Tail(q), listed, entries)
           /\ Head(q).op = "mount" =>
                \/ \E m \in Elements(q) : m.op = "unmount" /\ m.share = Head(q).share
                \/ /\ Head(q).share \in listed \cap entries
                   /\ \A m \in Elements(q) : Head(q).share \in m.creds
  <1>0. /\ Len(q) \in Nat \ {0} /\ Len(Tail(q)) = Len(q) - 1 /\ Head(q) = q[1]
        /\ \A i \in 1..Len(Tail(q)) : i + 1 \in 1..Len(q) /\ Tail(q)[i] = q[i + 1]
    BY TailShifts
  <1>1. ASSUME NEW i \in 1..Len(Tail(q)), Tail(q)[i].op = "mount"
        PROVE  \/ Undone(Tail(q), i)
               \/ Tail(q)[i].share \in listed \cap entries /\ KeptFrom(Tail(q), i)
    <2>1. i + 1 \in 1..Len(q) /\ Tail(q)[i] = q[i + 1] /\ q[i + 1].op = "mount"
      BY <1>0, <1>1
    <2>2. CASE Undone(q, i + 1)
      <3>1. PICK k \in 1..Len(q) :
                    k > i + 1 /\ q[k].op = "unmount" /\ q[k].share = q[i + 1].share
        BY <2>2 DEF Undone
      <3>2. k - 1 \in 1..Len(Tail(q)) /\ k - 1 > i /\ (k - 1) + 1 = k
        BY <1>0, <3>1
      <3>3. Tail(q)[k - 1] = q[k]
        BY <1>0, <3>2
      <3>. QED
        BY <2>1, <3>1, <3>2, <3>3 DEF Undone
    <2>3. CASE q[i + 1].share \in listed \cap entries /\ KeptFrom(q, i + 1)
      <3>1. ASSUME NEW j \in i..Len(Tail(q))
            PROVE  q[i + 1].share \in Tail(q)[j].creds
        <4>1. j \in 1..Len(Tail(q)) /\ j + 1 \in (i + 1)..Len(q)
          BY <1>0, <3>1
        <4>2. Tail(q)[j] = q[j + 1]
          BY <1>0, <4>1
        <4>. QED
          BY <2>3, <4>1, <4>2 DEF KeptFrom
      <3>. QED
        BY <2>1, <2>3, <3>1 DEF KeptFrom
    <2>. QED
      BY <2>1, <2>2, <2>3 DEF SavesKept
  <1>2. ASSUME Head(q).op = "mount"
        PROVE  \/ \E m \in Elements(q) : m.op = "unmount" /\ m.share = Head(q).share
               \/ /\ Head(q).share \in listed \cap entries
                  /\ \A m \in Elements(q) : Head(q).share \in m.creds
    <2>1. 1 \in 1..Len(q)
      BY <1>0
    <2>2. Undone(q, 1) \/ (q[1].share \in listed \cap entries /\ KeptFrom(q, 1))
      BY <1>0, <1>2, <2>1 DEF SavesKept
    <2>. QED
      BY <1>0, <2>2 DEF Undone, KeptFrom, Elements
  <1>. QED
    BY <1>1, <1>2 DEF SavesKept

LEMMA SavesKeptAppend ==
    ASSUME NEW q \in Seq(SaveCalls), NEW x \in SaveCalls,
           NEW listed, NEW entries, SavesKept(q, listed, entries),
           NEW listed2, NEW entries2,
           \A f \in listed \cap entries :
               \/ f \in listed2 \cap entries2 /\ f \in x.creds
               \/ x.op = "unmount" /\ x.share = f,
           x.op = "mount" => x.share \in listed2 \cap entries2 /\ x.share \in x.creds
    PROVE  SavesKept(Append(q, x), listed2, entries2)
  <1>. DEFINE a == Append(q, x)
  <1>0. /\ Len(a) = Len(q) + 1 /\ Len(q) \in Nat /\ a[Len(q) + 1] = x
        /\ \A i \in 1..Len(q) : a[i] = q[i]
    BY AppendExtends
  <1>. HIDE DEF a
  <1>1. ASSUME NEW i \in 1..Len(q), q[i].op = "mount"
        PROVE  Undone(a, i) \/ (a[i].share \in listed2 \cap entries2 /\ KeptFrom(a, i))
    <2>1. CASE Undone(q, i)
      BY <1>0, <2>1 DEF Undone
    <2>2. CASE q[i].share \in listed \cap entries /\ KeptFrom(q, i)
      <3>1. CASE x.op = "unmount" /\ x.share = q[i].share
        <4>1. Len(q) + 1 \in 1..Len(a) /\ Len(q) + 1 > i
          BY <1>0
        <4>. QED
          BY <1>0, <3>1, <4>1 DEF Undone
      <3>2. CASE q[i].share \in listed2 \cap entries2 /\ q[i].share \in x.creds
        <4>1. ASSUME NEW j \in i..Len(a)  PROVE q[i].share \in a[j].creds
          <5>1. CASE j \in i..Len(q)
            <6>1. j \in 1..Len(q)
              BY <5>1
            <6>. QED
              BY <1>0, <2>2, <5>1, <6>1 DEF KeptFrom
          <5>2. CASE j = Len(q) + 1
            BY <1>0, <3>2, <5>2
          <5>. QED
            BY <1>0, <5>1, <5>2
        <4>. QED
          BY <1>0, <3>2, <4>1 DEF KeptFrom
      <3>. QED
        BY <2>2, <3>1, <3>2
    <2>. QED
      BY <1>1, <2>1, <2>2 DEF SavesKept
  <1>2. ASSUME x.op = "mount"
        PROVE  x.share \in listed2 \cap entries2 /\ KeptFrom(a, Len(q) + 1)
    BY <1>0, <1>2 DEF KeptFrom
  <1>3. \A i \in 1..Len(a) : i \in 1..Len(q) \/ i = Len(q) + 1
    BY <1>0
  <1>4. SavesKept(a, listed2, entries2)
    BY <1>0, <1>1, <1>2, <1>3 DEF SavesKept
  <1>. QED
    BY <1>4 DEF a

LEMMA SaveMade ==
    ASSUME TypeOK, NEW f \in Shares, NEW op \in {"mount", "unmount"}, NEW entries \in SUBSET Shares,
           saves' = Append(saves, Save(op, f, entries))
    PROVE  \E x \in SaveCalls :
              /\ saves' = Append(saves, x) /\ Elements(saves') = Elements(saves) \cup {x}
              /\ x.op = op /\ x.share = f /\ x.creds = entries
  BY SaveAsked

LEMMA RememberedKeptStep ==
    ASSUME Typed, StartOrder, LastSaveCurrent, RememberedKept, [Next]_vars
    PROVE  RememberedKept'
  <1>. USE DEF Typed, Types
  <1>0. saves \in Seq(SaveCalls) /\ early \in BOOLEAN
    BY DEF TypeOK
  <1>a. ~early => /\ remembered \subseteq registered \cap stored
                  /\ CredsKnown => remembered \subseteq creds
                  /\ \A m \in Elements(saves) : remembered \subseteq m.creds
                  /\ SavesKept(saves, registered, creds)
                  /\ phase = "unmounting" => departing \cap creds = {}
                  /\ phase # "populated" => saves = <<>>
    BY DEF RememberedKept, LastSaveCurrent
  <1>b. \A f \in remembered : ~UnderWay("unmount", f)
    BY DEF RememberedKept
  <1>. DEFINE Goal ==
           /\ remembered' \subseteq registered' \cap stored'
           /\ CredsKnown' => remembered' \subseteq creds'
           /\ \A m \in Elements(saves') : remembered' \subseteq m.creds
           /\ SavesKept(saves', registered', creds')
           /\ phase' = "unmounting" => departing' \cap creds' = {}
  <1>1. ASSUME ~early', StorageFrame  PROVE Goal
    BY <1>a, <1>1 DEF CredsKnown, StorageFrame
  <1>2. ASSUME ~early', CredentialsLoaded  PROVE Goal
    BY <1>a, <1>2, SavesKeptEmpty, ElementsEmpty
    DEF CredentialsLoaded, persistentVars, historyVars
  <1>3. ASSUME ~early', LoadFails  PROVE Goal
    BY <1>a, <1>3 DEF LoadFails, persistentVars, queueVars, historyVars, CredsKnown
  <1>4. ASSUME ~early', ListAnswered  PROVE Goal
    <2>1. /\ UNCHANGED <<creds, saves, stored, registered, early, remembered>>
          /\ departing' = registered \ creds
      BY <1>4 DEF ListAnswered, PopulateMounts, persistentVars, historyVars
    <2>2. phase = "listing"
      BY <1>4, FspTail DEF StartOrder, ListAnswered
    <2>. QED
      BY <1>a, <1>4, <2>1, <2>2 DEF CredsKnown
  <1>5. ASSUME NEW f, ~early', BootUnmountAnswered(f)  PROVE Goal
    <2>1. phase = "unmounting" /\ f \in departing
      BY <1>5, FspTail DEF StartOrder, BootUnmountAnswered, FspAnswer
    <2>2. /\ UNCHANGED <<creds, saves, stored, early, remembered>>
          /\ registered \ {f} \subseteq registered' /\ departing' \subseteq departing
      BY <1>5 DEF BootUnmountAnswered, BootUnmount
    <2>3. f \notin remembered
      BY <1>a, <1>5, <2>1, <2>2 DEF CredsKnown
    <2>4. saves = <<>>
      BY <1>a, <1>5, <2>1, <2>2
    <2>. QED
      BY <1>a, <1>5, <2>1, <2>2, <2>3, <2>4, SavesKeptEmpty DEF CredsKnown
  <1>6. ASSUME NEW f, ~early', MountAnswered(f)  PROVE Goal
    <2>1. /\ UNCHANGED <<phase, departing, creds, saves, stored, remembered>> /\ ~early
          /\ registered \subseteq registered'
      BY <1>6, Noted DEF MountAnswered, FspMount
    <2>2. SavesKept(saves', registered', creds')
      BY <1>a, <2>1 DEF SavesKept
    <2>. QED
      BY <1>a, <2>1, <2>2 DEF CredsKnown
  <1>7. ASSUME NEW f, ~early', GetAnswered(f)  PROVE Goal
    <2>1. /\ UNCHANGED <<phase, departing, stored, registered, remembered>> /\ ~early
          /\ f \in Shares
      BY <1>7, Noted, FspHead DEF GetAnswered, FspGet, persistentVars
    <2>2. CASE UNCHANGED <<creds, saves>>
      BY <1>a, <2>1, <2>2 DEF CredsKnown
    <2>3. CASE /\ f \in registered /\ phase = "populated"
               /\ creds' = creds \cup {f} /\ saves' = Append(saves, Save("mount", f, creds'))
      <3>1. creds' \in SUBSET Shares
        BY <2>1, <2>3 DEF TypeOK
      <3>2. PICK x \in SaveCalls :
                    /\ saves' = Append(saves, x) /\ Elements(saves') = Elements(saves) \cup {x}
                    /\ x.op = "mount" /\ x.share = f /\ x.creds = creds'
        <4>1. PICK entries \in SUBSET Shares :
                      entries = creds' /\ saves' = Append(saves, Save("mount", f, entries))
          BY <2>1, <2>3, <3>1
        <4>2. \E x \in SaveCalls :
                  /\ saves' = Append(saves, x) /\ Elements(saves') = Elements(saves) \cup {x}
                  /\ x.op = "mount" /\ x.share = f /\ x.creds = entries
          BY <2>1, <4>1, SaveMade
        <4>. QED
          BY <4>1, <4>2
      <3>3. SavesKept(saves', registered', creds')
        <4>1. \A g \in registered \cap creds : g \in registered' \cap creds' /\ g \in x.creds
          BY <2>1, <2>3, <3>2
        <4>2. x.share \in registered' \cap creds' /\ x.share \in x.creds
          BY <2>1, <2>3, <3>2
        <4>. QED
          BY <1>0, <1>a, <2>1, <3>2, <4>1, <4>2, SavesKeptAppend
      <3>. QED
        BY <1>a, <2>1, <2>3, <3>2, <3>3 DEF CredsKnown
    <2>. QED
      BY <1>7, <2>2, <2>3, Noted DEF GetAnswered, FspGet
  <1>8. ASSUME NEW f, ~early', UnmountAnswered(f)  PROVE Goal
    <2>1. /\ UNCHANGED <<phase, departing, stored, remembered>> /\ ~early /\ phase = "populated"
          /\ registered \ {f} \subseteq registered' /\ creds' = creds \ {f}
          /\ saves' = Append(saves, Save("unmount", f, creds')) /\ f \in Shares
      BY <1>8, Noted, FspHead DEF UnmountAnswered, FspUnmount
    <2>2. f \notin remembered
      BY <1>8, <1>b, FspTail, UnderWayElements DEF UnmountAnswered, FspAnswer, UnmountIn
    <2>3. creds' \in SUBSET Shares
      BY <2>1 DEF TypeOK
    <2>4. PICK x \in SaveCalls :
                  /\ saves' = Append(saves, x) /\ Elements(saves') = Elements(saves) \cup {x}
                  /\ x.op = "unmount" /\ x.share = f /\ x.creds = creds'
      <3>1. PICK entries \in SUBSET Shares :
                    entries = creds' /\ saves' = Append(saves, Save("unmount", f, entries))
        BY <2>1, <2>3
      <3>2. \E x \in SaveCalls :
                /\ saves' = Append(saves, x) /\ Elements(saves') = Elements(saves) \cup {x}
                /\ x.op = "unmount" /\ x.share = f /\ x.creds = entries
        <4>1. f \in Shares /\ TypeOK
          BY <2>1
        <4>. QED
          BY <3>1, <4>1, SaveMade
      <3>. QED
        BY <3>1, <3>2
    <2>5. SavesKept(saves', registered', creds')
      <3>1. \A g \in registered \cap creds :
               \/ g \in registered' \cap creds' /\ g \in x.creds
               \/ x.op = "unmount" /\ x.share = g
        BY <2>1, <2>4
      <3>. QED
        BY <1>0, <1>a, <2>1, <2>4, <3>1, SavesKeptAppend
    <2>. QED
      BY <1>a, <2>1, <2>2, <2>4, <2>5 DEF CredsKnown
  <1>9. ASSUME ~early', SaveSucceeds  PROVE Goal
    <2>. DEFINE save == Head(saves)
    <2>1. /\ saves # <<>> /\ saves' = Tail(saves) /\ stored' = save.creds /\ ~early
          /\ UNCHANGED <<creds, phase, departing, registered>>
          /\ \/ UNCHANGED remembered
             \/ /\ save.op = "mount" /\ ~UnderWay("unmount", save.share)
                /\ remembered' = remembered \cup {save.share}
      BY <1>9 DEF SaveSucceeds
    <2>2. Elements(saves) = Elements(saves') \cup {save}
      BY <2>1, Heads
    <2>3. /\ SavesKept(saves', registered', creds')
          /\ save.op = "mount" =>
                \/ UnmountIn(saves, save.share)
                \/ /\ save.share \in registered \cap creds
                   /\ \A m \in Elements(saves) : save.share \in m.creds
      BY <1>0, <1>a, <2>1, SavesKeptTail DEF UnmountIn
    <2>. HIDE DEF save
    <2>4. CASE UNCHANGED remembered
      BY <1>a, <2>1, <2>2, <2>3, <2>4 DEF CredsKnown
    <2>5. CASE /\ save.op = "mount" /\ ~UnderWay("unmount", save.share)
               /\ remembered' = remembered \cup {save.share}
      <3>1. /\ save.share \in registered \cap creds
            /\ \A m \in Elements(saves) : save.share \in m.creds
        BY <2>3, <2>5, UnderWayElements
      <3>. QED
        BY <1>a, <2>1, <2>2, <2>3, <2>5, <3>1 DEF CredsKnown
    <2>. QED
      BY <2>1, <2>4, <2>5
  <1>10. ASSUME ~early', SaveFails  PROVE Goal
    <2>1. /\ saves # <<>> /\ saves' = Tail(saves) /\ ~early
          /\ UNCHANGED <<creds, phase, departing, registered, stored, remembered>>
      BY <1>10 DEF SaveFails, persistentVars
    <2>2. Elements(saves) = Elements(saves') \cup {Head(saves)}
      BY <2>1, Heads
    <2>3. SavesKept(saves', registered', creds')
      BY <1>0, <1>a, <2>1, SavesKeptTail
    <2>. QED
      BY <1>a, <2>1, <2>2, <2>3 DEF CredsKnown
  <1>11. ASSUME ~early', Restart  PROVE Goal
    BY <1>a, <1>11, SavesKeptEmpty, ElementsEmpty DEF Restart, CredsKnown, persistentVars
  <1>12. ASSUME ~early', ListRefused  PROVE Goal
    <2>1. phase = "listing" /\ phase' = "stuck"
      BY <1>12, FspTail DEF StartOrder, ListRefused, ListFails
    <2>2. UNCHANGED <<creds, saves, stored, registered, early, remembered>>
      BY <1>12 DEF ListRefused, ListFails, persistentVars, historyVars
    <2>. QED
      BY <1>a, <1>12, <2>1, <2>2 DEF CredsKnown
  <1>. HIDE DEF Goal
  <1>13. ~early' => Goal
    BY <1>1, <1>2, <1>3, <1>4, <1>5, <1>6, <1>7, <1>8, <1>9, <1>10, <1>11, <1>12, StorageCases
  <1>14. \A f \in remembered' : ~UnderWay("unmount", f)'
    <2>1. ASSUME NEW f \in remembered', f \notin remembered
          PROVE  ~UnderWay("unmount", f)
      <3>1. SaveSucceeds => ~UnderWay("unmount", f)
        BY <2>1 DEF SaveSucceeds
      <3>2. \A g : BootUnmount(g) \/ FspMount(g) \/ FspGet(g) \/ FspUnmount(g) => UNCHANGED remembered
        BY DEF BootUnmount, FspMount, FspGet, FspUnmount
      <3>3. CredentialsLoaded \/ LoadFails \/ ListAnswered \/ ListRefused \/ SaveFails \/ Restart
              => UNCHANGED remembered
        BY DEF CredentialsLoaded, LoadFails, ListAnswered, PopulateMounts, ListRefused, ListFails,
               SaveFails, Restart, historyVars
      <3>4. remembered' \subseteq remembered \/ SaveSucceeds
        <4>1. StorageFrame => remembered' \subseteq remembered
          BY DEF StorageFrame
        <4>. QED
          BY <3>2, <3>3, <4>1, StorageCases
          DEF BootUnmountAnswered, MountAnswered, GetAnswered, UnmountAnswered
      <3>. QED
        BY <2>1, <3>1, <3>4
    <2>2. remembered' \subseteq Shares
      BY TypesStep DEF TypeOK
    <2>. QED
      BY <1>b, <2>1, <2>2, UnmountsPassOn
  <1>. QED
    BY <1>13, <1>14 DEF RememberedKept, Goal

\* A share that was mounted with its credentials saved is still in Chrome's list
\* and still has its credentials until the user asks to unmount it, for any
\* number of shares, mounts, failed calls and restarts: no save that is under way
\* lacks it, and populateMounts_ finds its credentials before it lists the shares.
THEOREM RememberedSharesSurvive == Spec => []RememberedSurvives
  <1>1. Init => RememberedKept /\ SavedInStep
    BY ElementsEmpty, SavesKeptEmpty
    DEF Init, RememberedKept, CredsKnown, UnderWay, Holds, SavedInStep, LastSaveCurrent,
        StorageInStep
  <1>2. Typed /\ StartOrder /\ SavedInStep /\ RememberedKept /\ [Next]_vars
          => (SavedInStep /\ RememberedKept)'
    BY RememberedKeptStep, SavedInStepStep DEF SavedInStep
  <1>3. RememberedKept => RememberedSurvives
    BY DEF RememberedKept, RememberedSurvives
  <1>. QED
    BY <1>1, <1>2, <1>3, AlwaysTyped, AlwaysOrdered, PTL DEF Spec

-----------------------------------------------------------------------------
(* Shown shares.                                                           *)

In(q, op, f) == \E m \in Elements(q) : m.op = op /\ m.share = f

\* In q, every message of M about a share that is not in S is followed by an
\* unmount of it.
UnmountAfter(q, i) == \E k \in 1..Len(q) : k > i /\ q[k].op = "unmount" /\ q[k].share = q[i].share
Covered(q, M, S) == \A i \in 1..Len(q) : q[i] \in M => q[i].share \in S \/ UnmountAfter(q, i)

LEMMA CoveredEmpty == \A M, S : Covered(<<>>, M, S)
  BY DEF Covered

LEMMA CoveredMore ==
    ASSUME NEW q, NEW M, NEW S, NEW S2, Covered(q, M, S), S \subseteq S2
    PROVE  Covered(q, M, S2)
  BY DEF Covered

LEMMA CoveredTail ==
    ASSUME NEW T, NEW q \in Seq(T), q # <<>>, NEW M, NEW S, Covered(q, M, S)
    PROVE  /\ Covered(Tail(q), M, S)
           /\ Head(q) \in M => Head(q).share \in S \/ In(Tail(q), "unmount", Head(q).share)
  <1>0. /\ Len(q) \in Nat \ {0} /\ Len(Tail(q)) = Len(q) - 1 /\ Head(q) = q[1]
        /\ \A i \in 1..Len(Tail(q)) : i + 1 \in 1..Len(q) /\ Tail(q)[i] = q[i + 1]
    BY TailShifts
  <1>1. ASSUME NEW i \in 1..Len(q), NEW k \in 1..Len(q), k > i
        PROVE  k - 1 \in 1..Len(Tail(q)) /\ Tail(q)[k - 1] = q[k] /\ k - 1 > i - 1
    <2>1. k - 1 \in 1..Len(Tail(q)) /\ (k - 1) + 1 = k /\ k - 1 > i - 1
      BY <1>0, <1>1
    <2>2. Tail(q)[k - 1] = q[(k - 1) + 1]
      BY <1>0, <2>1
    <2>. QED
      BY <2>1, <2>2
  <1>2. ASSUME NEW i \in 1..Len(Tail(q)), Tail(q)[i] \in M
        PROVE  Tail(q)[i].share \in S \/ UnmountAfter(Tail(q), i)
    <2>1. i + 1 \in 1..Len(q) /\ Tail(q)[i] = q[i + 1] /\ (i + 1) - 1 = i
      BY <1>0
    <2>2. CASE q[i + 1].share \in S
      BY <2>1, <2>2
    <2>3. CASE UnmountAfter(q, i + 1)
      <3>1. PICK k \in 1..Len(q) :
                    k > i + 1 /\ q[k].op = "unmount" /\ q[k].share = q[i + 1].share
        BY <2>3 DEF UnmountAfter
      <3>2. k - 1 \in 1..Len(Tail(q)) /\ Tail(q)[k - 1] = q[k] /\ k - 1 > i
        BY <1>1, <2>1, <3>1
      <3>. QED
        BY <2>1, <3>1, <3>2 DEF UnmountAfter
    <2>. QED
      BY <1>2, <2>1, <2>2, <2>3 DEF Covered
  <1>3. ASSUME Head(q) \in M, Head(q).share \notin S
        PROVE  In(Tail(q), "unmount", Head(q).share)
    <2>1. 1 \in 1..Len(q)
      BY <1>0
    <2>2. PICK k \in 1..Len(q) : k > 1 /\ q[k].op = "unmount" /\ q[k].share = q[1].share
      BY <1>0, <1>3, <2>1 DEF Covered, UnmountAfter
    <2>3. k - 1 \in 1..Len(Tail(q)) /\ Tail(q)[k - 1] = q[k]
      BY <1>1, <2>1, <2>2
    <2>. QED
      BY <1>0, <2>2, <2>3 DEF In, Elements
  <1>. QED
    BY <1>2, <1>3 DEF Covered

\* What is appended may be the unmount that covers the shares no longer in S.
LEMMA CoveredAppend ==
    ASSUME NEW T, NEW q \in Seq(T), NEW x \in T, NEW M, NEW S, NEW S2, Covered(q, M, S),
           \A f \in S : f \in S2 \/ (x.op = "unmount" /\ x.share = f),
           x \in M => x.share \in S2
    PROVE  Covered(Append(q, x), M, S2)
  <1>. DEFINE a == Append(q, x)
  <1>0. /\ Len(a) = Len(q) + 1 /\ Len(q) \in Nat /\ a[Len(q) + 1] = x
        /\ \A i \in 1..Len(q) : a[i] = q[i]
    BY AppendExtends
  <1>. HIDE DEF a
  <1>1. ASSUME NEW i \in 1..Len(q), q[i] \in M
        PROVE  a[i].share \in S2 \/ UnmountAfter(a, i)
    <2>1. CASE UnmountAfter(q, i)
      BY <1>0, <2>1 DEF UnmountAfter
    <2>2. CASE x.op = "unmount" /\ x.share = q[i].share
      <3>1. Len(q) + 1 \in 1..Len(a) /\ Len(q) + 1 > i
        BY <1>0
      <3>. QED
        BY <1>0, <2>2, <3>1 DEF UnmountAfter
    <2>3. CASE q[i].share \in S2
      BY <1>0, <2>3
    <2>. QED
      BY <1>1, <2>1, <2>2, <2>3 DEF Covered
  <1>2. \A i \in 1..Len(a) : i \in 1..Len(q) \/ i = Len(q) + 1
    BY <1>0
  <1>3. Covered(a, M, S2)
    BY <1>0, <1>1, <1>2 DEF Covered
  <1>. QED
    BY <1>3 DEF a

LEMMA CoveredConcat ==
    ASSUME NEW T, NEW q \in Seq(T), NEW t \in Seq(T), NEW M, NEW S, Covered(q, M, S),
           \A m \in Elements(t) : m \notin M
    PROVE  Covered(q \o t, M, S)
  <1>. DEFINE a == q \o t
  <1>0. /\ Len(a) = Len(q) + Len(t) /\ Len(q) \in Nat /\ Len(t) \in Nat
        /\ \A i \in 1..Len(q) : a[i] = q[i]
        /\ \A i \in 1..Len(t) : a[Len(q) + i] = t[i]
        /\ \A i \in 1..Len(a) : i \in 1..Len(q) \/ i - Len(q) \in 1..Len(t)
    BY ConcatJoins
  <1>. HIDE DEF a
  <1>1. ASSUME NEW i \in 1..Len(q), q[i] \in M
        PROVE  a[i].share \in S \/ UnmountAfter(a, i)
    <2>1. \A k \in 1..Len(q) : k \in 1..Len(a)
      BY <1>0
    <2>. QED
      BY <1>0, <1>1, <2>1 DEF Covered, UnmountAfter
  <1>2. ASSUME NEW i \in 1..Len(a), i - Len(q) \in 1..Len(t)
        PROVE  a[i] \notin M
    <2>1. Len(q) + (i - Len(q)) = i
      BY <1>0
    <2>2. a[i] = t[i - Len(q)]
      BY <1>0, <1>2, <2>1
    <2>. QED
      BY <1>2, <2>2 DEF Elements
  <1>3. Covered(a, M, S)
    BY <1>0, <1>1, <1>2 DEF Covered
  <1>. QED
    BY <1>3 DEF a

\* The replies and the calls that make the page, or Chrome, take a share for mounted.
MountsMade == {m \in Replies : m.op \in {"mount", "remount"} /\ m.ok}
MountCalls == {m \in FspCalls : m.op = "mount"}

\* The module has f mounted, or an unmount is on its way back to the page.
Held == {f \in Shares : f \in naclMounts \/ In(toJs, "unmount", f)}

\* Or it is on its way to Chrome.
Backed(f) == f \in naclMounts \/ In(toJs, "unmount", f) \/ In(fspCalls, "unmount", f)

\* A mount on its way to Chrome's list, or to the page's table, is in the module,
\* unless an unmount comes after it; the module never refuses an unmount.
MountsBacked ==
    /\ \A m \in Elements(toJs) : m.op = "unmount" => m.ok
    /\ Covered(toJs, MountsMade, naclMounts)
    /\ Covered(fspCalls, MountCalls, Held)
    /\ \A f \in registered \ excused : In(fspCalls, "get", f) => Backed(f)

\* What is under way for a share that Chrome lists, by its entry in the table.
Served(f) ==
    \/ In(fspCalls, "get", f)
    \/ mounts[f] = Null
    \/ mounts[f] = "remounting" /\ (In(toNacl, "remount", f) \/ In(toJs, "remount", f))
    \/ mounts[f] = "mounting" /\ In(saves, "mount", f) /\ Backed(f)
    \/ mounts[f] = "mounted" /\ Backed(f)

ShownServed ==
    ~early =>
        /\ phase = "unmounting" =>
              \A f \in (registered \ excused) \ departing : mounts[f] = Null
        /\ phase = "populated" => \A f \in registered \ excused : Served(f)

\* The steps that add no reply and no call to Chrome and take none.
BackedFrame == UNCHANGED <<toJs, fspCalls, naclMounts, registered>> /\ excused \subseteq excused'

LEMMA BackedCases ==
    ASSUME [Next]_vars
    PROVE  \/ BackedFrame \/ CredentialsLoaded \/ ListAnswered \/ ListRefused
           \/ BootUnmountAnswered(Head(fspCalls).share) \/ MountAnswered(Head(fspCalls).share)
           \/ GetAnswered(Head(fspCalls).share) \/ UnmountAnswered(Head(fspCalls).share)
           \/ HandleReply \/ NaclServes \/ Restart
  <1>. USE DEF BackedFrame
  <1>1. \A f, r : Mount(f) \/ Unmount(f) \/ AskFile(r, f) => BackedFrame
    BY DEF Mount, Unmount, AskFile, persistentVars, queueVars, naclVars, historyVars
  <1>2. \A r : Admit(r) \/ Route(r) => BackedFrame
    BY DEF Admit, Route, persistentVars, naclVars, historyVars
  <1>3. LoadFails \/ SaveSucceeds \/ SaveFails => BackedFrame
    BY DEF LoadFails, SaveSucceeds, SaveFails, persistentVars, queueVars, naclVars, historyVars
  <1>4. UNCHANGED vars => BackedFrame
    BY DEF vars, persistentVars, queueVars, naclVars, historyVars
  <1>. HIDE DEF BackedFrame
  <1>. QED
    BY <1>1, <1>2, <1>3, <1>4, StepCases

\* What an answer of Chrome takes from its queue.
LEMMA CallTaken ==
    ASSUME Typed, MountsBacked, NEW op, NEW f, op # "getAll", FspAnswer(op, f)
    PROVE  /\ UNCHANGED <<toJs, naclMounts, toNacl, request>>
           /\ \A o, g : In(Tail(fspCalls), o, g) => In(fspCalls, o, g)
           /\ \A o, g : In(fspCalls, o, g) => In(Tail(fspCalls), o, g) \/ (o = op /\ g = f)
           /\ Covered(Tail(fspCalls), MountCalls, Held)
           /\ op = "mount" => f \in Held \/ In(Tail(fspCalls), "unmount", f)
  <1>1. UNCHANGED <<toJs, naclMounts, toNacl, request>>
    BY DEF FspAnswer, FspFrame, naclVars
  <1>2. Elements(fspCalls) = Elements(Tail(fspCalls)) \cup {Head(fspCalls)}
    BY FspTail DEF FspAnswer, Typed, Types
  <1>3. /\ \A o, g : In(Tail(fspCalls), o, g) => In(fspCalls, o, g)
        /\ \A o, g : In(fspCalls, o, g) => In(Tail(fspCalls), o, g) \/ (o = op /\ g = f)
    BY <1>2 DEF In, FspAnswer
  <1>4. fspCalls \in Seq(FspCalls) /\ fspCalls # <<>> /\ Covered(fspCalls, MountCalls, Held)
    BY DEF FspAnswer, FspFrame, Typed, Types, TypeOK, MountsBacked
  <1>5. /\ Covered(Tail(fspCalls), MountCalls, Held)
        /\ Head(fspCalls) \in MountCalls =>
              Head(fspCalls).share \in Held \/ In(Tail(fspCalls), "unmount", Head(fspCalls).share)
    BY <1>4, CoveredTail
  <1>6. op = "mount" => Head(fspCalls) \in MountCalls
    <2>1. Head(fspCalls) \in FspCalls
      BY <1>4, TailShifts
    <2>. QED
      BY <2>1 DEF MountCalls, FspAnswer
  <1>. QED
    BY <1>1, <1>3, <1>5, <1>6 DEF FspAnswer

LEMMA HeldStays ==
    ASSUME UNCHANGED <<toJs, naclMounts>>
    PROVE  Held' = Held
  BY DEF Held

\* The answer of the module that the page takes.
LEMMA ReplyTaken ==
    ASSUME Typed, MountsBacked, HandleReply, NEW reply, reply = Head(toJs)
    PROVE  /\ reply \in Replies /\ reply.share \in Shares
           /\ reply.op = "unmount" => reply.ok
           /\ \A o, g : In(toJs', o, g) => In(toJs, o, g)
           /\ \A o, g : In(toJs, o, g) => In(toJs', o, g) \/ (o = reply.op /\ g = reply.share)
           /\ Covered(toJs', MountsMade, naclMounts)
           /\ reply \in MountsMade =>
                 reply.share \in naclMounts \/ In(toJs', "unmount", reply.share)
           /\ Elements(toJs') \subseteq Elements(toJs)
  <1>1. toJs \in Seq(Replies) /\ toJs # <<>> /\ toJs' = Tail(toJs)
    BY DEF HandleReply, Typed, Types, TypeOK
  <1>2. /\ reply \in Replies /\ reply.share \in Shares
        /\ Elements(toJs) = Elements(toJs') \cup {reply}
    BY <1>1, Heads DEF Typed, Types
  <1>3. /\ Covered(toJs', MountsMade, naclMounts)
        /\ reply \in MountsMade => reply.share \in naclMounts \/ In(toJs', "unmount", reply.share)
    BY <1>1, CoveredTail DEF MountsBacked
  <1>4. reply.op = "unmount" => reply.ok
    BY <1>2 DEF MountsBacked
  <1>5. /\ \A o, g : In(toJs', o, g) => In(toJs, o, g)
        /\ \A o, g : In(toJs, o, g) => In(toJs', o, g) \/ (o = reply.op /\ g = reply.share)
    BY <1>2 DEF In
  <1>. QED
    BY <1>2, <1>3, <1>4, <1>5

\* An acknowledged mount or unmount is passed on to Chrome; nothing else is.
LEMMA ReplyPassedOn ==
    ASSUME Typed, MountsBacked, HandleReply, NEW reply, reply = Head(toJs)
    PROVE  \/ /\ UNCHANGED fspCalls
              /\ reply.op # "unmount"
           \/ \E x \in FspCalls :
                 /\ reply.op \in {"mount", "unmount"} /\ reply.ok
                 /\ fspCalls' = Append(fspCalls, x) /\ x.op = reply.op /\ x.share = reply.share
                 /\ Elements(fspCalls') = Elements(fspCalls) \cup {x}
  <1>1. reply \in Replies /\ reply.share \in Shares /\ (reply.op = "unmount" => reply.ok)
    BY ReplyTaken
  <1>2. \/ reply.op # "unmount" /\ UNCHANGED fspCalls
        \/ /\ reply.op \in {"mount", "unmount"} /\ reply.ok
           /\ fspCalls' = Append(fspCalls, Call(reply.op, reply.share))
    BY <1>1 DEF HandleReply
  <1>3. CASE /\ reply.op \in {"mount", "unmount"} /\ reply.ok
             /\ fspCalls' = Append(fspCalls, Call(reply.op, reply.share))
    <2>1. Call(reply.op, reply.share) \in FspCalls
      BY <1>1, <1>3 DEF Call, FspCalls, FspOps
    <2>2. Elements(Append(fspCalls, Call(reply.op, reply.share)))
            = Elements(fspCalls) \cup {Call(reply.op, reply.share)}
      BY <2>1, Appends DEF Typed, Types
    <2>3. Call(reply.op, reply.share).op = reply.op /\ Call(reply.op, reply.share).share = reply.share
      BY DEF Call
    <2>. QED
      BY <1>3, <2>1, <2>2, <2>3
  <1>. QED
    BY <1>2, <1>3

\* What the module answers.
LEMMA ModuleAnswers ==
    ASSUME Typed, NaclServes, NEW call, call = Head(toNacl)
    PROVE  /\ call.share \in Shares
           /\ \A o, g : In(toNacl, o, g) => In(toNacl', o, g) \/ (o = call.op /\ g = call.share)
           /\ \/ call.op = "request" /\ UNCHANGED <<toJs, naclMounts>>
              \/ \E x \in Replies :
                    /\ toJs' = Append(toJs, x) /\ Elements(toJs') = Elements(toJs) \cup {x}
                    /\ x.op = call.op /\ x.share = call.share
                    /\ \/ /\ x \in MountsMade /\ naclMounts' = naclMounts \cup {call.share}
                       \/ /\ x.op # "unmount" /\ x \notin MountsMade /\ UNCHANGED naclMounts
                       \/ /\ x.op = "unmount" /\ x.ok /\ naclMounts' = naclMounts \ {call.share}
  <1>. USE DEF Typed, Types
  <1>1. /\ call.share \in Shares /\ toNacl' = Tail(toNacl)
        /\ Elements(toNacl) = Elements(toNacl') \cup {call}
    BY Heads DEF NaclServes
  <1>2. \A o, g : In(toNacl, o, g) => In(toNacl', o, g) \/ (o = call.op /\ g = call.share)
    BY <1>1 DEF In
  <1>3. ASSUME NEW op \in {"mount", "remount", "unmount"}, NEW ok \in BOOLEAN,
               toJs' = Append(toJs, Reply(op, call.share, ok))
        PROVE  \E x \in Replies :
                  /\ toJs' = Append(toJs, x) /\ Elements(toJs') = Elements(toJs) \cup {x}
                  /\ x.op = op /\ x.share = call.share /\ x.ok = ok
    <2>1. Reply(op, call.share, ok) \in Replies
      BY <1>1 DEF Reply, Replies
    <2>. QED
      BY <1>1, <1>3, <2>1, Replied
  <1>4. CASE call.op \in {"mount", "remount"} /\ NaclMount(call)
    BY <1>1, <1>2, <1>3, <1>4 DEF NaclMount, MountsMade
  <1>5. CASE call.op \in {"mount", "remount"} /\ NaclRefuses(call)
    BY ZenonT(30), <1>1, <1>2, <1>3, <1>5 DEF NaclRefuses, MountsMade
  <1>6. CASE call.op = "unmount" /\ NaclUnmount(call)
    BY <1>1, <1>2, <1>3, <1>6 DEF NaclUnmount
  <1>7. CASE call.op = "request" /\ UNCHANGED <<toJs, naclVars>>
    BY <1>1, <1>2, <1>7 DEF naclVars
  <1>. QED
    BY <1>4, <1>5, <1>6, <1>7 DEF NaclServes

LEMMA MountsBackedStep ==
    ASSUME Typed, MountsBacked, [Next]_vars
    PROVE  MountsBacked'
  <1>. DEFINE GetsBacked ==
           \A f \in registered' \ excused' :
               In(fspCalls', "get", f) =>
                   f \in naclMounts' \/ In(toJs', "unmount", f) \/ In(fspCalls', "unmount", f)
  <1>0. /\ \A f \in registered \ excused :
              In(fspCalls, "get", f) =>
                  f \in naclMounts \/ In(toJs, "unmount", f) \/ In(fspCalls, "unmount", f)
        /\ fspCalls \in Seq(FspCalls) /\ toJs \in Seq(Replies)
    BY DEF MountsBacked, Backed, Typed, Types, TypeOK
  <1>a. ASSUME UNCHANGED <<toJs, naclMounts>>
        PROVE  /\ \A m \in Elements(toJs') : m.op = "unmount" => m.ok
               /\ Covered(toJs', MountsMade, naclMounts')
    BY <1>a DEF MountsBacked
  <1>b. ASSUME \A m \in Elements(toJs') : m.op = "unmount" => m.ok,
               Covered(toJs', MountsMade, naclMounts'),
               Covered(fspCalls', MountCalls, Held'),
               GetsBacked
        PROVE  MountsBacked'
    BY <1>b DEF MountsBacked, Backed
  <1>1. CASE BackedFrame
    <2>1. GetsBacked
      BY <1>0, <1>1 DEF BackedFrame
    <2>2. Covered(fspCalls', MountCalls, Held')
      BY <1>1, HeldStays DEF BackedFrame, MountsBacked
    <2>. QED
      BY <1>1, <1>a, <1>b, <2>1, <2>2 DEF BackedFrame
  <1>2. CASE CredentialsLoaded
    <2>. DEFINE x == Call("getAll", "none")
    <2>1. /\ UNCHANGED <<toJs, naclMounts, registered, excused>> /\ fspCalls' = Append(fspCalls, x)
      BY <1>2 DEF CredentialsLoaded, persistentVars, naclVars, historyVars
    <2>2. x \in FspCalls /\ x \notin MountCalls /\ x.op = "getAll"
      BY DEF Call, FspCalls, MountCalls
    <2>3. Elements(fspCalls') = Elements(fspCalls) \cup {x}
      BY <1>2, AskedList DEF Typed, Types
    <2>. HIDE DEF x
    <2>4. GetsBacked
      BY <1>0, <2>1, <2>2, <2>3 DEF In
    <2>5. Covered(fspCalls', MountCalls, Held')
      BY <1>0, <2>1, <2>2, CoveredAppend, HeldStays DEF MountsBacked
    <2>. QED
      BY <1>a, <1>b, <2>1, <2>4, <2>5
  <1>3. CASE ListAnswered
    <2>1. UNCHANGED <<toJs, naclMounts, registered, excused>>
      BY <1>3 DEF ListAnswered, FspFrame, PopulateMounts, persistentVars, naclVars, historyVars
    <2>2. /\ fspCalls # <<>> /\ Tail(fspCalls) \in Seq(FspCalls)
          /\ Elements(fspCalls) = Elements(Tail(fspCalls)) \cup {Head(fspCalls)}
          /\ Head(fspCalls).op = "getAll"
      BY <1>3, FspTail DEF ListAnswered, FspFrame, Typed, Types
    <2>3. PICK o \in Orders(registered \ creds) :
              /\ fspCalls' = Tail(fspCalls) \o BootUnmounts(o)
              /\ BootUnmounts(o) \in Seq(FspCalls)
              /\ Elements(fspCalls') = Elements(Tail(fspCalls)) \cup Elements(BootUnmounts(o))
              /\ \A m \in Elements(BootUnmounts(o)) :
                    m.op = "boot unmount" /\ m.share \in registered \ creds
      BY <1>3, ListQueue DEF Typed, Types
    <2>4. \A g : (In(fspCalls', "get", g) <=> In(fspCalls, "get", g))
                 /\ (In(fspCalls', "unmount", g) <=> In(fspCalls, "unmount", g))
      BY <2>2, <2>3 DEF In
    <2>5. GetsBacked
      BY <1>0, <2>1, <2>4
    <2>6. Covered(Tail(fspCalls), MountCalls, Held)
      BY <1>0, <2>2, CoveredTail DEF MountsBacked
    <2>7. \A m \in Elements(BootUnmounts(o)) : m \notin MountCalls
      BY <2>3 DEF MountCalls
    <2>8. Covered(fspCalls', MountCalls, Held')
      BY <2>1, <2>2, <2>3, <2>6, <2>7, CoveredConcat, HeldStays
    <2>. QED
      BY <1>a, <1>b, <2>1, <2>5, <2>8
  <1>4. ASSUME NEW f, BootUnmountAnswered(f) \/ UnmountAnswered(f)  PROVE MountsBacked'
    <2>1. PICK op : op # "getAll" /\ FspAnswer(op, f)
      BY <1>4 DEF BootUnmountAnswered, UnmountAnswered
    <2>2. /\ fspCalls' = Tail(fspCalls) /\ registered' \ excused' \subseteq (registered \ excused) \ {f}
      BY <1>4 DEF BootUnmountAnswered, UnmountAnswered, BootUnmount, FspUnmount
    <2>3. /\ UNCHANGED <<toJs, naclMounts>>
          /\ \A o, g : In(Tail(fspCalls), o, g) => In(fspCalls, o, g)
          /\ \A o, g : In(fspCalls, o, g) => In(Tail(fspCalls), o, g) \/ (o = op /\ g = f)
          /\ Covered(Tail(fspCalls), MountCalls, Held)
      BY <2>1, CallTaken
    <2>4. GetsBacked
      BY <1>0, <2>2, <2>3
    <2>5. Covered(fspCalls', MountCalls, Held')
      BY <2>2, <2>3, HeldStays
    <2>. QED
      BY <1>a, <1>b, <2>3, <2>4, <2>5
  <1>5. ASSUME NEW f, MountAnswered(f)  PROVE MountsBacked'
    <2>. DEFINE x == Call("get", f)
    <2>1. /\ UNCHANGED <<toJs, naclMounts>>
          /\ \A o, g : In(Tail(fspCalls), o, g) => In(fspCalls, o, g)
          /\ \A o, g : In(fspCalls, o, g) => In(Tail(fspCalls), o, g) \/ (o = "mount" /\ g = f)
          /\ Covered(Tail(fspCalls), MountCalls, Held)
          /\ f \in Held \/ In(Tail(fspCalls), "unmount", f)
      BY <1>5, CallTaken DEF MountAnswered
    <2>2. /\ x \in FspCalls /\ x.op = "get" /\ x.share = f
          /\ \/ fspCalls' = Tail(fspCalls)
             \/ /\ fspCalls' = Append(Tail(fspCalls), x)
                /\ Elements(fspCalls') = Elements(Tail(fspCalls)) \cup {x}
      BY <1>5, AskedNext DEF Typed, Types
    <2>3. /\ excused' = excused /\ registered' \subseteq registered \cup {f}
      BY <1>5 DEF MountAnswered, FspMount
    <2>. HIDE DEF x
    <2>4. \A o, g : In(Tail(fspCalls), o, g) => In(fspCalls', o, g)
      BY <2>2 DEF In
    <2>5. \A g : In(fspCalls', "get", g) => g = f \/ In(Tail(fspCalls), "get", g)
      BY <2>2 DEF In
    <2>6. GetsBacked
      <3>1. f \in naclMounts \/ In(toJs, "unmount", f) \/ In(fspCalls', "unmount", f)
        BY <2>1, <2>4 DEF Held
      <3>. QED
        BY <1>0, <2>1, <2>3, <2>4, <2>5, <3>1
    <2>7. Covered(fspCalls', MountCalls, Held')
      <3>1. x \notin MountCalls
        BY <2>2 DEF MountCalls
      <3>2. Tail(fspCalls) \in Seq(FspCalls)
        BY <1>5, FspTail DEF MountAnswered, FspAnswer, Typed, Types
      <3>3. Covered(Append(Tail(fspCalls), x), MountCalls, Held)
        BY <2>1, <2>2, <3>1, <3>2, CoveredAppend
      <3>. QED
        BY <2>1, <2>2, <3>3, HeldStays
    <2>. QED
      BY <1>a, <1>b, <2>1, <2>6, <2>7
  <1>6. ASSUME NEW f, GetAnswered(f)  PROVE MountsBacked'
    <2>1. /\ UNCHANGED <<toJs, naclMounts>>
          /\ \A o, g : In(Tail(fspCalls), o, g) => In(fspCalls, o, g)
          /\ \A o, g : In(fspCalls, o, g) => In(Tail(fspCalls), o, g) \/ (o = "get" /\ g = f)
          /\ Covered(Tail(fspCalls), MountCalls, Held)
      BY <1>6, CallTaken DEF GetAnswered
    <2>2. /\ fspCalls' = Tail(fspCalls) /\ registered' = registered /\ excused \subseteq excused'
      BY <1>6 DEF GetAnswered, FspGet, persistentVars
    <2>3. GetsBacked
      BY <1>0, <2>1, <2>2
    <2>4. Covered(fspCalls', MountCalls, Held')
      BY <2>1, <2>2, HeldStays
    <2>. QED
      BY <1>a, <1>b, <2>1, <2>3, <2>4
  <1>7. CASE HandleReply
    <2>1. PICK reply : reply = Head(toJs)
      OBVIOUS
    <2>2. /\ reply \in Replies /\ reply.share \in Shares
          /\ \A o, g : In(toJs', o, g) => In(toJs, o, g)
          /\ \A o, g : In(toJs, o, g) => In(toJs', o, g) \/ (o = reply.op /\ g = reply.share)
          /\ Covered(toJs', MountsMade, naclMounts)
          /\ reply \in MountsMade => reply.share \in naclMounts \/ In(toJs', "unmount", reply.share)
          /\ Elements(toJs') \subseteq Elements(toJs)
      BY <1>7, <2>1, ReplyTaken
    <2>3. UNCHANGED <<naclMounts, registered, excused>>
      BY <1>7 DEF HandleReply, persistentVars, naclVars, historyVars
    <2>4. \/ UNCHANGED fspCalls /\ reply.op # "unmount"
          \/ \E x \in FspCalls :
                 /\ reply.op \in {"mount", "unmount"} /\ reply.ok
                 /\ fspCalls' = Append(fspCalls, x) /\ x.op = reply.op /\ x.share = reply.share
                 /\ Elements(fspCalls') = Elements(fspCalls) \cup {x}
      BY <1>7, <2>1, ReplyPassedOn
    <2>5. GetsBacked /\ Covered(fspCalls', MountCalls, Held')
      <3>1. CASE UNCHANGED fspCalls /\ reply.op # "unmount"
        <4>1. \A g : In(toJs', "unmount", g) <=> In(toJs, "unmount", g)
          BY <2>2, <3>1
        <4>2. Held' = Held
          BY <2>3, <4>1 DEF Held
        <4>. QED
          BY <1>0, <2>3, <3>1, <4>1, <4>2 DEF MountsBacked
      <3>2. ASSUME NEW x \in FspCalls, reply.op \in {"mount", "unmount"}, reply.ok,
                   fspCalls' = Append(fspCalls, x), x.op = reply.op, x.share = reply.share,
                   Elements(fspCalls') = Elements(fspCalls) \cup {x}
            PROVE  GetsBacked /\ Covered(fspCalls', MountCalls, Held')
        <4>1. /\ \A g : In(fspCalls', "get", g) => In(fspCalls, "get", g)
              /\ \A g : In(fspCalls, "unmount", g) => In(fspCalls', "unmount", g)
              /\ reply.op = "unmount" => In(fspCalls', "unmount", reply.share)
          BY <3>2 DEF In
        <4>2. GetsBacked
          BY <1>0, <2>2, <2>3, <4>1
        <4>3. \A g \in Held : g \in Held' \/ (x.op = "unmount" /\ x.share = g)
          BY <2>2, <2>3, <3>2 DEF Held
        <4>4. x \in MountCalls => x.share \in Held'
          BY <2>2, <2>3, <3>2 DEF Held, MountCalls, MountsMade
        <4>5. Covered(Append(fspCalls, x), MountCalls, Held')
          BY <1>0, <4>3, <4>4, CoveredAppend DEF MountsBacked
        <4>. QED
          BY <3>2, <4>2, <4>5
      <3>. QED
        BY <2>4, <3>1, <3>2
    <2>. QED
      BY <1>b, <2>2, <2>3, <2>5 DEF MountsBacked
  <1>8. CASE NaclServes
    <2>1. PICK call : call = Head(toNacl)
      OBVIOUS
    <2>2. /\ call.share \in Shares
          /\ \/ call.op = "request" /\ UNCHANGED <<toJs, naclMounts>>
             \/ \E x \in Replies :
                   /\ toJs' = Append(toJs, x) /\ Elements(toJs') = Elements(toJs) \cup {x}
                   /\ x.op = call.op /\ x.share = call.share
                   /\ \/ /\ x \in MountsMade /\ naclMounts' = naclMounts \cup {call.share}
                      \/ /\ x.op # "unmount" /\ x \notin MountsMade /\ UNCHANGED naclMounts
                      \/ /\ x.op = "unmount" /\ x.ok /\ naclMounts' = naclMounts \ {call.share}
      BY <1>8, <2>1, ModuleAnswers
    <2>3. UNCHANGED <<fspCalls, registered, excused>>
      BY <1>8 DEF NaclServes, persistentVars
    <2>4. CASE UNCHANGED <<toJs, naclMounts>>
      <3>1. GetsBacked
        BY <1>0, <2>3, <2>4
      <3>2. Covered(fspCalls', MountCalls, Held')
        BY <2>3, <2>4, HeldStays DEF MountsBacked
      <3>. QED
        BY <1>a, <1>b, <2>4, <3>1, <3>2
    <2>5. ASSUME NEW x \in Replies, toJs' = Append(toJs, x),
                 Elements(toJs') = Elements(toJs) \cup {x}, x.share = call.share,
                 \/ x \in MountsMade /\ naclMounts' = naclMounts \cup {call.share}
                 \/ x.op # "unmount" /\ x \notin MountsMade /\ UNCHANGED naclMounts
                 \/ x.op = "unmount" /\ x.ok /\ naclMounts' = naclMounts \ {call.share}
          PROVE  MountsBacked'
      <3>1. \A g \in naclMounts : g \in naclMounts' \/ (x.op = "unmount" /\ x.share = g)
        BY <2>5
      <3>2. x \in MountsMade => x.share \in naclMounts'
        BY <2>5 DEF MountsMade
      <3>3. Covered(Append(toJs, x), MountsMade, naclMounts')
        BY <1>0, <3>1, <3>2, CoveredAppend DEF MountsBacked
      <3>4. /\ \A g : In(toJs, "unmount", g) => In(toJs', "unmount", g)
            /\ x.op = "unmount" => In(toJs', "unmount", x.share)
        BY <2>5 DEF In
      <3>5. Held \subseteq Held'
        BY <3>1, <3>4 DEF Held
      <3>6. Covered(fspCalls', MountCalls, Held')
        BY <2>3, <3>5, CoveredMore DEF MountsBacked
      <3>7. GetsBacked
        BY <1>0, <2>3, <3>1, <3>4
      <3>8. \A m \in Elements(toJs') : m.op = "unmount" => m.ok
        BY <2>5 DEF MountsBacked, MountsMade
      <3>. QED
        BY <1>b, <2>5, <3>3, <3>6, <3>7, <3>8
    <2>. QED
      BY <2>2, <2>4, <2>5
  <1>9. CASE Restart
    <2>1. toJs' = <<>> /\ fspCalls' = <<>>
      BY <1>9 DEF Restart
    <2>2. GetsBacked
      BY <2>1, ElementsEmpty DEF In
    <2>. QED
      BY <1>b, <2>1, <2>2, CoveredEmpty, ElementsEmpty
  <1>10. CASE ListRefused
    <2>1. UNCHANGED <<toJs, naclMounts, registered, excused>> /\ fspCalls' = Tail(fspCalls)
      BY <1>10 DEF ListRefused, FspFrame, ListFails, persistentVars, naclVars, historyVars
    <2>2. \A g : (In(fspCalls', "get", g) <=> In(fspCalls, "get", g))
                 /\ (In(fspCalls', "unmount", g) <=> In(fspCalls, "unmount", g))
      BY <1>10, <2>1, FspTail DEF ListRefused, In, Typed, Types
    <2>3. GetsBacked
      BY <1>0, <2>1, <2>2
    <2>4. Covered(fspCalls', MountCalls, Held')
      BY <1>0, <1>10, <2>1, CoveredTail, HeldStays DEF MountsBacked, ListRefused, FspFrame
    <2>. QED
      BY <1>a, <1>b, <2>1, <2>3, <2>4
  <1>. QED
    BY <1>1, <1>2, <1>3, <1>4, <1>5, <1>6, <1>7, <1>8, <1>9, <1>10, BackedCases

BackedNext(f) == f \in naclMounts' \/ In(toJs', "unmount", f) \/ In(fspCalls', "unmount", f)

LEMMA ServedNext ==
    ASSUME NEW f
    PROVE  Served(f)' <=>
              \/ In(fspCalls', "get", f)
              \/ mounts'[f] = Null
              \/ mounts'[f] = "remounting" /\ (In(toNacl', "remount", f) \/ In(toJs', "remount", f))
              \/ mounts'[f] = "mounting" /\ In(saves', "mount", f) /\ BackedNext(f)
              \/ mounts'[f] = "mounted" /\ BackedNext(f)
  BY DEF Served, Backed, BackedNext, Null

\* What a share's entry keeps relying on.
LEMMA ServedStays ==
    ASSUME NEW f, Served(f), mounts'[f] = mounts[f],
           In(fspCalls, "get", f) => In(fspCalls', "get", f),
           In(toNacl, "remount", f) \/ In(toJs, "remount", f)
               => In(toNacl', "remount", f) \/ In(toJs', "remount", f),
           mounts[f] = "mounting" /\ In(saves, "mount", f) => In(saves', "mount", f),
           Backed(f) => BackedNext(f)
    PROVE  Served(f)'
  BY ServedNext DEF Served, Null

LEMMA ShownKept ==
    ASSUME ShownServed, ~early, phase' = phase, departing' = departing,
           phase = "unmounting" =>
               \A f \in registered' \ excused' :
                   f \in registered \ excused /\ (mounts[f] = Null => mounts'[f] = Null),
           phase = "populated" => \A f \in registered' \ excused' : Served(f)'
    PROVE  ShownServed'
  BY DEF ShownServed, Null

\* The steps that at most send the module a message.
SendFrame == /\ UNCHANGED <<toJs, fspCalls, saves, naclMounts, registered, excused, mounts, phase,
                            departing, early>>
             /\ \A g : In(toNacl, "remount", g) => In(toNacl', "remount", g)

LEMMA SendCases ==
    ASSUME Typed, [Next]_vars
    PROVE  \/ SendFrame \/ CredentialsLoaded \/ LoadFails \/ ListAnswered \/ ListRefused
           \/ BootUnmountAnswered(Head(fspCalls).share) \/ MountAnswered(Head(fspCalls).share)
           \/ GetAnswered(Head(fspCalls).share) \/ UnmountAnswered(Head(fspCalls).share)
           \/ SaveSucceeds \/ SaveFails \/ (\E r \in Requests : Admit(r))
           \/ HandleReply \/ NaclServes \/ Restart
  <1>. USE DEF Typed, Types
  <1>a. ASSUME UNCHANGED <<toJs, fspCalls, saves, naclMounts, registered, excused, mounts, phase,
                           departing, early>>,
               Elements(toNacl) \subseteq Elements(toNacl')
        PROVE  SendFrame
    BY <1>a DEF SendFrame, In
  <1>1. ASSUME NEW f \in Shares, Mount(f) \/ Unmount(f)  PROVE SendFrame
    <2>1. \E op \in {"mount", "unmount"} : toNacl' = Append(toNacl, Call(op, f))
      BY <1>1 DEF Mount, Unmount
    <2>2. Elements(toNacl) \subseteq Elements(toNacl')
      BY <2>1, SentCall
    <2>3. UNCHANGED <<toJs, fspCalls, saves, naclMounts, registered, excused, mounts, phase,
                      departing, early>>
      BY <1>1 DEF Mount, Unmount, persistentVars, pageVars, naclVars, historyVars
    <2>. QED
      BY <1>a, <2>2, <2>3
  <1>2. ASSUME NEW f \in Shares, NEW r \in Requests, AskFile(r, f)  PROVE SendFrame
    BY <1>a, <1>2 DEF AskFile, persistentVars, queueVars, naclVars, historyVars
  <1>3. ASSUME NEW r \in Requests, Route(r)  PROVE SendFrame
    <2>1. Elements(toNacl) \subseteq Elements(toNacl')
      BY <1>3, SentRequest DEF Route
    <2>2. UNCHANGED <<toJs, fspCalls, saves, naclMounts, registered, excused, mounts, phase,
                      departing, early>>
      BY <1>3 DEF Route, persistentVars, naclVars, historyVars
    <2>. QED
      BY <1>a, <2>1, <2>2
  <1>4. CASE UNCHANGED vars
    BY <1>a, <1>4 DEF vars, persistentVars, pageVars, queueVars, naclVars, historyVars
  <1>. HIDE DEF SendFrame
  <1>. QED
    BY <1>1, <1>2, <1>3, <1>4, StepCases

LEMMA ShownServedStep ==
    ASSUME Typed, StartOrder, MountsBacked, ShownServed, [Next]_vars
    PROVE  ShownServed'
  <1>. SUFFICES ASSUME ~early'  PROVE ShownServed'
    BY DEF ShownServed
  <1>0. /\ mounts \in [Shares -> MountStates] /\ registered \subseteq Shares
        /\ early \in BOOLEAN
        /\ ~early => /\ phase = "unmounting" =>
                           \A f \in (registered \ excused) \ departing : mounts[f] = Null
                     /\ phase = "populated" => \A f \in registered \ excused : Served(f)
    BY DEF Typed, Types, TypeOK, ShownServed
  <1>1. CASE SendFrame
    <2>. USE <1>1 DEF SendFrame
    <2>1. ASSUME NEW f, Served(f)  PROVE Served(f)'
      BY <2>1, ServedStays DEF Backed, BackedNext
    <2>. QED
      BY <1>0, <2>1, ShownKept
  <1>2. CASE CredentialsLoaded \/ LoadFails \/ ListRefused \/ Restart
    BY <1>2 DEF CredentialsLoaded, LoadFails, ListRefused, ListFails, Restart, ShownServed
  <1>3. CASE ListAnswered
    <2>1. /\ \A f \in registered : f \notin registered \ creds => mounts'[f] = Null
          /\ departing' = registered \ creds
          /\ phase' = IF registered \ creds = {} THEN "populated" ELSE "unmounting"
          /\ UNCHANGED <<registered, excused>>
      BY <1>0, <1>3 DEF ListAnswered, PopulateMounts, persistentVars, historyVars
    <2>2. ASSUME NEW f \in registered, f \notin departing'  PROVE Served(f)'
      BY <2>1, <2>2, ServedNext
    <2>. QED
      BY <2>1, <2>2 DEF ShownServed, Null
  <1>4. ASSUME NEW f, BootUnmountAnswered(f)  PROVE ShownServed'
    <2>1. phase = "unmounting" /\ f \in departing
      BY <1>4, FspTail DEF StartOrder, BootUnmountAnswered, FspAnswer, Typed, Types
    <2>2. /\ UNCHANGED <<mounts, early>> /\ departing' = departing \ {f}
          /\ phase' = IF departing = {f} THEN "populated" ELSE phase
          /\ registered' \ excused' \subseteq (registered \ excused) \ {f}
      BY <1>4 DEF BootUnmountAnswered, BootUnmount
    <2>3. \A g \in (registered' \ excused') \ departing' : mounts'[g] = Null
      BY <1>0, <2>1, <2>2
    <2>4. \A g \in (registered' \ excused') \ departing' : Served(g)'
      BY <2>3, ServedNext
    <2>. QED
      BY <2>1, <2>2, <2>3, <2>4 DEF ShownServed, Null
  <1>5. ASSUME NEW f, MountAnswered(f)  PROVE ShownServed'
    <2>1. /\ UNCHANGED <<toJs, naclMounts, toNacl>>
          /\ \A o, g : In(fspCalls, o, g) => In(Tail(fspCalls), o, g) \/ (o = "mount" /\ g = f)
      BY <1>5, CallTaken DEF MountAnswered
    <2>2. /\ UNCHANGED <<mounts, saves, phase, departing, excused>> /\ ~early
          /\ \/ UNCHANGED registered
             \/ /\ registered' = registered \cup {f} /\ phase = "populated"
                /\ fspCalls' = Append(Tail(fspCalls), Call("get", f))
      BY <1>5, Noted DEF MountAnswered, FspMount, Typed, Types
    <2>3. \A o, g : In(Tail(fspCalls), o, g) => In(fspCalls', o, g)
      BY <1>5, AskedNext DEF In, Typed, Types
    <2>4. ASSUME NEW g, Served(g)  PROVE Served(g)'
      BY <2>1, <2>2, <2>3, <2>4, ServedStays DEF Backed, BackedNext
    <2>5. fspCalls' = Append(Tail(fspCalls), Call("get", f)) => In(fspCalls', "get", f)
      <3>1. /\ Call("get", f) \in FspCalls
            /\ Call("get", f).op = "get" /\ Call("get", f).share = f
        BY <1>5, AskedNext DEF Typed, Types
      <3>2. Elements(Append(Tail(fspCalls), Call("get", f)))
              = Elements(Tail(fspCalls)) \cup {Call("get", f)}
        BY <1>5, <3>1, FspTail DEF MountAnswered, FspAnswer, Typed, Types
      <3>. QED
        BY <3>1, <3>2 DEF In
    <2>6. registered' # registered => Served(f)'
      BY <2>2, <2>5, ServedNext
    <2>. QED
      BY <1>0, <2>2, <2>4, <2>6, ShownKept
  <1>6. ASSUME NEW f, GetAnswered(f)  PROVE ShownServed'
    <2>1. /\ UNCHANGED <<toJs, naclMounts, toNacl>>
          /\ \A o, g : In(fspCalls, o, g) => In(Tail(fspCalls), o, g) \/ (o = "get" /\ g = f)
      BY <1>6, CallTaken DEF GetAnswered
    <2>2. /\ UNCHANGED <<registered, phase, departing>> /\ fspCalls' = Tail(fspCalls) /\ ~early
          /\ \/ /\ f \in registered /\ excused' = excused /\ phase = "populated"
                /\ \/ /\ mounts' = [mounts EXCEPT ![f] = "mounting"]
                      /\ creds' = creds \cup {f} /\ saves' = Append(saves, Save("mount", f, creds'))
                   \/ mounts' = [mounts EXCEPT ![f] = "mounted"] /\ UNCHANGED saves
             \/ excused' = excused \cup {f} /\ UNCHANGED <<mounts, saves>>
      BY <1>6, Noted DEF GetAnswered, FspGet, persistentVars, Typed, Types
    <2>3. In(fspCalls, "get", f)
      BY <1>6, FspTail DEF GetAnswered, FspAnswer, Typed, Types, In
    <2>4. ASSUME NEW g, g \in registered \ excused, In(fspCalls, "get", g)  PROVE BackedNext(g)
      BY <2>1, <2>2, <2>4 DEF MountsBacked, Backed, BackedNext
    <2>5. f \in Shares
      BY <1>6, FspHead DEF GetAnswered, Typed, Types
    <2>6. /\ \A g : In(saves, "mount", g) => In(saves', "mount", g)
          /\ mounts' = [mounts EXCEPT ![f] = "mounting"] => In(saves', "mount", f)
                                                           \/ mounts'[f] = "mounted"
                                                           \/ f \in excused'
      <3>1. CASE UNCHANGED saves
        BY <1>0, <2>2, <2>5, <3>1
      <3>2. CASE creds' = creds \cup {f} /\ saves' = Append(saves, Save("mount", f, creds'))
        <4>1. PICK entries \in SUBSET Shares :
                      entries = creds' /\ saves' = Append(saves, Save("mount", f, entries))
          BY <2>5, <3>2 DEF Typed, Types, TypeOK
        <4>2. /\ Elements(saves') = Elements(saves) \cup {Save("mount", f, entries)}
              /\ Save("mount", f, entries).op = "mount" /\ Save("mount", f, entries).share = f
          BY <2>5, <4>1, SaveAsked DEF Typed, Types
        <4>. QED
          BY <4>2 DEF In
      <3>. QED
        BY <2>2, <3>1, <3>2
    <2>7. ASSUME NEW g \in registered \ excused, g # f, Served(g)  PROVE Served(g)'
      <3>1. mounts'[g] = mounts[g]
        BY <1>0, <2>2, <2>7
      <3>. QED
        BY <2>1, <2>2, <2>6, <2>7, <3>1, ServedStays DEF Backed, BackedNext
    <2>8. ASSUME f \in registered' \ excused'  PROVE Served(f)'
      <3>1. f \in registered \ excused /\ BackedNext(f)
        BY <2>2, <2>3, <2>4, <2>8
      <3>2. \/ mounts'[f] = "mounting" /\ In(saves', "mount", f)
            \/ mounts'[f] = "mounted"
        BY <1>0, <2>2, <2>5, <2>6, <2>8
      <3>. QED
        BY <3>1, <3>2, ServedNext
    <2>9. \A g \in registered' \ excused' : g \in registered \ excused
      BY <2>2
    <2>10. phase = "populated" => \A g \in registered' \ excused' : Served(g)'
      BY <1>0, <2>2, <2>7, <2>8, <2>9
    <2>11. phase = "unmounting" => UNCHANGED mounts
      BY <2>2
    <2>. QED
      BY <2>2, <2>9, <2>10, <2>11, ShownKept
  <1>7. ASSUME NEW f, UnmountAnswered(f)  PROVE ShownServed'
    <2>1. /\ UNCHANGED <<toJs, naclMounts, toNacl>>
          /\ \A o, g : In(fspCalls, o, g) => In(Tail(fspCalls), o, g) \/ (o = "unmount" /\ g = f)
      BY <1>7, CallTaken DEF UnmountAnswered
    <2>2. /\ UNCHANGED <<phase, departing, mounts>> /\ fspCalls' = Tail(fspCalls) /\ ~early
          /\ phase = "populated" /\ creds' = creds \ {f}
          /\ saves' = Append(saves, Save("unmount", f, creds'))
          /\ registered' \ excused' \subseteq (registered \ excused) \ {f}
      BY <1>7, Noted DEF UnmountAnswered, FspUnmount, Typed, Types
    <2>3. \A g : In(saves, "mount", g) => In(saves', "mount", g)
      <3>1. f \in Shares
        BY <1>7, FspHead DEF UnmountAnswered, Typed, Types
      <3>2. PICK entries \in SUBSET Shares :
                    entries = creds' /\ saves' = Append(saves, Save("unmount", f, entries))
        BY <2>2 DEF Typed, Types, TypeOK
      <3>3. Elements(saves') = Elements(saves) \cup {Save("unmount", f, entries)}
        BY <3>1, <3>2, SaveAsked DEF Typed, Types
      <3>. QED
        BY <3>3 DEF In
    <2>4. ASSUME NEW g, g # f, Served(g)  PROVE Served(g)'
      BY <2>1, <2>2, <2>3, <2>4, ServedStays DEF Backed, BackedNext
    <2>. QED
      BY <1>0, <2>2, <2>4, ShownKept
  <1>8. CASE SaveSucceeds \/ SaveFails
    <2>1. PICK save : save = Head(saves)
      OBVIOUS
    <2>2. /\ UNCHANGED <<toJs, naclMounts, toNacl, fspCalls, registered, phase, departing, early>>
          /\ saves # <<>> /\ saves' = Tail(saves)
          /\ \/ /\ mounts' = [mounts EXCEPT ![save.share] = IF @ = "mounting" THEN "mounted" ELSE @]
                /\ excused' = excused /\ save.op = "mount"
             \/ /\ mounts' = [mounts EXCEPT ![save.share] = IF @ = "mounting" THEN "failed" ELSE @]
                /\ excused' = excused \cup {save.share} /\ save.op = "mount"
             \/ UNCHANGED <<mounts, excused>> /\ save.op # "mount"
      <3>1. CASE SaveSucceeds /\ save.op = "mount"
        BY <2>1, <3>1 DEF SaveSucceeds, naclVars
      <3>2. CASE SaveSucceeds /\ save.op # "mount"
        BY <2>1, <3>2 DEF SaveSucceeds, naclVars
      <3>3. CASE SaveFails /\ save.op = "mount"
        BY <2>1, <3>3 DEF SaveFails, persistentVars, naclVars
      <3>4. CASE SaveFails /\ save.op # "mount"
        BY <2>1, <3>4 DEF SaveFails, persistentVars, naclVars
      <3>. QED
        BY <1>8, <3>1, <3>2, <3>3, <3>4
    <2>3. save.share \in Shares /\ Elements(saves) = Elements(saves') \cup {save}
      BY <2>1, <2>2, Heads DEF Typed, Types
    <2>4. \A g : In(saves, "mount", g) => In(saves', "mount", g)
                                          \/ (save.op = "mount" /\ g = save.share)
      BY <2>3 DEF In
    <2>5. \A g \in Shares : mounts[g] = Null => mounts'[g] = Null
      BY <1>0, <2>2, <2>3 DEF Null
    <2>6. \A g : Backed(g) => BackedNext(g)
      BY <2>2 DEF Backed, BackedNext
    <2>7. ASSUME NEW g \in registered' \ excused', Served(g)  PROVE Served(g)'
      <3>1. CASE mounts[g] = "mounting" /\ save.op = "mount" /\ g = save.share
        <4>1. mounts'[g] = "mounted"
          BY <1>0, <2>2, <2>3, <2>7, <3>1
        <4>2. In(fspCalls, "get", g) \/ Backed(g)
          BY <2>7, <3>1 DEF Served, Null
        <4>. QED
          BY <2>2, <2>6, <4>1, <4>2, ServedNext
      <3>2. CASE ~(mounts[g] = "mounting" /\ save.op = "mount" /\ g = save.share)
        <4>1. mounts'[g] = mounts[g]
          BY <1>0, <2>2, <2>3, <3>2
        <4>. QED
          BY <2>2, <2>4, <2>6, <2>7, <3>2, <4>1, ServedStays
      <3>. QED
        BY <3>1, <3>2
    <2>8. ~early /\ registered' \ excused' \subseteq registered \ excused
      BY <1>0, <2>2
    <2>9. phase = "populated" => \A g \in registered' \ excused' : Served(g)'
      BY <1>0, <2>7, <2>8
    <2>10. phase = "unmounting" =>
               \A g \in registered' \ excused' :
                   g \in registered \ excused /\ (mounts[g] = Null => mounts'[g] = Null)
      BY <1>0, <2>5, <2>8
    <2>. QED
      BY <2>2, <2>8, <2>9, <2>10, ShownKept
  <1>9. ASSUME NEW r \in Requests, Admit(r)  PROVE ShownServed'
    <2>. DEFINE f == request[r].share
    <2>1. /\ phase = "populated" /\ ~early
          /\ UNCHANGED <<registered, excused, phase, departing, toJs, fspCalls, saves, naclMounts>>
          /\ \/ /\ mounts[f] = Null
                /\ mounts' = [mounts EXCEPT ![f] = "remounting"]
                /\ toNacl' = Append(toNacl, Call("remount", f))
             \/ UNCHANGED <<mounts, toNacl>>
      BY <1>0, <1>9 DEF Admit, persistentVars, naclVars, historyVars
    <2>2. f \in Shares
      BY <1>9 DEF Admit, Typed, Types, RequestsNamed
    <2>. HIDE DEF f
    <2>3. /\ \A o, g : In(toNacl, o, g) => In(toNacl', o, g)
          /\ toNacl' = Append(toNacl, Call("remount", f)) => In(toNacl', "remount", f)
      <3>1. CASE toNacl' = Append(toNacl, Call("remount", f))
        <4>1. /\ Elements(toNacl') = Elements(toNacl) \cup {Call("remount", f)}
              /\ Call("remount", f).op = "remount" /\ Call("remount", f).share = f
          BY <2>2, <3>1, SentCall DEF Typed, Types
        <4>. QED
          BY <4>1 DEF In
      <3>2. CASE toNacl' # Append(toNacl, Call("remount", f))
        BY <2>1, <3>2
      <3>. QED
        BY <3>1, <3>2
    <2>4. ASSUME NEW g \in registered \ excused, Served(g)  PROVE Served(g)'
      <3>1. CASE mounts'[g] = mounts[g]
        BY <2>1, <2>3, <2>4, <3>1, ServedStays DEF Backed, BackedNext
      <3>2. CASE mounts'[g] # mounts[g]
        BY <1>0, <2>1, <2>2, <2>3, <3>2, ServedNext
      <3>. QED
        BY <3>1, <3>2
    <2>. QED
      BY <1>0, <2>1, <2>4, ShownKept
  <1>10. CASE HandleReply
    <2>1. PICK reply : reply = Head(toJs)
      OBVIOUS
    <2>2. /\ reply \in Replies /\ reply.share \in Shares
          /\ \A o, g : In(toJs, o, g) => In(toJs', o, g) \/ (o = reply.op /\ g = reply.share)
          /\ reply \in MountsMade => reply.share \in naclMounts \/ In(toJs', "unmount", reply.share)
      BY <1>10, <2>1, ReplyTaken
    <2>3. \/ UNCHANGED fspCalls /\ reply.op # "unmount"
          \/ \E x \in FspCalls :
                 /\ reply.op \in {"mount", "unmount"} /\ reply.ok
                 /\ fspCalls' = Append(fspCalls, x) /\ x.op = reply.op /\ x.share = reply.share
                 /\ Elements(fspCalls') = Elements(fspCalls) \cup {x}
      BY <1>10, <2>1, ReplyPassedOn
    <2>4. /\ \A o, g : In(fspCalls, o, g) => In(fspCalls', o, g)
          /\ reply.op = "unmount" => In(fspCalls', "unmount", reply.share)
      BY <2>3 DEF In
    <2>5. /\ UNCHANGED <<naclMounts, toNacl, saves, registered, excused, phase, departing, early>>
          /\ \/ UNCHANGED mounts /\ reply.op # "remount"
             \/ /\ mounts' = [mounts EXCEPT ![reply.share] = IF @ = "remounting" THEN "mounted" ELSE @]
                /\ reply.op = "remount" /\ reply.ok
             \/ mounts' = [mounts EXCEPT ![reply.share] = Null] /\ reply.op = "remount"
      BY <1>10, <2>1 DEF HandleReply, persistentVars, naclVars, historyVars
    <2>6. \A g : Backed(g) => BackedNext(g)
      BY <2>2, <2>4, <2>5 DEF Backed, BackedNext
    <2>7. ASSUME NEW g \in Shares, Served(g)  PROVE Served(g)'
      <3>1. CASE g # reply.share \/ reply.op # "remount"
        <4>1. mounts'[g] = mounts[g]
          BY <1>0, <2>2, <2>5, <3>1
        <4>. QED
          BY <2>2, <2>4, <2>5, <2>6, <2>7, <3>1, <4>1, ServedStays
      <3>2. CASE g = reply.share /\ mounts'[g] = Null
        BY <3>2, ServedNext
      <3>3. CASE g = reply.share /\ reply.op = "remount" /\ reply.ok /\ mounts[g] = "remounting"
                 /\ mounts'[g] = "mounted"
        <4>1. reply \in MountsMade
          BY <2>2, <3>3 DEF MountsMade
        <4>2. BackedNext(g)
          BY <2>2, <2>5, <3>3, <4>1 DEF BackedNext
        <4>. QED
          BY <3>3, <4>2, ServedNext
      <3>4. CASE g = reply.share /\ mounts[g] # "remounting" /\ mounts'[g] = mounts[g]
        BY <2>4, <2>5, <2>6, <2>7, <3>4, ServedNext DEF Served
      <3>. QED
        BY <1>0, <2>2, <2>5, <3>1, <3>2, <3>3, <3>4
    <2>8. \A g \in Shares : mounts[g] = Null => mounts'[g] = Null
      BY <1>0, <2>2, <2>5 DEF Null
    <2>. QED
      BY <1>0, <2>5, <2>7, <2>8, ShownKept
  <1>11. CASE NaclServes
    <2>1. PICK call : call = Head(toNacl)
      OBVIOUS
    <2>2. /\ call.share \in Shares
          /\ \A o, g : In(toNacl, o, g) => In(toNacl', o, g) \/ (o = call.op /\ g = call.share)
          /\ \/ call.op = "request" /\ UNCHANGED <<toJs, naclMounts>>
             \/ \E x \in Replies :
                   /\ toJs' = Append(toJs, x) /\ Elements(toJs') = Elements(toJs) \cup {x}
                   /\ x.op = call.op /\ x.share = call.share
                   /\ \/ /\ x \in MountsMade /\ naclMounts' = naclMounts \cup {call.share}
                      \/ /\ x.op # "unmount" /\ x \notin MountsMade /\ UNCHANGED naclMounts
                      \/ /\ x.op = "unmount" /\ x.ok /\ naclMounts' = naclMounts \ {call.share}
      BY <1>11, <2>1, ModuleAnswers
    <2>3. UNCHANGED <<fspCalls, saves, registered, excused, mounts, phase, departing, early>>
      BY <1>11 DEF NaclServes, persistentVars
    <2>4. /\ \A o, g : In(toJs, o, g) => In(toJs', o, g)
          /\ \A g : In(toNacl, "remount", g) => In(toNacl', "remount", g) \/ In(toJs', "remount", g)
          /\ \A g \in naclMounts : g \in naclMounts' \/ In(toJs', "unmount", g)
      <3>1. CASE call.op = "request" /\ UNCHANGED <<toJs, naclMounts>>
        BY <2>2, <3>1
      <3>2. ASSUME NEW x \in Replies, Elements(toJs') = Elements(toJs) \cup {x},
                   x.op = call.op, x.share = call.share,
                   \/ naclMounts \subseteq naclMounts'
                   \/ x.op = "unmount" /\ naclMounts' = naclMounts \ {call.share}
            PROVE  /\ \A o, g : In(toJs, o, g) => In(toJs', o, g)
                   /\ In(toJs', call.op, call.share)
                   /\ \A g \in naclMounts : g \in naclMounts' \/ In(toJs', "unmount", g)
        BY <3>2 DEF In
      <3>3. \/ call.op = "request" /\ UNCHANGED <<toJs, naclMounts>>
            \/ /\ \A o, g : In(toJs, o, g) => In(toJs', o, g)
               /\ In(toJs', call.op, call.share)
               /\ \A g \in naclMounts : g \in naclMounts' \/ In(toJs', "unmount", g)
        BY <2>2, <3>2
      <3>. QED
        BY <2>2, <3>1, <3>3
    <2>5. ASSUME NEW g, Served(g)  PROVE Served(g)'
      BY <2>3, <2>4, <2>5, ServedStays DEF Backed, BackedNext
    <2>. QED
      BY <1>0, <2>3, <2>5, ShownKept
  <1>. QED
    BY <1>1, <1>2, <1>3, <1>4, <1>5, <1>6, <1>7, <1>8, <1>9, <1>10, <1>11, SendCases

\* When nothing about a share is under way, what its entry relies on is there.
LEMMA SettledEntries ==
    ASSUME NEW f, Settled(f), Served(f)
    PROVE  mounts[f] = Null \/ (mounts[f] = "mounted" /\ f \in naclMounts)
  <1>1. \A op : ~In(toNacl, op, f) /\ ~In(toJs, op, f) /\ ~In(fspCalls, op, f) /\ ~In(saves, op, f)
    BY DEF Settled, Concerns, In, Elements
  <1>. QED
    BY <1>1 DEF Served, Backed, Null

\* A file system that the Files app shows can be used, for any number of shares
\* and of mounts and unmounts at once, whichever calls fail: when nothing about it
\* is under way the page's table names it, and the module has it mounted or the
\* next request mounts it.  populateMounts_, mount_, remountShare_ and unmount
\* leave no share listed that neither side knows.
THEOREM ShownSharesServed == Spec => []ShownIsServed
  <1>1. Init => MountsBacked /\ ShownServed
    BY CoveredEmpty, ElementsEmpty DEF Init, MountsBacked, ShownServed, In
  <1>2. Typed /\ StartOrder /\ MountsBacked /\ ShownServed /\ [Next]_vars
          => (MountsBacked /\ ShownServed)'
    BY MountsBackedStep, ShownServedStep
  <1>3. ShownServed => ShownIsServed
    BY SettledEntries DEF ShownServed, ShownIsServed
  <1>. QED
    BY <1>1, <1>2, <1>3, AlwaysTyped, AlwaysOrdered, PTL DEF Spec

-----------------------------------------------------------------------------
(* Requests find their shares mounted.                                     *)

\* A share that was mounted and that Chrome lists is mounted still, unless an
\* unmount is on its way from the module to Chrome or Chrome would not do it.
ListedBacked == \A f \in (everMounted \cap registered) \ refused : Backed(f)

LEMMA RefusedCases ==
    ASSUME [Next]_vars
    PROVE  \/ NaclServes \/ Restart
           \/ UNCHANGED <<naclMounts, everMounted>> /\ refused \subseteq refused'
  <1>1. UNCHANGED vars => UNCHANGED refused
    BY DEF vars, historyVars
  <1>2. \A f, r : Mount(f) \/ Unmount(f) \/ AskFile(r, f) => UNCHANGED refused
    BY DEF Mount, Unmount, AskFile, historyVars
  <1>3. \A r : Admit(r) \/ Route(r) \/ CredentialsLoaded \/ LoadFails \/ HandleReply
                 => UNCHANGED refused
    BY DEF Admit, Route, CredentialsLoaded, LoadFails, HandleReply, historyVars
  <1>4. SaveSucceeds \/ SaveFails => UNCHANGED refused
    BY DEF SaveSucceeds, SaveFails
  <1>5. ListAnswered \/ ListRefused => UNCHANGED refused
    BY DEF ListAnswered, PopulateMounts, ListRefused, ListFails, historyVars
  <1>6. \A f : BootUnmountAnswered(f) \/ MountAnswered(f) \/ GetAnswered(f) => UNCHANGED refused
    BY DEF BootUnmountAnswered, BootUnmount, MountAnswered, FspMount, GetAnswered, FspGet
  <1>7. \A f : UnmountAnswered(f) => refused \subseteq refused'
    BY DEF UnmountAnswered, FspUnmount
  <1>. QED
    BY <1>1, <1>2, <1>3, <1>4, <1>5, <1>6, <1>7, ModuleCases, StepCases

LEMMA ListedBackedStep ==
    ASSUME Typed, MountsBacked, ListedBacked, [Next]_vars
    PROVE  ListedBacked'
  <1>. DEFINE Left(f) == f \in naclMounts \/ In(toJs, "unmount", f) \/ In(fspCalls, "unmount", f)
  <1>0. \A f \in (everMounted \cap registered) \ refused : Left(f)
    BY DEF ListedBacked, Backed
  <1>a. ASSUME \A f \in (everMounted' \cap registered') \ refused' : BackedNext(f)
        PROVE  ListedBacked'
    BY <1>a DEF ListedBacked, Backed, BackedNext
  \* The module and the page's end leave the calls to Chrome alone or drop them.
  <1>1. CASE NaclServes
    <2>1. PICK call : call = Head(toNacl)
      OBVIOUS
    <2>2. UNCHANGED <<fspCalls, registered>>
      BY <1>1 DEF NaclServes, persistentVars
    <2>3. \/ UNCHANGED <<everMounted, refused>>
          \/ /\ everMounted' = everMounted \cup {call.share} /\ refused' = refused \ {call.share}
             /\ call.share \in naclMounts'
      BY <1>1, <2>1 DEF NaclServes, NaclMount, NaclRefuses, NaclUnmount
    <2>4. \A g : /\ In(toJs, "unmount", g) => In(toJs', "unmount", g)
                 /\ g \in naclMounts => g \in naclMounts' \/ In(toJs', "unmount", g)
      <3>1. CASE UNCHANGED <<toJs, naclMounts>>
        BY <3>1
      <3>2. ASSUME NEW x \in Replies, Elements(toJs') = Elements(toJs) \cup {x},
                   x.share = call.share,
                   \/ naclMounts' = naclMounts \cup {call.share}
                   \/ UNCHANGED naclMounts
                   \/ x.op = "unmount" /\ naclMounts' = naclMounts \ {call.share}
            PROVE  \A g : /\ In(toJs, "unmount", g) => In(toJs', "unmount", g)
                          /\ g \in naclMounts => g \in naclMounts' \/ In(toJs', "unmount", g)
        BY <3>2 DEF In
      <3>. QED
        BY <1>1, <2>1, <3>1, <3>2, ModuleAnswers
    <2>5. ASSUME NEW f \in (everMounted' \cap registered') \ refused'  PROVE BackedNext(f)
      BY <1>0, <2>2, <2>3, <2>4, <2>5 DEF BackedNext
    <2>. QED
      BY <1>a, <2>5
  <1>2. CASE Restart
    BY <1>a, <1>2 DEF Restart
  \* The other steps move what is on its way, or end it.
  <1>3. ASSUME UNCHANGED <<naclMounts, everMounted>>, refused \subseteq refused',
               registered' \subseteq registered,
               \A g : In(toJs, "unmount", g) =>
                        In(toJs', "unmount", g) \/ In(fspCalls', "unmount", g),
               \A g \in registered' \ refused' :
                   In(fspCalls, "unmount", g) => In(fspCalls', "unmount", g)
        PROVE  ListedBacked'
    <2>1. ASSUME NEW f \in (everMounted' \cap registered') \ refused'  PROVE BackedNext(f)
      BY <1>0, <1>3, <2>1 DEF BackedNext
    <2>. QED
      BY <1>a, <2>1
  <1>. SUFFICES ASSUME UNCHANGED <<naclMounts, everMounted>>, refused \subseteq refused'
                PROVE  ListedBacked'
    BY <1>1, <1>2, RefusedCases
  <1>4. CASE BackedFrame
    BY <1>3, <1>4 DEF BackedFrame
  <1>5. CASE CredentialsLoaded
    <2>1. UNCHANGED <<toJs, registered>>
      BY <1>5 DEF CredentialsLoaded, persistentVars
    <2>2. Elements(fspCalls) \subseteq Elements(fspCalls')
      BY <1>5, AskedList DEF Typed, Types
    <2>. QED
      BY <1>3, <2>1, <2>2 DEF In
  <1>6. CASE ListAnswered \/ ListRefused
    <2>1. UNCHANGED <<toJs, registered>>
      BY <1>6 DEF ListAnswered, ListRefused, FspFrame, PopulateMounts, ListFails, persistentVars
    <2>2. /\ Elements(fspCalls) = Elements(Tail(fspCalls)) \cup {Head(fspCalls)}
          /\ Head(fspCalls).op = "getAll"
      BY <1>6, FspTail DEF ListAnswered, ListRefused, Typed, Types
    <2>3. Elements(Tail(fspCalls)) \subseteq Elements(fspCalls')
      BY <1>6, ListQueue DEF ListRefused, ListFails, Typed, Types
    <2>. QED
      BY <1>3, <2>1, <2>2, <2>3 DEF In
  <1>7. ASSUME NEW f, BootUnmountAnswered(f)  PROVE ListedBacked'
    <2>1. registered' \subseteq registered /\ fspCalls' = Tail(fspCalls)
      BY <1>7 DEF BootUnmountAnswered, BootUnmount
    <2>2. PICK op : op # "getAll" /\ op # "unmount" /\ FspAnswer(op, f)
      BY <1>7 DEF BootUnmountAnswered
    <2>3. /\ UNCHANGED toJs
          /\ \A g : In(fspCalls, "unmount", g) => In(Tail(fspCalls), "unmount", g)
      BY <2>2, CallTaken
    <2>. QED
      BY <1>3, <2>1, <2>3
  <1>8. ASSUME NEW f, MountAnswered(f)  PROVE ListedBacked'
    <2>1. /\ UNCHANGED toJs
          /\ \A g : In(fspCalls, "unmount", g) => In(Tail(fspCalls), "unmount", g)
          /\ f \in Held \/ In(Tail(fspCalls), "unmount", f)
      BY <1>8, CallTaken DEF MountAnswered
    <2>2. \A g : In(Tail(fspCalls), "unmount", g) => In(fspCalls', "unmount", g)
      BY <1>8, AskedNext DEF In, Typed, Types
    <2>3. registered' \subseteq registered \cup {f}
      BY <1>8 DEF MountAnswered, FspMount
    <2>4. ASSUME NEW g \in (everMounted' \cap registered') \ refused'  PROVE BackedNext(g)
      <3>1. CASE g = f
        BY <2>1, <2>2, <3>1 DEF Held, BackedNext
      <3>2. CASE g # f
        BY <1>0, <2>1, <2>2, <2>3, <2>4, <3>2 DEF BackedNext
      <3>. QED
        BY <3>1, <3>2
    <2>. QED
      BY <1>a, <2>4
  <1>9. ASSUME NEW f, GetAnswered(f)  PROVE ListedBacked'
    <2>1. /\ UNCHANGED toJs
          /\ \A g : In(fspCalls, "unmount", g) => In(Tail(fspCalls), "unmount", g)
      BY <1>9, CallTaken DEF GetAnswered
    <2>2. fspCalls' = Tail(fspCalls) /\ UNCHANGED registered
      BY <1>9 DEF GetAnswered, FspGet, persistentVars
    <2>. QED
      BY <1>3, <2>1, <2>2
  <1>10. ASSUME NEW f, UnmountAnswered(f)  PROVE ListedBacked'
    <2>1. /\ UNCHANGED toJs
          /\ \A g : In(fspCalls, "unmount", g) => In(Tail(fspCalls), "unmount", g) \/ g = f
      BY <1>10, CallTaken DEF UnmountAnswered
    <2>2. /\ fspCalls' = Tail(fspCalls) /\ registered' \subseteq registered
          /\ f \notin registered' \ refused'
      BY <1>10 DEF UnmountAnswered, FspUnmount
    <2>. QED
      BY <1>3, <2>1, <2>2
  <1>11. CASE HandleReply
    <2>1. PICK reply : reply = Head(toJs)
      OBVIOUS
    <2>2. /\ reply.op = "unmount" => reply.ok
          /\ \A o, g : In(toJs, o, g) => In(toJs', o, g) \/ (o = reply.op /\ g = reply.share)
      BY <1>11, <2>1, ReplyTaken
    <2>3. UNCHANGED registered
      BY <1>11 DEF HandleReply, persistentVars
    <2>4. /\ \A g : In(fspCalls, "unmount", g) => In(fspCalls', "unmount", g)
          /\ reply.op = "unmount" => In(fspCalls', "unmount", reply.share)
      BY <1>11, <2>1, ReplyPassedOn DEF In
    <2>. QED
      BY <1>3, <2>2, <2>3, <2>4
  <1>. QED
    BY <1>2, <1>4, <1>5, <1>6, <1>7, <1>8, <1>9, <1>10, <1>11, <1>1, BackedCases

\* A request on its way to the module is for a share that was mounted in this
\* session and, while Chrome lists it, is mounted still, for any number of shares,
\* mounts, unmounts and requests and whatever calls fail, but for the two
\* exceptions the property names: the page routes a request when a promise of
\* remountShare_ or mount_ is resolved, neither is before the module's answer, and
\* the module's unmount is passed on to Chrome in the order of its answers.
THEOREM RequestsFindMounts == Spec => []RequestsReachMounted
  <1>1. Init => MountsBacked /\ ListedBacked
    BY CoveredEmpty, ElementsEmpty DEF Init, MountsBacked, ListedBacked, In
  <1>2. Typed /\ MountsBacked /\ ListedBacked /\ [Next]_vars => (MountsBacked /\ ListedBacked)'
    BY MountsBackedStep, ListedBackedStep
  <1>3. MountsStand /\ ListedBacked => RequestsReachMounted
    <2>1. \A f : /\ In(toJs, "unmount", f) => Holds(toJs, "unmount", f)
                 /\ In(fspCalls, "unmount", f) => Holds(fspCalls, "unmount", f)
      BY HoldsElements DEF In
    <2>. QED
      BY <2>1 DEF MountsStand, RequestsMade, ListedBacked, Backed, RequestsReachMounted
  <1>. QED
    BY <1>1, <1>2, <1>3, AlwaysTyped, AlwaysStand, PTL DEF Spec
=============================================================================
