--------------------------- MODULE MountLifecycle ---------------------------
(***************************************************************************)
(* The life of a mounted share: SambaClient loads the saved credentials,   *)
(* asks the Files app which file systems it still shows (populateMounts_), *)
(* mounts a share for the user (mount_), mounts it again when the first    *)
(* request after a start needs it (remountShare_) and unmounts it.  Four   *)
(* parties keep a part of the state: the page (mounts, credentials), the   *)
(* native module (its mounts, its credentials), Chrome's list of provided  *)
(* file systems and chrome.storage.  The last two outlive the page.        *)
(*                                                                         *)
(* The page runs one task at a time; the callbacks of a promise that is    *)
(* settled run before the next task (Calm).  Messages to the module and    *)
(* back, calls of chrome.fileSystemProvider and writes to chrome.storage   *)
(* are each a FIFO; a call's effect and its callback are one step.  What   *)
(* sendMessageWithRetry repeats is in MessageRouter and is one try here.   *)
(***************************************************************************)
EXTENDS Integers, Sequences, FiniteSets

CONSTANTS Shares,      \* file system ids
          CredKey,     \* of each share, the native credential store's key
          Faults,      \* which of "load", "mount", "fsp", "save" may fail
          MaxMounts,   \* bound: mounts and unmounts the user asks for
          MaxRequests, \* bound: requests of the Files app
          MaxRestarts  \* bound: times the page stops and starts again

ASSUME FaultsAssumption == Faults \subseteq {"load", "mount", "fsp", "save"}
ASSUME SharesAssumption == IsFiniteSet(Shares)
ASSUME BoundsAssumption == MaxMounts \in Nat /\ MaxRequests \in Nat /\ MaxRestarts \in Nat

Keys == {CredKey[f] : f \in Shares}
Requests == 1..MaxRequests

VARIABLES
    registered, \* Chrome's list: the file systems the Files app shows
    stored,     \* chrome.storage: the shares with saved credentials
    phase,      \* of the page's start: "loading", "listing", "unmounting",
                \* "populated", or "stuck" when credentials.load or getAll failed
    departing,  \* shares populateMounts_ unmounts
    creds,      \* CredStore.creds: the shares that have an entry
    mounts,     \* SambaClient.mounts, and the state of the entry's mountPromise
    request,    \* of each request of the Files app: its share and its state
    toNacl,     \* messages to the native module
    toJs,       \* its replies
    fspCalls,   \* calls of chrome.fileSystemProvider
    saves,      \* calls of chrome.storage.local.set
    naclMounts, \* SambaFsp::mounts
    naclCreds,  \* SambaFsp::Credentials, by key
    asked,      \* bound: mounts and unmounts asked for
    restarts,   \* bound: restarts
    early,      \* history: the user changed something before populate was over
    saveFailed, \* history: the last save failed
    remembered, \* history: mounted, its credentials saved, no unmount asked since
    excused,    \* history: shares on which a call failed since the start
    failedKeys, \* history: keys of mounts the module refused since the start
    everMounted, \* history: shares the module has mounted since the start
    refused      \* history: shares Chrome would not unmount, not mounted since

persistentVars == <<registered, stored>>
pageVars == <<phase, departing, creds, mounts, request>>
queueVars == <<toNacl, toJs, fspCalls, saves>>
naclVars == <<naclMounts, naclCreds>>
boundVars == <<asked, restarts>>
historyVars == <<early, saveFailed, remembered, excused, failedKeys, everMounted, refused>>
vars == <<persistentVars, pageVars, queueVars, naclVars, boundVars, historyVars>>

\* The mountPromise of an entry: null, pending in remountShare_ or in mount_,
\* resolved, or rejected.
Null == "null"
MountStates == {"absent", Null, "remounting", "mounting", "mounted", "failed"}

NoRequest == [share |-> "none", state |-> "none"]

Call(op, f) == [op |-> op, share |-> f]
RequestCall(r) == [op |-> "request", share |-> request[r].share, id |-> r]
Reply(op, f, ok) == [op |-> op, share |-> f, ok |-> ok]
Save(op, f, entries) == [op |-> op, share |-> f, creds |-> entries]

\* Some shares are mounted from an earlier session, some of them remembered.
Init ==
    /\ registered \in SUBSET Shares
    /\ stored \in SUBSET registered
    /\ phase = "loading"
    /\ departing = {}
    /\ creds = {}
    /\ mounts = [f \in Shares |-> "absent"]
    /\ request = [r \in Requests |-> NoRequest]
    /\ toNacl = <<>>
    /\ toJs = <<>>
    /\ fspCalls = <<>>
    /\ saves = <<>>
    /\ naclMounts = {}
    /\ naclCreds = {}
    /\ asked = 0
    /\ restarts = 0
    /\ early = FALSE
    /\ saveFailed = FALSE
    /\ remembered = stored
    /\ excused = {}
    /\ failedKeys = {}
    /\ everMounted = {}
    /\ refused = {}

-----------------------------------------------------------------------------
\* No promise callback is ready: the page may take its next task.
Calm == \A r \in Requests :
           /\ request[r].state # "ready"
           /\ ~(phase = "populated" /\ request[r].state = "parked")

\* The requests that wait for the promise of f that p names are told.
Tell(f, p, state) ==
    request' = [r \in Requests |-> IF request[r] = [share |-> f, state |-> p]
                                     THEN [share |-> f, state |-> state] ELSE request[r]]

\* What the user does before populate is over is noted.
Note == early' = (early \/ phase # "populated")

-----------------------------------------------------------------------------
(* The page starts.                                                        *)

\* Mutant: populateMounts_ does not wait for the credentials.
CredentialsLoadedLate ==
    /\ Calm
    /\ phase = "loading"
    /\ phase' = "listing"
    /\ fspCalls' = Append(fspCalls, Call("getAll", "none"))
    /\ UNCHANGED <<persistentVars, departing, creds, mounts, request, toNacl, toJs, saves,
                   naclVars, boundVars, historyVars>>

\* credentials.load succeeds and populateMounts_ calls getAll.
CredentialsLoaded ==
    /\ Calm
    /\ phase = "loading"
    /\ creds' = stored
    /\ phase' = "listing"
    /\ fspCalls' = Append(fspCalls, Call("getAll", "none"))
    /\ UNCHANGED <<persistentVars, departing, mounts, request, toNacl, toJs, saves,
                   naclVars, boundVars, historyVars>>

\* It fails: populateMounts_ is never called.
LoadFails ==
    /\ Calm
    /\ phase = "loading"
    /\ "load" \in Faults
    /\ phase' = "stuck"
    /\ UNCHANGED <<persistentVars, departing, creds, mounts, request, queueVars,
                   naclVars, boundVars, historyVars>>

\* The order in which populateMounts_ meets the shares is that of Chrome's list.
Orders(S) == {o \in [1..Cardinality(S) -> S] : \A i, j \in DOMAIN o : o[i] = o[j] => i = j}

\* populateMounts_: a share without credentials is unmounted, the others enter
\* the table with no promise, whatever they had there.
PopulateMounts ==
    LET unknown == registered \ creds
    IN /\ mounts' = [f \in Shares |-> IF f \in registered \ unknown THEN Null ELSE mounts[f]]
       /\ departing' = unknown
       /\ phase' = IF unknown = {} THEN "populated" ELSE "unmounting"
       /\ \E o \in Orders(unknown) :
             fspCalls' = Tail(fspCalls) \o [i \in DOMAIN o |-> Call("boot unmount", o[i])]
       /\ UNCHANGED <<persistentVars, creds, saves, historyVars>>

\* getAll gives no list: the callback throws and populateResolver never settles.
ListFails ==
    /\ "fsp" \in Faults
    /\ phase' = "stuck"
    /\ fspCalls' = Tail(fspCalls)
    /\ UNCHANGED <<persistentVars, departing, creds, mounts, saves, historyVars>>

\* Mutant: a rejected unmount is not counted as settled.
BootUnmountWaitsForSuccess(f) ==
    /\ \/ /\ f \in registered /\ registered' = registered \ {f}
          /\ departing' = departing \ {f}
          /\ phase' = IF departing = {f} THEN "populated" ELSE phase
          /\ UNCHANGED excused
       \/ /\ f \notin registered \/ "fsp" \in Faults
          /\ excused' = excused \cup {f}
          /\ UNCHANGED <<registered, departing, phase>>
    /\ fspCalls' = Tail(fspCalls)
    /\ UNCHANGED <<stored, creds, mounts, saves, early, saveFailed, remembered, failedKeys,
                   everMounted, refused>>

\* joinAllIgnoringRejects: the last of these callbacks, whether it succeeds or
\* not, resolves populateResolver.
BootUnmount(f) ==
    /\ \/ f \in registered /\ registered' = registered \ {f} /\ UNCHANGED excused
       \/ /\ f \notin registered \/ "fsp" \in Faults
          /\ excused' = excused \cup {f}
          /\ UNCHANGED registered
    /\ departing' = departing \ {f}
    /\ phase' = IF departing = {f} THEN "populated" ELSE phase
    /\ fspCalls' = Tail(fspCalls)
    /\ UNCHANGED <<stored, creds, mounts, saves, early, saveFailed, remembered, failedKeys,
                   everMounted, refused>>

-----------------------------------------------------------------------------
(* The user mounts and unmounts.                                           *)

Concerns(queue, f) == \E i \in 1..Len(queue) : queue[i].share = f
Holds(queue, op, f) == \E i \in 1..Len(queue) : queue[i].op = op /\ queue[i].share = f

UnderWay(op, f) == \/ Holds(toNacl, op, f) \/ Holds(toJs, op, f)
                   \/ Holds(fspCalls, op, f) \/ Holds(saves, op, f)

\* mount: the popup asks, one dialog at a time for a share.
Mount(f) ==
    /\ Calm
    /\ asked < MaxMounts
    /\ ~UnderWay("mount", f) /\ ~UnderWay("get", f)
    /\ asked' = asked + 1
    /\ toNacl' = Append(toNacl, Call("mount", f))
    /\ UNCHANGED <<persistentVars, pageVars, toJs, fspCalls, saves, naclVars, restarts,
                   historyVars>>

\* unmount: the Files app asks, of a file system it shows.
Unmount(f) ==
    /\ Calm
    /\ asked < MaxMounts
    /\ f \in registered
    /\ asked' = asked + 1
    /\ toNacl' = Append(toNacl, Call("unmount", f))
    /\ remembered' = remembered \ {f}
    /\ UNCHANGED <<persistentVars, pageVars, toJs, fspCalls, saves, naclVars, restarts,
                   early, saveFailed, excused, failedKeys, everMounted, refused>>

\* mount_, once the module has mounted the share: fsp.mount, which refuses a
\* file system that is already there; then fsp.get.
FspMount(f) ==
    /\ \/ /\ f \notin registered
          /\ registered' = registered \cup {f}
          /\ fspCalls' = Append(Tail(fspCalls), Call("get", f))
          /\ Note
       \/ /\ f \in registered \/ "fsp" \in Faults
          /\ fspCalls' = Tail(fspCalls)
          /\ UNCHANGED <<registered, early>>
    /\ UNCHANGED <<stored, phase, departing, creds, mounts, saves, saveFailed, remembered,
                   excused, failedKeys, everMounted, refused>>

\* Then the entry with the promise of mount_, which is resolved at once unless
\* the credentials are to be saved.
FspGet(f) ==
    /\ \/ /\ f \in registered
          /\ \/ /\ mounts' = [mounts EXCEPT ![f] = "mounting"]
                /\ creds' = creds \cup {f}
                /\ saves' = Append(saves, Save("mount", f, creds'))
             \/ /\ mounts' = [mounts EXCEPT ![f] = "mounted"]
                /\ UNCHANGED <<creds, saves>>
          /\ Note
          /\ UNCHANGED excused
       \/ /\ f \notin registered \/ "fsp" \in Faults
          /\ excused' = excused \cup {f}
          /\ UNCHANGED <<creds, mounts, saves, early>>
    /\ fspCalls' = Tail(fspCalls)
    /\ UNCHANGED <<persistentVars, phase, departing, saveFailed, remembered, failedKeys,
                   everMounted, refused>>

\* Mutant: the credentials are saved before they are cleared.
FspUnmountSavesFirst(f) ==
    /\ \/ /\ f \in registered
          /\ registered' = registered \ {f}
          /\ UNCHANGED <<excused, refused>>
       \/ /\ f \notin registered \/ "fsp" \in Faults
          /\ excused' = excused \cup {f}
          /\ refused' = refused \cup ({f} \cap registered)
          /\ UNCHANGED registered
    /\ creds' = creds \ {f}
    /\ saves' = Append(saves, Save("unmount", f, creds))
    /\ fspCalls' = Tail(fspCalls)
    /\ Note
    /\ UNCHANGED <<stored, phase, departing, mounts, saveFailed, remembered, failedKeys,
                   everMounted>>

\* unmount, once the module has unmounted the share: fsp.unmount.  Whether it
\* succeeds or not the credentials are cleared; the entry in mounts stays.
FspUnmount(f) ==
    /\ \/ /\ f \in registered
          /\ registered' = registered \ {f}
          /\ UNCHANGED <<excused, refused>>
       \/ /\ f \notin registered \/ "fsp" \in Faults
          /\ excused' = excused \cup {f}
          /\ refused' = refused \cup ({f} \cap registered)
          /\ UNCHANGED registered
    /\ creds' = creds \ {f}
    /\ saves' = Append(saves, Save("unmount", f, creds'))
    /\ fspCalls' = Tail(fspCalls)
    /\ Note
    /\ UNCHANGED <<stored, phase, departing, mounts, saveFailed, remembered, failedKeys,
                   everMounted>>

\* The next call of chrome.fileSystemProvider takes effect and calls back.
FspAnswers ==
    /\ Calm
    /\ fspCalls # <<>>
    /\ LET call == Head(fspCalls)
       IN \/ call.op = "getAll" /\ (PopulateMounts \/ ListFails)
          \/ call.op = "boot unmount" /\ BootUnmount(call.share)
          \/ call.op = "mount" /\ FspMount(call.share)
          \/ call.op = "get" /\ FspGet(call.share)
          \/ call.op = "unmount" /\ FspUnmount(call.share)
    /\ UNCHANGED <<request, toNacl, toJs, naclVars, boundVars>>

\* save of the credentials of a new mount settles the promise of mount_.
SaveSucceeds ==
    /\ Calm
    /\ saves # <<>>
    /\ LET save == Head(saves) IN
          /\ stored' = save.creds
          /\ IF save.op = "mount"
               THEN /\ mounts' = [mounts EXCEPT ![save.share] =
                                    IF @ = "mounting" THEN "mounted" ELSE @]
                    /\ Tell(save.share, "mount", "ready")
                    /\ remembered' = IF UnderWay("unmount", save.share) THEN remembered
                                     ELSE remembered \cup {save.share}
               ELSE UNCHANGED <<mounts, request, remembered>>
    /\ saveFailed' = FALSE
    /\ saves' = Tail(saves)
    /\ UNCHANGED <<registered, phase, departing, creds, toNacl, toJs, fspCalls, naclVars,
                   boundVars, early, excused, failedKeys, everMounted, refused>>

SaveFails ==
    /\ Calm
    /\ "save" \in Faults
    /\ saves # <<>>
    /\ LET save == Head(saves) IN
          IF save.op = "mount"
            THEN /\ mounts' = [mounts EXCEPT ![save.share] =
                                 IF @ = "mounting" THEN "failed" ELSE @]
                 /\ Tell(save.share, "mount", "NOT_FOUND")
                 /\ excused' = excused \cup {save.share}
            ELSE UNCHANGED <<mounts, request, excused>>
    /\ saveFailed' = TRUE
    /\ saves' = Tail(saves)
    /\ UNCHANGED <<persistentVars, phase, departing, creds, toNacl, toJs, fspCalls, naclVars,
                   boundVars, early, remembered, failedKeys, everMounted, refused>>

-----------------------------------------------------------------------------
(* Requests of the Files app, and the mount they may need.                 *)

\* sendMessage_: the request waits for populateResolver.
AskFile(r, f) ==
    /\ Calm
    /\ f \in registered
    /\ request[r] = NoRequest /\ \A q \in 1..(r - 1) : request[q] # NoRequest
    /\ request' = [request EXCEPT ![r] = [share |-> f, state |-> "parked"]]
    /\ UNCHANGED <<persistentVars, phase, departing, creds, mounts, queueVars, naclVars,
                   boundVars, historyVars>>

\* Mutant: a request does not wait for the remount it starts or finds.
AdmissionHastens(mount) == CASE mount \in {"absent", "failed"} -> "NOT_FOUND"
                             [] mount = "mounting" -> "mount"
                             [] mount \in {Null, "remounting", "mounted"} -> "ready"

\* Mutant: a request to a failed mount gets the mount's state for an answer.
AdmissionTellsState(mount) == CASE mount = "absent" -> "NOT_FOUND"
                                [] mount = "failed" -> mount
                                [] mount \in {Null, "remounting"} -> "remount"
                                [] mount = "mounting" -> "mount"
                                [] mount = "mounted" -> "ready"

\* Where a request goes once populate is over, by its mount's state.
Admission(mount) == CASE mount \in {"absent", "failed"} -> "NOT_FOUND"
                      [] mount \in {Null, "remounting"} -> "remount"
                      [] mount = "mounting" -> "mount"
                      [] mount = "mounted" -> "ready"

\* It takes its way; an entry with no promise is first mounted again.
Admit(r) ==
    /\ request[r].state = "parked"
    /\ phase = "populated"
    /\ LET f == request[r].share IN
          /\ request' = [request EXCEPT ![r].state = Admission(mounts[f])]
          /\ IF mounts[f] = Null
               THEN /\ mounts' = [mounts EXCEPT ![f] = "remounting"]
                    /\ toNacl' = Append(toNacl, Call("remount", f))
               ELSE UNCHANGED <<mounts, toNacl>>
    /\ UNCHANGED <<persistentVars, phase, departing, creds, toJs, fspCalls, saves, naclVars,
                   boundVars, historyVars>>

\* The mountPromise is resolved: the message goes to the router.
Route(r) ==
    /\ request[r].state = "ready"
    /\ request' = [request EXCEPT ![r].state = "routed"]
    /\ toNacl' = Append(toNacl, RequestCall(r))
    /\ UNCHANGED <<persistentVars, phase, departing, creds, mounts, toJs, fspCalls, saves,
                   naclVars, boundVars, historyVars>>

\* Mutant: a failed remount leaves its rejected promise in the entry.
HandleReplyKeepsPromise ==
    /\ Calm
    /\ toJs # <<>>
    /\ LET reply == Head(toJs)
           f == reply.share
       IN \/ /\ reply.op \in {"mount", "unmount"}
             /\ fspCalls' = IF reply.ok THEN Append(fspCalls, Call(reply.op, f)) ELSE fspCalls
             /\ UNCHANGED <<mounts, request>>
          \/ /\ reply.op = "remount"
             /\ mounts' = [mounts EXCEPT ![f] = IF reply.ok THEN "mounted" ELSE "failed"]
             /\ Tell(f, "remount", IF reply.ok THEN "ready" ELSE "NOT_FOUND")
             /\ UNCHANGED fspCalls
    /\ toJs' = Tail(toJs)
    /\ UNCHANGED <<persistentVars, phase, departing, creds, toNacl, saves, naclVars,
                   boundVars, historyVars>>

\* The module's answer to mount, remount or unmount.
HandleReply ==
    /\ Calm
    /\ toJs # <<>>
    /\ LET reply == Head(toJs)
           f == reply.share
       IN \/ /\ reply.op \in {"mount", "unmount"}
             /\ fspCalls' = IF reply.ok THEN Append(fspCalls, Call(reply.op, f)) ELSE fspCalls
             /\ UNCHANGED <<mounts, request>>
          \/ /\ reply.op = "remount" /\ reply.ok
             /\ mounts' = [mounts EXCEPT ![f] = IF @ = "remounting" THEN "mounted" ELSE @]
             /\ Tell(f, "remount", "ready")
             /\ UNCHANGED fspCalls
          \/ /\ reply.op = "remount" /\ ~reply.ok
             /\ mounts' = [mounts EXCEPT ![f] = Null]
             /\ Tell(f, "remount", "NOT_FOUND")
             /\ UNCHANGED fspCalls
    /\ toJs' = Tail(toJs)
    /\ UNCHANGED <<persistentVars, phase, departing, creds, toNacl, saves, naclVars,
                   boundVars, historyVars>>

-----------------------------------------------------------------------------
(* The native module.                                                      *)

\* SambaFsp::mount: the credentials are saved before the share is opened.
NaclMount(call) ==
    /\ naclCreds' = naclCreds \cup {CredKey[call.share]}
    /\ naclMounts' = naclMounts \cup {call.share}
    /\ everMounted' = everMounted \cup {call.share}
    /\ refused' = refused \ {call.share}
    /\ toJs' = Append(toJs, Reply(call.op, call.share, TRUE))
    /\ UNCHANGED <<request, failedKeys>>

\* They are removed again when it cannot be opened.
NaclRefuses(call) ==
    /\ "mount" \in Faults
    /\ naclCreds' = naclCreds \ {CredKey[call.share]}
    /\ failedKeys' = failedKeys \cup {CredKey[call.share]}
    /\ toJs' = Append(toJs, Reply(call.op, call.share, FALSE))
    /\ UNCHANGED <<request, naclMounts, everMounted, refused>>

\* Mutant: unmount removes the credentials of the share's key.
NaclUnmountForgets(call) ==
    /\ naclMounts' = naclMounts \ {call.share}
    /\ naclCreds' = naclCreds \ {CredKey[call.share]}
    /\ toJs' = Append(toJs, Reply("unmount", call.share, TRUE))
    /\ UNCHANGED <<request, failedKeys, everMounted, refused>>

\* SambaFsp::unmount leaves the credentials.
NaclUnmount(call) ==
    /\ naclMounts' = naclMounts \ {call.share}
    /\ toJs' = Append(toJs, Reply("unmount", call.share, TRUE))
    /\ UNCHANGED <<request, naclCreds, failedKeys, everMounted, refused>>

NaclServes ==
    /\ toNacl # <<>>
    /\ LET call == Head(toNacl)
       IN \/ call.op \in {"mount", "remount"} /\ (NaclMount(call) \/ NaclRefuses(call))
          \/ call.op = "unmount" /\ NaclUnmount(call)
          \/ /\ call.op = "request"
             /\ request' = [request EXCEPT ![call.id].state = "served"]
             /\ UNCHANGED <<toJs, naclVars, failedKeys, everMounted, refused>>
    /\ toNacl' = Tail(toNacl)
    /\ UNCHANGED <<persistentVars, phase, departing, creds, mounts, fspCalls, saves,
                   boundVars, early, saveFailed, remembered, excused>>

-----------------------------------------------------------------------------
Answered == {"served", "NOT_FOUND", "lost"}

\* The page, and the module with it, stops at any moment and starts again.
Restart ==
    /\ restarts < MaxRestarts
    /\ restarts' = restarts + 1
    /\ phase' = "loading"
    /\ departing' = {} /\ creds' = {} /\ naclMounts' = {} /\ naclCreds' = {}
    /\ mounts' = [f \in Shares |-> "absent"]
    /\ request' = [r \in Requests |->
                     IF request[r].state \in Answered \cup {"none"} THEN request[r]
                     ELSE [request[r] EXCEPT !.state = "lost"]]
    /\ toNacl' = <<>> /\ toJs' = <<>> /\ fspCalls' = <<>> /\ saves' = <<>>
    /\ saveFailed' = FALSE
    /\ excused' = {} /\ failedKeys' = {} /\ everMounted' = {} /\ refused' = {}
    /\ UNCHANGED <<persistentVars, asked, early, remembered>>

Callback == \E r \in Requests : Admit(r) \/ Route(r)

Start == CredentialsLoaded \/ LoadFails

SavesDone == SaveSucceeds \/ SaveFails

Next == \/ Start
        \/ \E f \in Shares : Mount(f) \/ Unmount(f) \/ \E r \in Requests : AskFile(r, f)
        \/ Callback
        \/ FspAnswers
        \/ SavesDone
        \/ HandleReply
        \/ NaclServes
        \/ Restart

Spec == Init /\ [][Next]_vars

\* Chrome answers its calls, the module serves its messages and the page's event
\* loop runs.  Nothing makes the user or the Files app ask, or the page stop.
Fairness == /\ WF_vars(Start) /\ WF_vars(Callback) /\ WF_vars(FspAnswers)
            /\ WF_vars(SavesDone) /\ WF_vars(HandleReply) /\ WF_vars(NaclServes)

FairSpec == Spec /\ Fairness
-----------------------------------------------------------------------------
(* Properties.                                                             *)

Calls == [op: {"mount", "remount", "unmount"}, share: Shares]
           \cup [op: {"request"}, share: Shares, id: Requests]
FspOps == {"mount", "get", "unmount", "boot unmount"}
Replies == [op: {"mount", "remount", "unmount"}, share: Shares, ok: BOOLEAN]
FspCalls == [op: {"getAll"}, share: {"none"}] \cup [op: FspOps, share: Shares]
SaveCalls == [op: {"mount", "unmount"}, share: Shares, creds: SUBSET Shares]

\* Every variable has its type.
TypeOK ==
    /\ registered \subseteq Shares /\ stored \subseteq Shares
    /\ phase \in {"loading", "listing", "unmounting", "populated", "stuck"}
    /\ departing \subseteq Shares /\ creds \subseteq Shares
    /\ mounts \in [Shares -> MountStates]
    /\ request \in [Requests -> [share: Shares \cup {"none"},
                                 state: {"none", "parked", "remount", "mount", "ready", "routed"}
                                          \cup Answered]]
    /\ toNacl \in Seq(Calls)
    /\ toJs \in Seq(Replies)
    /\ fspCalls \in Seq(FspCalls)
    /\ saves \in Seq(SaveCalls)
    /\ naclMounts \subseteq Shares /\ naclCreds \subseteq Keys
    /\ asked \in 0..MaxMounts /\ restarts \in 0..MaxRestarts
    /\ early \in BOOLEAN /\ saveFailed \in BOOLEAN
    /\ remembered \subseteq Shares /\ excused \subseteq Shares
    /\ failedKeys \subseteq Keys /\ everMounted \subseteq Shares /\ refused \subseteq Shares

\* A share that was mounted with its credentials saved is still in Chrome's list
\* and still has its credentials, through restarts, other mounts and unmounts
\* and failed calls, until the user asks to unmount it: populateMounts_ never
\* takes it for a share without credentials.  What the user does before
\* populateMounts_ is done is the exception.
RememberedSurvives == ~early => remembered \subseteq registered \cap stored

\* The credentials the page works with are the saved ones, whatever the order in
\* which mounts and unmounts finish, unless the last save failed.
StorageInStep ==
    saves = <<>> /\ phase \notin {"loading", "stuck"} /\ ~saveFailed /\ ~early
        => stored = creds

\* No message, call or reply about f is under way.
Settled(f) == /\ Calm
              /\ ~Concerns(toNacl, f) /\ ~Concerns(toJs, f)
              /\ ~Concerns(fspCalls, f) /\ ~Concerns(saves, f)

\* A file system that the Files app shows can be used: the page knows it, and the
\* module has it mounted or the next request mounts it.  The exceptions are a
\* share on which a call has failed and what the user does before
\* populateMounts_ is done.
ShownIsServed ==
    phase = "populated" /\ ~early =>
        \A f \in registered \ excused :
            Settled(f) => mounts[f] = Null \/ (mounts[f] = "mounted" /\ f \in naclMounts)

\* A request on its way to the module is for a share the module has mounted in
\* this session and, as long as Chrome lists the share, has mounted still: it does
\* not find an empty share root.  An unmount leaves the entry's resolved promise
\* as it is, which makes two exceptions: from the module's unmount until Chrome
\* has answered fsp.unmount, and a share that Chrome would not unmount.
RequestsReachMounted ==
    \A i \in 1..Len(toNacl) :
        toNacl[i].op = "request" =>
            LET f == toNacl[i].share IN
                /\ f \in everMounted
                /\ f \in registered \ refused =>
                      \/ f \in naclMounts
                      \/ Holds(toJs, "unmount", f) \/ Holds(fspCalls, "unmount", f)

\* A mounted share has credentials to connect with again, unless a mount with
\* the same key has been refused since the start.
MountedHasCredentials ==
    \A f \in naclMounts : CredKey[f] \in naclCreds \cup failedKeys

\* Every request of the Files app is answered, or lost to a restart, in the end,
\* whichever calls fail: only credentials.load and getAll can leave it waiting for
\* ever, for then populateResolver never settles.
EveryRequestAnswered ==
    \A r \in Requests :
        request[r] # NoRequest ~> request[r].state \in Answered \/ phase = "stuck"
=============================================================================
