--------------------------- MODULE NameResolution ---------------------------
(***************************************************************************)
(* Finding the hosts of the local network from the popup.  When it opens   *)
(* it scans for hosts, to fill its drop-down list with their shares; when  *)
(* the user mounts a share, the name of the host is looked up in lmHosts,  *)
(* then in ipCache, and at last by another scan.                           *)
(*                                                                         *)
(* A scan (getAllShareRoots) makes a lookup for each network interface: a  *)
(* timer, a listener and a socket that sends a NetBIOS query.  Only the    *)
(* timer ends a lookup.  chrome.sockets.udp.onReceive is one event for the *)
(* page, so every listener hears the answers to every socket, and none is  *)
(* ever removed; timers of one length fire in the order they were set.     *)
(*                                                                         *)
(* JavaScript runs one task at a time: a task here includes the promise    *)
(* callbacks it makes ready.  Answers may be lost, repeated or late, and a *)
(* host may answer from any address.  Names are in upper case throughout,  *)
(* as IPCache and the reader of the packets make them.                     *)
(***************************************************************************)
EXTENDS Integers, Sequences, FiniteSets

CONSTANTS Hosts,          \* names that the user can ask for
          Literals,       \* those of them that are IPv4 addresses already
          Addresses,      \* addresses of hosts
          None,           \* no address
          Stored,         \* what chrome.storage holds for lmHosts: host to address
          Addressed,      \* address entries of the interfaces: [name, isIpv4]
          MaxResolutions, \* bound: shares the user mounts
          MaxAnswers      \* bound: answers that are received

ASSUME NetworkAssumption ==
    /\ Literals \subseteq Hosts \cap Addresses
    /\ None \notin Addresses
    /\ Stored \in [Hosts -> Addresses \cup {None}]
    /\ Addressed \in Seq([name: STRING, isIpv4: BOOLEAN])
    /\ MaxResolutions \in Nat
    /\ MaxAnswers \in Nat

\* Scan 0 is the one of the drop-down list; scan r is made for resolution r.
Resolutions == 1..MaxResolutions
Scans == 0..MaxResolutions
Entries == 1..Len(Addressed)
Lookups == Scans \X Entries

Unknown == [h \in Hosts |-> None]

VARIABLES
    scan,       \* "none", "listing" the interfaces, "waiting" for its lookups,
                \* "done", or "stuck" because the interfaces could not be listed
    remaining,  \* promisesRemaining of a scan's joinAllIgnoringRejects
    results,    \* its resultList: the lookups that have resolved, in order
    nameLookup, \* of each lookup, the addresses its listener has heard
    listening,  \* the lookups whose listener is registered
    timers,     \* timers that have not fired, in the order they were set
    socket,     \* "none", "creating", "open" or "closed"
    lmHosts,    \* the hosts that lmHosts knows
    loading,    \* lmHosts.load has not ended
    ipCache,    \* the addresses that scans have found
    wanted,     \* the host of each resolution; None before it is asked for
    resolution, \* "none", "waiting" for a scan, or "answered"
    answer,     \* the address it was answered with, None for the empty list
    enumerating,\* hosts whose shares the native module has yet to read
    shares,     \* hosts whose shares it has read
    dropdown,   \* "loading", "reading" while the background page is asked, or
                \* "shown"
    answers,    \* how many answers have been received
    heard,      \* history: the last address heard of each host during a scan
    late,       \* history: lookups whose socket was created after their timer
    unreadable  \* history: hosts whose shares could not be read

scanVars == <<scan, remaining, results, nameLookup, listening, timers, socket>>
cacheVars == <<lmHosts, loading, ipCache>>
userVars == <<wanted, resolution, answer>>
popupVars == <<enumerating, shares, dropdown>>
historyVars == <<answers, heard, late, unreadable>>
vars == <<scanVars, cacheVars, userVars, popupVars, historyVars>>

\* onDefaultPopupLoaded: the scan for the drop-down list has begun, and so has
\* loading lmHosts.
Init ==
    /\ scan = [s \in Scans |-> IF s = 0 THEN "listing" ELSE "none"]
    /\ remaining = [s \in Scans |-> 0]
    /\ results = [s \in Scans |-> <<>>]
    /\ nameLookup = [l \in Lookups |-> Unknown]
    /\ listening = {}
    /\ timers = <<>>
    /\ socket = [l \in Lookups |-> "none"]
    /\ lmHosts = Unknown
    /\ loading = TRUE
    /\ ipCache = Unknown
    /\ wanted = [r \in Resolutions |-> None]
    /\ resolution = [r \in Resolutions |-> "none"]
    /\ answer = [r \in Resolutions |-> None]
    /\ enumerating = {}
    /\ shares = {}
    /\ dropdown = "loading"
    /\ answers = 0
    /\ heard = [s \in Scans |-> Unknown]
    /\ late = {}
    /\ unreadable = {}

Update(old, new) == [h \in Hosts |-> IF new[h] # None THEN new[h] ELSE old[h]]
Known(m) == {h \in Hosts : m[h] # None}

-----------------------------------------------------------------------------
(* A scan.                                                                 *)

\* getNetworkInterfaces takes the first IPv4 address of every interface.
FirstOfInterface(e) ==
    /\ Addressed[e].isIpv4
    /\ \A e2 \in 1 .. e - 1 : Addressed[e2].isIpv4 => Addressed[e2].name # Addressed[e].name

Chosen == {e \in Entries : FirstOfInterface(e)}

\* In the order Chrome lists them.
InterfaceList == CHOOSE list \in [1..Cardinality(Chosen) -> Chosen] :
                    \A i, j \in DOMAIN list : i < j => list[i] < list[j]
LookupsOf(s) == {<<s, InterfaceList[i]>> : i \in 1..Len(InterfaceList)}

\* What a scan has found: mergeInterfaceHosts over the lookups in the order they
\* resolved, a later one overwriting an earlier one.
Merged(s, resolved) ==
    LET Last(h) == {i \in 1..Len(resolved) : nameLookup[<<s, resolved[i]>>][h] # None}
    IN [h \in Hosts |-> IF Last(h) = {} THEN None
          ELSE LET i == CHOOSE i \in Last(h) : \A j \in Last(h) : j <= i
               IN nameLookup[<<s, resolved[i]>>][h]]

\* Mutant: ipCache is asked before it is updated.
AddressKnownBefore(s, found) == ipCache[wanted[s]]

\* What ipCache says of the host of a resolution once its scan has ended.
AddressFound(s, found) == Update(ipCache, found)[wanted[s]]

\* The end of a scan: what it found goes into ipCache, and then to the lookup or
\* to the drop-down list that waits for it.
Finish(s, found) ==
    /\ scan' = [scan EXCEPT ![s] = "done"]
    /\ ipCache' = Update(ipCache, found)
    /\ IF s = 0
         THEN /\ enumerating' = Known(found)
              /\ dropdown' = "reading"
              /\ UNCHANGED <<resolution, answer>>
         ELSE /\ resolution' = [resolution EXCEPT ![s] = "answered"]
              /\ answer' = [answer EXCEPT ![s] = AddressFound(s, found)]
              /\ UNCHANGED <<enumerating, dropdown>>

\* The interfaces are known: every lookup sets its timer, adds its listener and
\* asks for its socket, all in one task.  Without an interface the scan is over.
InterfacesListed(s) ==
    /\ scan[s] = "listing"
    /\ timers' = timers \o [i \in 1..Len(InterfaceList) |-> <<s, InterfaceList[i]>>]
    /\ listening' = listening \cup LookupsOf(s)
    /\ socket' = [l \in Lookups |-> IF l \in LookupsOf(s) THEN "creating" ELSE socket[l]]
    /\ remaining' = [remaining EXCEPT ![s] = Len(InterfaceList)]
    /\ IF InterfaceList = <<>>
         THEN Finish(s, Unknown)
         ELSE /\ scan' = [scan EXCEPT ![s] = "waiting"]
              /\ UNCHANGED <<ipCache, enumerating, dropdown, resolution, answer>>
    /\ UNCHANGED <<results, nameLookup, lmHosts, loading, wanted, shares, historyVars>>

\* The callback gets no list of interfaces and throws: nothing settles the scan.
ListingFails(s) ==
    /\ scan[s] = "listing"
    /\ scan' = [scan EXCEPT ![s] = "stuck"]
    /\ UNCHANGED <<remaining, results, nameLookup, listening, timers, socket, cacheVars,
                   userVars, popupVars, historyVars>>

\* The socket of a lookup has been created, is bound and sends its query; nothing
\* looks at its timer here.  A socket closed halfway sends nothing, like one that
\* is never created.
SocketCreated(l) ==
    /\ socket[l] = "creating"
    /\ socket' = [socket EXCEPT ![l] = "open"]
    /\ late' = IF \E i \in 1..Len(timers) : timers[i] = l THEN late ELSE late \cup {l}
    /\ UNCHANGED <<scan, remaining, results, nameLookup, listening, timers, cacheVars,
                   userVars, popupVars, answers, heard, unreadable>>

\* Mutant: a listener hears only the answers to its own socket.
HearersOwn(l) == {l} \cap listening

\* The listeners that hear an answer to a socket: all there are.
Hearers(l) == listening

\* Host h answers the query of an open socket.  Its listener, and every other
\* one, notes the address the answer came from.
Receive(l, h, a) ==
    /\ socket[l] = "open"
    /\ answers < MaxAnswers
    /\ answers' = answers + 1
    /\ nameLookup' = [k \in Lookups |-> IF k \in Hearers(l) THEN [nameLookup[k] EXCEPT ![h] = a]
                                                           ELSE nameLookup[k]]
    /\ heard' = [s \in Scans |-> IF scan[s] = "waiting" THEN [heard[s] EXCEPT ![h] = a]
                                                        ELSE heard[s]]
    /\ UNCHANGED <<scan, remaining, results, listening, timers, socket, cacheVars, userVars,
                   popupVars, late, unreadable>>

\* Mutant: a timer leaves the socket open.
CloseNothing(l) == UNCHANGED socket

\* closeUdpSocket, of a socket that exists.
CloseUdpSocket(l) ==
    socket' = [socket EXCEPT ![l] = IF @ = "open" THEN "closed" ELSE @]

\* Mutants: both callbacks of a promise count it down; the scan waits for one
\* lookup more than there are.
CountDownTwice(s) == remaining[s] - 2

FinishedTooLate(left) == left < 0

\* joinAllIgnoringRejects: the promises that have not settled, once one more has.
CountDown(s) == remaining[s] - 1

\* Whether that was the last one.
Finished(left) == left = 0

\* The timer of a lookup fires: its promise resolves with the names it has heard,
\* or rather with the object its listener goes on writing to.
TimerFires ==
    /\ timers # <<>>
    /\ timers' = Tail(timers)
    /\ LET l == Head(timers)
           s == l[1]
           left == CountDown(s)
           resolved == Append(results[s], l[2])
       IN /\ CloseUdpSocket(l)
          /\ remaining' = [remaining EXCEPT ![s] = left]
          /\ results' = [results EXCEPT ![s] = resolved]
          /\ IF Finished(left) /\ scan[s] = "waiting"
               THEN Finish(s, Merged(s, resolved))
               ELSE UNCHANGED <<scan, ipCache, enumerating, dropdown, resolution, answer>>
    /\ UNCHANGED <<nameLookup, listening, lmHosts, loading, wanted, shares, historyVars>>

-----------------------------------------------------------------------------
(* The popup.                                                              *)

\* lmHosts.load ends; when it fails lmHosts stays empty.
LmHostsLoaded ==
    /\ loading
    /\ loading' = FALSE
    /\ lmHosts' \in {Stored, lmHosts}
    /\ UNCHANGED <<scanVars, ipCache, userVars, popupVars, historyVars>>

\* The address that is known without a scan, if any.
Cached(h) == IF h \in Literals THEN h
             ELSE IF lmHosts[h] # None THEN lmHosts[h] ELSE ipCache[h]

\* The user mounts a share of host h: resolveFileShareHostName.  The overlay
\* keeps the user from mounting another one meanwhile.
Resolve(r, h) ==
    /\ resolution[r] = "none"
    /\ \A q \in 1 .. r - 1 : resolution[q] = "answered"
    /\ wanted' = [wanted EXCEPT ![r] = h]
    /\ IF Cached(h) # None
         THEN /\ resolution' = [resolution EXCEPT ![r] = "answered"]
              /\ answer' = [answer EXCEPT ![r] = Cached(h)]
              /\ UNCHANGED scan
         ELSE /\ resolution' = [resolution EXCEPT ![r] = "waiting"]
              /\ scan' = [scan EXCEPT ![r] = "listing"]
              /\ UNCHANGED answer
    /\ UNCHANGED <<remaining, results, nameLookup, listening, timers, socket, cacheVars,
                   popupVars, historyVars>>

\* Mutant: a host that cannot be read ends the enumeration.
EnumerateAllOrNone(h) == {}

\* handleCustomMessage: the hosts that are left once the shares of h could not be
\* read.
AfterUnreadable(h) == enumerating \ {h}

ReadShares(h) ==
    /\ dropdown = "reading"
    /\ h \in enumerating
    /\ \/ /\ shares' = shares \cup {h}
          /\ enumerating' = enumerating \ {h}
          /\ UNCHANGED unreadable
       \/ /\ unreadable' = unreadable \cup {h}
          /\ enumerating' = AfterUnreadable(h)
          /\ UNCHANGED shares
    /\ UNCHANGED <<scanVars, cacheVars, userVars, dropdown, answers, heard, late>>

\* addFoundShares.
AddFoundShares ==
    /\ dropdown = "reading"
    /\ enumerating = {}
    /\ dropdown' = "shown"
    /\ UNCHANGED <<scanVars, cacheVars, userVars, enumerating, shares, historyVars>>

-----------------------------------------------------------------------------
Network == \/ \E l \in Lookups : SocketCreated(l)
           \/ \E l \in Lookups, h \in Hosts \ Literals, a \in Addresses : Receive(l, h, a)
           \/ LmHostsLoaded

List == \E s \in Scans : InterfacesListed(s) \/ ListingFails(s)

Enumerate == (\E h \in Hosts : ReadShares(h)) \/ AddFoundShares

Next == \/ Network
        \/ List
        \/ TimerFires
        \/ Enumerate
        \/ \E r \in Resolutions, h \in Hosts : Resolve(r, h)

Spec == Init /\ [][Next]_vars

\* Chrome answers the listing of the interfaces, one way or the other, timers
\* fire, and the background page and the native module answer the popup.  No
\* socket has to be created, nor does an answer have to come.
FairSpec == Spec /\ WF_vars(List) /\ WF_vars(TimerFires) /\ WF_vars(Enumerate)
-----------------------------------------------------------------------------
(* Properties.                                                             *)

ScanStates == {"none", "listing", "waiting", "done", "stuck"}

TypeOK ==
    /\ scan \in [Scans -> ScanStates]
    /\ remaining \in [Scans -> 0..Len(Addressed)]
    /\ results \in [Scans -> Seq(Entries)]
    /\ nameLookup \in [Lookups -> [Hosts -> Addresses \cup {None}]]
    /\ listening \subseteq Lookups
    /\ timers \in Seq(Lookups)
    /\ socket \in [Lookups -> {"none", "creating", "open", "closed"}]
    /\ lmHosts \in {Unknown, Stored}
    /\ loading \in BOOLEAN
    /\ ipCache \in [Hosts -> Addresses \cup {None}]
    /\ wanted \in [Resolutions -> Hosts \cup {None}]
    /\ resolution \in [Resolutions -> {"none", "waiting", "answered"}]
    /\ answer \in [Resolutions -> Addresses \cup {None}]
    /\ enumerating \cup shares \cup unreadable \subseteq Hosts \ Literals
    /\ dropdown \in {"loading", "reading", "shown"}
    /\ answers \in 0..MaxAnswers
    /\ heard \in [Scans -> [Hosts -> Addresses \cup {None}]]
    /\ late \subseteq Lookups

\* When a scan ends, ipCache has of every host that was heard during it the
\* address heard last: whichever interface the answer came over, although the
\* lookups end one after the other, each with a table of its own that a later one
\* overwrites, and whatever other scans run at the same time.
ScanSeesAll ==
    [][\A s \in Scans : scan[s] = "waiting" /\ scan'[s] = "done" =>
          \A h \in Known(heard[s]) : ipCache'[h] = heard[s][h]]_vars

\* A host is resolved to an address only if it is one, if lmHosts has it, or if it
\* was the last that some scan heard of it; and a host that was heard during the
\* scan made for it is resolved to the last address heard.  So the user is told
\* that there is no such host only if it kept silent all through that scan.
ResolutionsTrue ==
    \A r \in Resolutions :
        LET h == wanted[r]
        IN resolution[r] = "answered" =>
            /\ answer[r] # None =>
                  \/ h \in Literals /\ answer[r] = h
                  \/ answer[r] = Stored[h]
                  \/ \E s \in Scans : scan[s] = "done" /\ answer[r] = heard[s][h]
            /\ answer[r] = None => scan[r] = "done"
            /\ scan[r] = "done" /\ heard[r][h] # None => answer[r] = heard[r][h]

\* Every socket is closed by its timer, except one that was created only after
\* the timer had fired; that one is never closed.
SocketsClosed ==
    \A l \in Lookups : socket[l] = "open" =>
        l \in late \/ \E i \in 1..Len(timers) : timers[i] = l

\* The drop-down list shows the shares of every host that was heard during the
\* scan and could be read, whichever others could not; and each of these hosts
\* can be resolved without another scan, so a share that the user picks from the
\* list mounts at an address that is known.
ShownCanBeMounted ==
    dropdown = "shown" =>
        /\ shares = Known(heard[0]) \ unreadable
        /\ \A h \in shares : Cached(h) # None

\* Every mount gets its address, or none, and the drop-down list stops loading,
\* unless Chrome could not list the interfaces: that is the only way to wait for
\* ever.
EverythingSettles ==
    /\ \A r \in Resolutions :
          resolution[r] = "waiting" ~> resolution[r] = "answered" \/ scan[r] = "stuck"
    /\ <>(dropdown = "shown" \/ scan[0] = "stuck")
=============================================================================
