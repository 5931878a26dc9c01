# A TLA+ model of the network file share app

The app mounts SMB file shares in the ChromeOS Files app.  This directory holds
TLA+ modules of the parts of it that keep state and interact, configurations
that check them with TLC, and proofs that TLAPS checks.  `PROJECT.json` lists
the components, the runs, the hazards each property is for, the theorems, and
the lines of the source each definition stands for.

    tlc -config MessageRouter.cfg MessageRouter.tla
    tlc -config DirectoryTree.cfg MCDirectoryTree.tla
    tlapm MessageRouterProofs.tla

## The system

A request of the Files app goes through these parts and back:

    Files app --event--> SambaClient --message--> MessageRouter --postMessage-->
      BaseNaclFsp::HandleMessage --call--> SambaFsp --> libsmbclient --> server

| Part | State | Operations |
| --- | --- | --- |
| `app/plugin.js` | none | registers a listener per file system event; hands the module's replies to the router; mount requests come from the popup |
| `SambaClient` (`app/samba.js`) | `messageId_`, `mounts` with a `mountPromise` each, `populateResolver` | `mount`, `unmount`, `remountShare_`, `populateMounts_`, `sendMessage_`, a handler per event |
| `MessageRouter` (`app/message_router.js`, `getRetryingPromise` in `app/utils.js`) | `messages`: resolver and `processDataFn` by message id; `isInitialized` | `initialize`, `sendMessageWithRetry`, `sendMessage`, `handleMessage` |
| `MetadataCache` (`app/metadata_cache.js`) | by directory: `timeCached`, `entries` (some with a `stat_resolver`), `incomplete_entries` | `cacheDirectoryContents`, `lookupMetadata`, `getBatchToUpdate`, `updateMetadata`, `invalidateEntry` |
| `CredStore` (`app/cred_store.js`) | `creds`, and a copy in `chrome.storage.local` | `load`, `save`, `add`, `clear`, `exists`, `get` |
| NaCl loop (`nacl/nacl_fsp.cc`, `BaseNaclFsp.cc`) | none | takes one message at a time; one reply, or a stream with `hasMore` |
| `SambaFsp` (`nacl/SambaFsp.cc`) | `mounts`, `openFiles`, static `Credentials` by host and share | an operation per message, of which `deleteEntry` and `readDirectory` make many calls; `auth_fn`, which libsmbclient calls back |
| name lookup (`app/nbt.js`, `lmhosts.js`, `ip_cache.js`, `net.js`, `ip.js`, `stream.js`, `joinAllIgnoringRejects` in `app/utils.js`) | `lmHosts` and `ipCache`, a UDP socket, a listener and a timer per query | `getAllShareRoots`, `getFileSharesOnInterface`, `resolveFileShareHostName` |
| popup (`app/popup.js`) | the drop-down list of found shares | scans when it opens, resolves a host before it sends a mount |
| windows, logging, options, addresses of shares, build | nothing the others read | |

**How they interact.**  The page is single-threaded: a task runs to its end, the
callbacks of the promises it settled run next, then the next task.  The module is
another process with a blocking loop of its own.  `postMessage` is a FIFO in each
direction.  Chrome keeps the list of mounted file systems and `chrome.storage`;
both outlive the page.  No promise in the request path has a timeout.

**What is hard.**

* Between a task and the callbacks of the calls it makes anything else may
  happen: another request, a listing that rewrites the cache, an unmount, the end
  of the page.
* A message that fails with `SHOULD_RETRY` is sent again under its own id, behind
  what was sent meanwhile; the operation may have been carried out before.
* A stream can fail half-way.
* A mount is known in four places (page, module, Chrome, storage) that change
  one after the other, each step of which may fail.
* Requests wait on promises other requests or batches own.
* The module believes an offset of a descriptor that only libsmbclient knows, and
  a length that was read when the file was opened.
* A listing is cut twice, into batches of two sizes by the module and into slices
  by the page; two `hasMore` flags say where it ends.
* A recursive deletion is many calls, any of which can fail with part of the tree
  gone; the router then sends it again, and another client may be at work.
* Answers to a name query arrive at any time and reach every listener there ever
  was; only timers end a lookup, and a socket may be created after its own.

**What makes each part correct.**

* Request path: each request is answered exactly once; nothing is lost, repeated
  or handed over after the answer; a listing has no gap; the internal error stays
  internal; retries are bounded.
* Metadata cache: its maps agree; a cached entry is what the server has; each
  request for metadata is answered, also when it waits on another's batch.
* Open files: data is read from and written to the offset the request names, and
  a read gives all there is of it.
* Directories: a listing is handed over whole and in order; a deletion removes its
  target, what is below it if that was asked, and nothing else, and what it
  answers is so.
* Name lookup: what was heard during a scan is what it finds and what is cached;
  sockets are closed; the user waits for neither mount nor list for ever.
* Mounts: what the user asked to be remembered stays mounted and remembered; what
  the Files app shows can be used; storage and page agree; requests wait for
  their mount and each is answered.

## The modules

| Module | What it models | Checked with | Proved in |
| --- | --- | --- | --- |
| `RequestStream` | the promise to the Files app, abstractly | as `KeepsPromise` of `MessageRouter` | `MessageRouterProofs`, which implements it |
| `MessageRouter` | `sendMessage_` (ids), the router, retries, microtasks, both queues, the NaCl loop and its streams | `MessageRouter*.cfg` | `MessageRouterProofs` |
| `MetadataCache` (`MCMetadataCache`) | one directory's cache, the handlers of metadata, listings and operations, the module and the server behind them | `MetadataCache*.cfg` | `MetadataCacheProofs` |
| `MetadataCacheWaiters` | `MetadataCache` with a history of the requests whose `stat_resolver` was discarded | `MetadataCacheLive.cfg` | |
| `OpenFiles` | `openFile`, `readFile`, `writeFile`, `closeFile`, `truncate` | `OpenFiles*.cfg` | `OpenFilesProofs` |
| `DirectoryStream` | the batches and slices of `readDirectory` and their way to the Files app | as part of `DirectoryTree`, which implements it | `DirectoryStreamProofs` |
| `DirectoryTree` (`MCDirectoryTree`) | `deleteEntry` call by call, `createDirectory`, `readDirectory`, another client, and the caches of the directories; EXTENDS `DirectoryStream` | `DirectoryTree.cfg` | `DirectoryTreeProofs` |
| `NameResolution` (`MCNameResolution`) | the scans of the network, `lmHosts`, `ipCache`, the resolution of a host and the drop-down list | `NameResolution.cfg` | `NameResolutionProofs` |
| `MountLifecycle` (`MCMountLifecycle`) | start, `populateMounts_`, `mount_`, `remountShare_`, `unmount`, requests that wait for a mount, restart; the credentials in page, storage and module | `MountLifecycle*.cfg` | `MountLifecycleProofs` |
| `Queues` | nothing of the system: lemmas on FIFO queues that the proofs share | | |

The modules split the system where the code does: `MessageRouter` takes what a
request asks as data and shows what the path does to any request; the others take
the path as a FIFO with retries (`MetadataCache`) or without (`MountLifecycle`)
and show what is done with requests.  `OpenFiles` is inside the module, where one
message is served at a time.  `DirectoryTree` is composed with `DirectoryStream`:
each of its steps on a request is a step of the stream together with what it does
to the tree and the caches, and a call to libsmbclient is a step of its own between
them.  `NameResolution` is before any mount exists: its answer is the address with
which the popup sends the mount that `MountLifecycle` begins with.

A definition whose name ends in the description of a slip and whose comment
begins with "Mutant" is a wrong form of the definition below it.  No behaviour of
the model uses it: it is what the property named with it in `PROJECT.json` is
tried against, to show that the property would notice.

### MessageRouter

`messages` is the router's table; `initWaiters` are the sends that wait for
`initializeResolver`; `microtasks` the promise callbacks that are ready, which run
before any task (`microtasks = <<>>` in every task); `toNacl` and `toJs` the
posted messages; `nacl` the message `HandleMessage` is in and the batches it has
sent; `attempts` the counter of each `getRetryingPromise`; `outcome` what the
caller's promise became; `delivered` what `processDataFn` handed over.
`Ask`, `Refuse` and `Route` are `sendMessage_` up to the router (`parked` is the
wait for the mount, which is `MountLifecycle`'s subject); `Initialize`,
`HandleMessage`, `PostMessage`, `Resolve` and `RetryFn` are the functions of those
names; `NaclReceive`, `NaclSend` and `NaclFail` are the module.  The contents of
requests are abstracted to plain or streamed, with a number of batches.

### MetadataCache

`cached`, `entries` and `incomplete` are the directory's cache; a `stat_resolver`
is named by the request whose batch put it there.  A file is its version, renewed
by every change, so that stale metadata can be told from fresh.  Each handler is
an action; each reply is an action with the callbacks it makes ready.  Requests
for fields the cache can give without `stat()` are `needsStat = FALSE`; those
that need no entry at all (empty, thumbnail only, the root) change nothing and
are left out.  Time is abstracted: `CacheExpired` may happen at any lookup.
`raced` records the operations that outrun the invalidation they make.
`MetadataCacheWaiters` adds `abandoned`, the requests whose `stat_resolver` went
with its entry when that expired, was invalidated or was overwritten by a listing;
a reply that replaces the entry is not among these, since it has to fire the
resolver.

### OpenFiles

`offset` is `OpenFileInfo::offset` (-1 is `Unsure`), `position` the descriptor's.
`mode` and `lengthAtOpen` are the other fields.  A negative remaining length, the
cast of a large length and the cast of a large seek target are undefined in C++
and are a choice of every outcome.  `reach`, `retreated`, `shortened`,
`misplaced`, `resized` and `curtailed` are history for the properties: `resized`
are the opens during which a truncation or a write changed the length of the file,
`curtailed` those with a read that gave less than was asked for and the file had.

### DirectoryStream

`busy` is the request NaCl serves and `start` the `startIndex` of the loop of
`statAndStreamEntryMetadata`; `AnswerAtOnce`, `StreamFirst` and `StreamNext` are
the two ways of `readDirectory` to answer.  Entries are counted: a reply and a call
of `successFn` are the entries after the first `from` up to the first `upto`.
`Slices` is the cutting in `processDataFn` of `readDirectoryHandler`, the empty
last part included.  `HandleReply` and `HandleError` are `handleMessage` of the
router with the promise callbacks it makes ready, which `MessageRouter` models one
by one.  `NextOfStream` and `StreamSpec` are the stream alone, with listings of any
length; `DirectoryTree` gives each listing the length of what it found.

### DirectoryTree

`exists` is what the server has; `task` what a request asks; `calls` the calls of
libsmbclient that the operation being served has yet to make.  Reading a directory
that is to be emptied puts the calls for its entries, and its own `rmdir`, before
those that were left: this is the call stack of `deleteDirectoryContentsRecursive`
laid out flat.  `MakeCall`, `CallFails` and `LoseCall` are the outcomes of a call:
carried out, impossible, or without an answer, in which case it may have been
carried out.  `OtherClient` adds or removes a path in any state.  `gathered` and
`cached` are what `readDirectoryHandler` gathers and what `cacheDirectoryContents`
and `invalidateEntry` leave of it.  `touched` and `raced` are history.

### NameResolution

Scan 0 fills the drop-down list, scan *r* is made for the *r*-th mount.  `timers`
are pending timers in the order set, which is the order they fire in, as all have
one length; `listening` are the registered listeners, none of which is ever
removed; `nameLookup` is the table each listener writes to, also after its promise
has resolved with it; `remaining` and `results` are those of
`joinAllIgnoringRejects`.  `InterfacesListed` is the whole task that starts the
lookups, `TimerFires` the timer with the join, the merge and the update of
`ipCache` it can lead to.  `SocketCreated` may come before or after the timer, or
never.  `Receive` is an answer from the network: from any address, repeated or
late.  Names are in upper case, as `IPCache` and the packet reader make them.

### MountLifecycle

`mounts` gives the state of each entry's `mountPromise`; `phase` that of
`populateResolver`; `creds` and `stored` are the page's and the saved
credentials, a share having some or none; `registered` is Chrome's list;
`naclMounts` and `naclCreds` are the module's maps.  `fspCalls` and `saves` are
calls under way, answered in order; every call has a branch that fails
(`Faults`); `ListFails` is the one of `getAll`, whose callback then throws.
`Restart` may happen in any state: it keeps `registered` and `stored`
only.  `everMounted` and `refused` are history: the shares the module has mounted
in this session, and those that Chrome would not unmount and that were not mounted
since.  What `getRetryingPromise` repeats is one try here.

## What is checked

| Run | Shows | Bounds |
| --- | --- | --- |
| `router` | `TypeOK`, `InOnePlace`, `NoDuplicateSend`, `NoOrphanReply`, `AttemptsAddUp`, that the path implements `RequestStream` (`KeepsPromise`), `EveryRequestSettles`, and that each error of the module has the effect it should, with no attempt given up (`ErrorsDecide`) | 2 requests, the code's 3 attempts, streams of up to 2 batches |
| `router_reread` | *violated*: `ReadWithinFile` | 1 request |
| `cache_ops` | `FreshUnlessRaced`, `CacheConsistent`, `ResolverHasOwner`, `NoRequestDropped`, `ResolversFire` | 3 names, batches of 2, 3 requests, all operations, failures, retries, expiry |
| `cache_live` | `AskersAnswered`, `WaitersAnswered` | 2 names, 4 requests with deletions, batches that fail, expiry |
| `cache_hang` | *violated*: `EveryRequestAnswered` | 1 name, 4 requests |
| `cache_stale` | *violated*: `DeletedNotCached` | 1 name, 3 requests |
| `files_offsets` | `ForwardAccessIsExact`, `ReadsAreWhole` | 1 open file, offsets to 3, lengths to 4, chunks of 2, `MaxInt` of 2 |
| `files_seek` | *violated*: `SkippedSeeksAreRedundant` | the same |
| `mounts_safety` | `RememberedSurvives`, `StorageInStep`, `ShownIsServed`, `RequestsReachMounted`, `MountedHasCredentials` | 2 shares with one native key, 3 mounts and unmounts, 1 request, 1 restart, every fault |
| `mounts_live` | `EveryRequestAnswered` | 2 requests, 1 mount or unmount, 1 restart, every fault |
| `directories` | `ListingExact`, `WalkComplete`, `AnswersTrue`, `RemovesOnlyBelow`, `GhostsExplained`, `EveryRequestAnswered` | 2 requests, 3 directories and 3 files in three levels, 2 attempts, batches of 1 then 2, slices of 2, 1 change by another client |
| `names` | `ScanSeesAll`, `ResolutionsTrue`, `SocketsClosed`, `ShownCanBeMounted`, `EverythingSettles` | 2 interfaces with four addresses, 3 hosts (in `lmHosts`, not in it, an address), 2 addresses, 1 mount, 2 answers |

Every passing run but `cache_live` and `mounts_live` also checks the type
invariants of its modules.

**Why the bounds are enough.**  Requests interact in pairs: through the queues,
through a shared resolver, through a shared mount; two requests (three or four in
the cache, where a listing and an operation join) reach each such pair.  Two
batches give a first, a last and a middle to fail in.  Batches of two among three
names leave one name out, the case where `getBatchToUpdate` does not take the
requested name.  One open file is enough because opens share only the file's
length, which `Truncate` sets to any value at any time.  Offsets to 3 with chunks
of 2 and a `MaxInt` of 2 have a whole chunk, a rest, and a target no `int`
holds.  The tree has a directory of three entries, which is a batch of one and one
of two when it is streamed, and two slices when it is not; and a deletion two
levels above a file.  Two requests there give a deletion with a second one, a
listing, or a creation of what it deletes.  Two answers reach two lookups of
one scan, or the lookups of two scans, in either order, from one host or two.
`MaxMounts`, `MaxRequests`, `MaxRestarts`, `MaxOffset`,
`MaxLength`, `MaxBelief`, `MaxForeign`, `MaxResolutions` and `MaxAnswers` are
bounds on the environment and stand in the guards (`Requests` is one in
`DirectoryStream`); the proofs hold for every value of those in their modules.
Deadlock is not checked where the system stops when nobody asks for anything more;
`OpenFiles` never stops.

**What the violated properties show.**

* `ReadWithinFile`: a read that loses its connection after a chunk is retried
  from the start with the same callback; the Files app is given the chunk twice.
* `EveryRequestAnswered` (cache): a listing that arrives while a request waits on
  a `stat_resolver` discards the resolver; the request is never answered.  Nothing
  has to fail.  `WaitersAnswered` says what does hold.
* `DeletedNotCached`: handlers invalidate before they send, so metadata under way
  is cached after the invalidation and outlives the file.  `FreshUnlessRaced` says
  what does hold.
* `SkippedSeeksAreRedundant`: after a seek `OpenFileInfo::offset` is not set to
  its target, so after going back in a file a needed seek is skipped.
  `ForwardAccessIsExact` says what does hold.

**What the properties had to allow.**  A property names each exception the code
makes to what one would expect, so these are results too:

* `LoadFails` and `ListFails` of `MountLifecycle` leave every file request waiting
  for ever (`phase = "stuck"` in `EveryRequestAnswered`): `credentials.load` failing
  rejects nothing, and the callback of `getAll` throws without a list.
* `RequestsReachMounted`: `unmount` leaves the entry's resolved `mountPromise` in
  `mounts`.  Until Chrome has answered `fsp.unmount`, and ever after when it refused
  (`refused`), requests go to a share the module no longer has and find an empty
  share root.
* `WaitersAnswered`: a request that waits on a `stat_resolver` is never answered
  when the batch fails or the resolver is discarded (`abandoned`).
* `FreshUnlessRaced`: names in `raced`, whose metadata an operation overlapped or
  for which the operation invalidates nothing, may be stale in the cache.
* `ForwardAccessIsExact` is about files in which no access went back (`retreated`),
  since a seek does not set the remembered offset, and no write was cut short
  (`shortened`), since it is counted as whole.
* `ShownIsServed`, `RememberedSurvives` and `StorageInStep` except what the user does
  before `populateMounts_` is done (`early`); the first also shares on which a call
  has failed (`excused`).  A share counts as remembered once its credentials are
  saved: a stop before that loses it.
* `MountedHasCredentials`: a refused mount takes the credentials of every share with
  its key (`failedKeys`).
* `ReadsAreWhole` excepts files that were resized since they were opened (`resized`), since
  the remaining length is taken from the length at open, and files longer than an
  `int`.
* `GhostsExplained`: after a recursive deletion the caches of the directories below
  the target still have their entries, since `deleteEntryHandler` invalidates one
  entry only.
* `SocketsClosed`: a socket created after its timer has fired (`late`) is never
  closed.
* `EverythingSettles`: when Chrome cannot list the interfaces the callback throws,
  and popup and mount wait for ever (`scan = "stuck"`).
* `AnswersTrue` excepts what another client changes between the last call and the
  answer; and a deletion that another client overtakes below its target answers
  `NOT_FOUND` although the target is there.

**Fairness.**  All of it is weak, and only of loops: the page's event loop runs
tasks and callbacks that are ready, the module's loop serves its queue, timers
fire, and Chrome answers the calls made to it.  That is what the platform's loops
do.  Nothing makes the user, the Files app, another client, a restart or the
network act: no socket is ever created of necessity, and no answer to a name query
has to come.  No failure or success is forced, and libsmbclient is taken to return
from every call, as nothing in the code limits its time.

## What is proved

Every safety invariant and every action property of a passing run is stated by a
theorem, and so is that the detailed request path implements the abstract one.
The theorems hold for every value of the constants, from the named assumptions in
the modules: at least one attempt, one entry in a batch and in a slice; a finite
set of shares in Chrome's list (`SharesAssumption`); paths that are finitely many
and form a tree, the way up from each ending at the root (`TreeAssumption`);
Chrome's list of network interfaces is a sequence, and names that are addresses
are addresses (`NetworkAssumption`).  Bounds on the environment may be any number.

Few of the properties are inductive.  What each proof adds is what one would have
to know about the code to believe it:

* `MessageRouterProofs`.
  * `TypeCorrect`, `RequestsInOnePlace`, `NoDuplicate`, `RepliesAwaited`: the
    invariant `IInv` says that an id is in the table exactly while it awaits the
    module, is about to be sent, is posted, is served or is answered; that ids not
    yet given out are nowhere; and that replies of an id that are not its last come
    before everything else of it.  A retry then finds its id gone from the table,
    because a request whose callback is ready is nowhere else.
  * `BatchesInStep`: the batches of a request on their way rise, continue what the
    Files app was handed without a gap, and end at the module's counter
    (`InSequence`); a listing that fails has sent none (`FailsAlone`); a request has
    been handed its last batch exactly when it has succeeded, and each attempt hands
    over the first batch once (`Told`).  From it `AttemptsCounted`, and
    `StreamImplemented`: under the mapping of `KeepsPromise` each step of the path
    is a step of `RequestStream` or leaves the promise as it is.
* `MetadataCacheProofs`.
  * `TypeCorrect`, `CacheIsConsistent`: a reply that is not a listing carries no
    unknown size; with one `updateMetadata` would leave an entry nobody can ask for.
  * `RequestsNotDropped`: a request has one message or one reply, never two
    (`OneMessageEach`), and one that waits on a resolver has none (`Carrying`).
  * `ResolversHaveOwners`: a good answer to a batch tells of each of its names
    (`BatchesTell`), so a resolver outlives its batch only when that fails.
    `ResolversDoFire` follows the same way.
  * `CacheIsFresh`: of a name that was not raced, an operation that has still to be
    carried out was sent before everything that will tell of the name, no reply that
    tells of it is on its way, and the cache has no entry of it (`InOrder`); replies
    and cache then agree with the server.
* `OpenFilesProofs`: `TypeCorrect`, `ForwardIsExact`, `ReadsWhole`.  As long as a
  file has been accessed forward only and no write was cut short, the remembered
  offset is unsure, or where the descriptor is, or no later access can begin at it,
  since it lies before where the last one ended.  An open file that was not resized
  has the length it had when it was opened (`LengthKnown`).
* `DirectoryStreamProofs`: `ListingsExact`, for every size of listings, batches and
  slices.  `SlicesExact` shows that the slices of one batch are a chain of parts
  without a gap, none too large, from the arithmetic of `CutPoints`; `SlicesJoin`
  that they continue what was handed over before.  `IInv` reads the replies on
  their way from the oldest on: a batch that is not the last is followed by the next
  of its listing (`Links`) or NaCl streams on behind it (`Streaming`); the first of a
  listing starts where what was handed over ends (`Starts`); nothing comes after the
  last (`Order`); and what is waiting to be served has handed over nothing
  (`Queued`, `Serving`), which is why a retry repeats nothing.
* `DirectoryTreeProofs`.
  * `ImplementsStream`: each step of the tree is a step of the stream or leaves its
    variables alone, so `ListingsExact` and the types hold of the tree too
    (`ListingsOfTreeExact`, `TypeOfStream`).
  * `TreeTypeCorrect`: a listing gathers entries of its own directory only.
  * `WalkIsComplete`, `RemovesNothingElse`: the calls of a deletion stay within
    its reach (`CallsServed`).  Both need what `Ancestors` means in a tree of any
    depth: the recursion of the function has a solution, the least set that holds a
    path and the directory of each of its members (`AncestorsUnfold`), no path is
    below itself (`NoCycle`), and what is below one entry of a directory is not below
    another (`SiblingsApart`).
  * `AnswersAreTrue`: no path has two calls and nothing below a directory still to be
    emptied has one (`CallsApart`), so what a deletion has found is there until its
    own call (`StillThere`); the last call is about the target (`TargetLast`).
  * `GhostsHaveReasons`: unless there is one of the reasons, a path about to be
    deleted is neither cached nor being listed, and one that is gone is not in the
    cache, nor in anything a listing has gathered or will gather (`Forgotten`).
* `NameResolutionProofs`.
  * `TypeCorrect`: a scan counts exactly its lookups whose timers are to fire, each
    of which has one timer (`TimersCounted`).  The list of interfaces is the
    increasing sequence of the chosen entries; that there is one is proved from the
    least number of entries for which there would be none.
  * `OpenSocketsHaveTimers`: a socket is opened before its timer has fired, or late.
  * `ScansSeeAll`: all listeners of a scan are registered together and hear the same
    (`ListenersAgree`), so it does not matter which lookup ends last.
  * `MountsToldTrue`, `ListCanBeMounted`: `ipCache` has only what some scan that
    ended heard last (`CacheHeard`), and the list is made of what scan 0 heard, all of
    which is cached by then (`ListHeard`).
* `MountLifecycleProofs`.
  * `TypeCorrect`; `CredentialsStay`.
  * `RequestsFindMounts`: wherever the page takes a share for mounted (its table,
    what a request waits for, replies, the calls that end a mount), the module has
    mounted it in this session (`MountsWereMade`); and a share that was, and that
    Chrome lists, is mounted still, has an unmount on its way to the page or to Chrome,
    or is one that Chrome refused (`ListedBacked`).
  * `SavedCredentialsInStep`: nothing is saved before `populateMounts_` is over, and
    the last save under way has the credentials as they are (`LastSaveCurrent`).
  * `RememberedSharesSurvive`: every save under way has the credentials of what is
    remembered; a mount that is still to be saved is in Chrome's list, and in the
    credentials and every save behind it, unless an unmount of it comes later
    (`SavesKept`); and what the start unmounts has no credentials (`RememberedKept`).
    No list or unmount of the start is asked for twice (`StartOrder`).
  * `ShownSharesServed`: in each queue, whatever makes the page or Chrome take a
    share for mounted has the module's mount behind it, unless an unmount follows it
    in the queue (`Covered`, `MountsBacked`); by the entry in `mounts`, what serves a
    listed share is there or on its way (`ShownServed`).

What is left to TLC: the liveness properties `EveryRequestSettles`, `ErrorsDecide`,
`AskersAnswered`, `WaitersAnswered`, both `EveryRequestAnswered` and
`EverythingSettles`, since fairness and `ENABLED` are out of the prover's reach.
The four violated properties are TLC's by nature: a counterexample settles them.
No module declares a RECURSIVE operator.

## What is assumed and what is left out

* Chrome's request ids of opens are unique across mounts; the module keys
  `openFiles` by them.
* One file in `OpenFiles`, one directory in `MetadataCache`: the code keeps them
  apart, and nothing crosses.  Only this client changes the server in
  `MetadataCache`, since no cache notices another client in any case.
* One mount dialog at a time for a share; the Files app asks only of file systems
  it shows.
* `copyEntry` always fails, as in the source; the handler of
  `createDirectory` leaves the caches alone.
* In `DirectoryTree` the names are fixed and other clients change paths one at a
  time; expiry of cached directories is `MetadataCache`'s subject.
* In `NameResolution` packets and address arithmetic are abstracted to hosts and
  addresses; `lmHosts.save` has no caller.
* Not modelled, since they have no state or interleaving: the rewriting of share
  addresses (`url.js`), the forms of the popup and the managed shares, windows,
  logging, the copying of options, build scripts and vendored code.  Of `nbt.js`,
  `ip.js` and `stream.js` the bytes and the arithmetic are left out.
* Not covered by a property: the descriptor that `openFile` leaks when `smbc_fstat`
  fails (`SambaFsp.cc:451`), and the open files `unmount` leaves behind
  (`SambaFsp.cc:259`): a model in which the module keeps what is never asked for
  again would restate the code.

Seen while reading, outside the models: `ip.js:26-37` takes a host name of four
dotted parts for an address, so `nbt.js:73` does not look it up; `ip.js:72` shifts
by 32 for a prefix of 32, which JavaScript takes as 0; `Options.h:103-108` asks for
both size and modification time where its comment says either; the expression in
`regexEscape` (`utils.js:146`) matches a special character only in front of `]}`,
so names are not quoted.  `lmHosts.load` is not awaited, so a host that only
`lmHosts` has can be looked up before it is loaded (`LmHostsLoaded` may come after
`Resolve`).

## Plan

1. *Done.* `RequestStream`, `MessageRouter` and its proofs: everything goes
   through it.
2. *Done.* `MetadataCache` and its proofs; `OpenFiles` and its proofs.
3. *Done.* `MountLifecycle`, model-checked.
4. *Done.* `DirectoryStream` and `DirectoryTree`; `NameResolution`; `ReadsAreWhole`
   of `OpenFiles` with its proof.
5. *Done.* `DirectoryStreamProofs`, and that `DirectoryTree` implements the stream.
6. *Done.* Proofs of all of `MountLifecycle` and of `NameResolution`.
7. *Done.* Proofs of `ResolverHasOwner`, `NoRequestDropped`, `FreshUnlessRaced` and
   `ResolversFire` of `MetadataCache`, of `AttemptsAddUp` and the refinement of
   `RequestStream`.
8. *Done.* Proofs of the deletions, answers and caches of `DirectoryTree`.
9. Next: what the live runs show has a safety half that can be proved: that
   a request which is not answered always has a step of the page, the module or
   Chrome ahead of it, so that no state leaves it with nothing to wait for.  That is
   `RequestsNotDropped` for the cache and `RequestsInOnePlace` for the router;
   `MountLifecycle` and `NameResolution` have none yet.
10. The numbers behind the bounds: that a request makes no more than `AttemptCount`
   tries and a deletion no more calls than the tree has paths, for any tree.
