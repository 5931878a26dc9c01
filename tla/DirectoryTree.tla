--------------------------- MODULE DirectoryTree ---------------------------
(***************************************************************************)
(* Deleting, making and listing directories in a tree of them:             *)
(* SambaFsp::deleteEntry with deleteDirectoryContentsRecursive, which      *)
(* works call by call on a file server that another client changes too,    *)
(* createDirectory, readDirectory, whose entries DirectoryStream hands to  *)
(* the Files app, and what the page keeps of all this in the metadata      *)
(* cache of each directory.                                                *)
(*                                                                         *)
(* The names in the tree are fixed; a path is on the server or not.  Every *)
(* call to libsmbclient is a step.  A call may be lost, carried out or     *)
(* not: ETIMEDOUT and the errors like it are answered SHOULD_RETRY, others *)
(* FAILED.  Expiry of a cached directory and the metadata requests that    *)
(* use it are MetadataCache's.                                             *)
(***************************************************************************)
EXTENDS DirectoryStream, FiniteSets

CONSTANTS Root,       \* the root of the share
          Parent,     \* of every other path, the directory that holds it
          Dirs,       \* the paths that are directories; the others are files
          Faults,     \* the errors with which a call is lost
          MaxForeign  \* bound: changes made by another client

Inside == DOMAIN Parent
Paths == Inside \cup {Root}

ASSUME TreeAssumption ==
    /\ Root \in Dirs \ Inside
    /\ Parent \in [Inside -> Dirs]
    /\ IsFiniteSet(Inside)
    \* It is a tree: from every path the way up ends at the root.
    /\ \A S \in SUBSET Inside : S # {} => \E p \in S : Parent[p] \notin S
    /\ Dirs \subseteq Paths
    /\ Faults \subseteq {"SHOULD_RETRY", "FAILED"}
    /\ MaxForeign \in Nat

VARIABLES
    exists,     \* the paths on the server
    task,       \* what each request asks: of which path, and whether to delete below it
    calls,      \* the calls that the operation being served has yet to make
    found,      \* what the last reading of each listing found, in order
    gathered,   \* entries that readDirectoryHandler has gathered for the cache
    cached,     \* of each directory, the paths with an entry in the cache
    foreign,    \* changes made by another client so far
    touched,    \* history: the paths another client created or removed
    raced       \* history: paths whose deletion overlapped a listing of their directory

pageVars == <<gathered, cached>>
historyVars == <<foreign, touched, raced>>
treeVars == <<exists, task, calls, found, pageVars, historyVars>>
vars == <<streamVars, treeVars>>

Task(op, path, recursive) == [op |-> op, path |-> path, recursive |-> recursive]
NoTask == Task("none", Root, FALSE)
Call(call, path) == [call |-> call, path |-> path]

Init ==
    /\ StreamInit
    /\ exists = Paths
    /\ task = [r \in Requests |-> NoTask]
    /\ calls = <<>>
    /\ found = [r \in Requests |-> <<>>]
    /\ gathered = [r \in Requests |-> {}]
    /\ cached = [d \in Dirs |-> {}]
    /\ foreign = 0
    /\ touched = {}
    /\ raced = {}

Children(d) == {p \in Inside : Parent[p] = d}
Present(d) == Children(d) \cap exists

\* The paths at and above p.
Ancestors[p \in Paths] == {p} \cup IF p = Root THEN {} ELSE Ancestors[Parent[p]]
Below(d) == {p \in Paths : d \in Ancestors[p]}

\* The orders in which the server may list a set of paths.
Orders(S) == {s \in [1..Cardinality(S) -> S] : \A p \in S : \E i \in DOMAIN s : s[i] = p}

Deletion(r) == task[r].op = "deleteEntry"
Underway(r) == outcome[r] = "waiting"

-----------------------------------------------------------------------------
(* The handlers of the Files app's events.                                 *)

\* Mutant: deleteEntryHandler leaves the cache alone.
KeepEntry(p) == UNCHANGED cached

\* invalidateEntry.
InvalidateEntry(p) == cached' = [cached EXCEPT ![Parent[p]] = @ \ {p}]

\* Mutant: every directory is cached under the same key.
CacheUnderRoot(d, entries) == cached' = [cached EXCEPT ![Root] = entries]

\* cacheDirectoryContents: whatever was cached of the directory is overwritten.
CacheDirectoryContents(d, entries) == cached' = [cached EXCEPT ![d] = entries]

DeleteEntry(r, p, recursive) ==
    /\ InvalidateEntry(p)
    /\ Post(r, "other", FALSE)
    /\ task' = [task EXCEPT ![r] = Task("deleteEntry", p, recursive)]
    /\ raced' = IF \E l \in Requests : /\ kind[l] = "listing" /\ Underway(l)
                                       /\ task[l].path = Parent[p]
                  THEN raced \cup {p} ELSE raced
    /\ UNCHANGED <<exists, calls, found, gathered, foreign, touched>>

CreateDirectory(r, d) ==
    /\ Post(r, "other", FALSE)
    /\ task' = [task EXCEPT ![r] = Task("createDirectory", d, FALSE)]
    /\ UNCHANGED <<exists, calls, found, pageVars, historyVars>>

ReadDirectory(r, d, stat) ==
    /\ Post(r, "listing", stat)
    /\ task' = [task EXCEPT ![r] = Task("readDirectory", d, FALSE)]
    /\ raced' = raced \cup {p \in Children(d) :
                    \E l \in Requests : Deletion(l) /\ Underway(l) /\ task[l].path = p}
    /\ UNCHANGED <<exists, calls, found, pageVars, foreign, touched>>

\* processDataFn gathers the entries, and the end of a listing caches them.
TakeReply ==
    /\ HandleReply
    /\ LET m == Head(toJs)
       IN IF kind[m.id] = "listing"
            THEN /\ gathered' = [gathered EXCEPT ![m.id] = @ \cup
                        {found[m.id][i] : i \in m.part.from + 1 .. m.part.upto}]
                 /\ IF m.part.hasMore THEN UNCHANGED cached
                      ELSE CacheDirectoryContents(task[m.id].path, gathered'[m.id])
            ELSE UNCHANGED pageVars
    /\ UNCHANGED <<exists, task, calls, found, historyVars>>

TakeError == HandleError /\ UNCHANGED treeVars

-----------------------------------------------------------------------------
(* The native module.                                                      *)

TakeMessage ==
    /\ Take
    /\ calls' = CASE Deletion(busy') -> <<Call("stat", task[busy'].path)>>
                  [] task[busy'].op = "createDirectory" -> <<Call("mkdir", task[busy'].path)>>
                  [] OTHER -> <<>>
    /\ UNCHANGED <<exists, task, found, pageVars, historyVars>>

\* readDirectory reads all entries, and answers or starts to stream.
ReadEntries ==
    /\ busy # Nobody
    /\ kind[busy] = "listing" /\ start = 0
    /\ task[busy].path \in exists
    /\ \E s \in Orders(Present(task[busy].path)) :
          /\ found' = [found EXCEPT ![busy] = s]
          /\ AnswerAtOnce(Len(s)) \/ StreamFirst(Len(s))
    /\ UNCHANGED <<exists, task, calls, pageVars, historyVars>>

StreamEntries == StreamNext /\ UNCHANGED treeVars

\* The directory to list is not there, or reading it fails.
ReadFails ==
    /\ busy # Nobody
    /\ kind[busy] = "listing" /\ start = 0
    /\ \/ task[busy].path \notin exists /\ Fail("NOT_FOUND")
       \/ \E error \in Faults : Fail(error)
    /\ UNCHANGED treeVars

\* Mutant: the contents are deleted whether or not that was asked.
AlwaysRecursive(r, p) ==
    IF p \notin Dirs THEN Call("unlink", p) ELSE Call("empty", p)

\* deleteEntry, once it knows what the path is: the contents of a directory are
\* deleted first when that was asked.
FirstCall(r, p) ==
    IF p \notin Dirs THEN Call("unlink", p)
    ELSE IF task[r].recursive THEN Call("empty", p)
    ELSE Call("rmdir", p)

\* Mutant: a directory among the contents is removed like an empty one.
ContentCallShallow(p) ==
    IF p \in Dirs THEN Call("rmdir", p) ELSE Call("unlink", p)

\* deleteDirectoryContentsRecursive: what it does about one of the entries.
ContentCall(p) ==
    IF p \in Dirs THEN Call("empty", p) ELSE Call("unlink", p)

\* What is on the server once a call that changes it has been carried out.
Changed(c) == CASE c.call = "mkdir" -> exists \cup {c.path}
                [] c.call \in {"unlink", "rmdir"} -> exists \ {c.path}
                [] OTHER -> exists

\* A call that succeeds, and the calls that it leads to.  "empty" is the reading
\* of a directory whose entries are then deleted one by one, and it after them.
Proceed(c) ==
    LET p == c.path
        rest == Tail(calls)
    IN CASE c.call = "stat" -> calls' = <<FirstCall(busy, p)>> /\ UNCHANGED exists
         [] c.call = "empty" ->
              /\ \E s \in Orders(Present(p)) :
                    calls' = [i \in 1..Len(s) |-> ContentCall(s[i])]
                                 \o <<Call("rmdir", p)>> \o rest
              /\ UNCHANGED exists
         [] OTHER -> calls' = rest /\ exists' = Changed(c)

\* The server can do what the call asks; rmdir fails unless the directory is
\* empty, mkdir if it is there.
Possible(c) ==
    IF c.call = "mkdir" THEN c.path \notin exists /\ Parent[c.path] \in exists
    ELSE c.path \in exists /\ (c.call = "rmdir" => Present(c.path) = {})

MakeCall ==
    /\ calls # <<>>
    /\ Possible(Head(calls))
    /\ Proceed(Head(calls))
    /\ UNCHANGED <<streamVars, task, found, pageVars, historyVars>>

\* The error of a call that the server cannot carry out.
ErrorOf(c) == IF c.path \in exists THEN "FAILED" ELSE "NOT_FOUND"

\* Mutant: the result of a call is not looked at.
CallPassedOver ==
    /\ calls # <<>>
    /\ ~Possible(Head(calls))
    /\ calls' = Tail(calls)
    /\ UNCHANGED <<streamVars, exists, task, found, pageVars, historyVars>>

\* The first call that fails ends the operation, with what was deleted gone.
CallFails ==
    /\ calls # <<>>
    /\ ~Possible(Head(calls))
    /\ Fail(ErrorOf(Head(calls)))
    /\ calls' = <<>>
    /\ UNCHANGED <<exists, task, found, pageVars, historyVars>>

\* The answer of a call is lost; the call may have been carried out.
LoseCall ==
    /\ calls # <<>>
    /\ \E error \in Faults : Fail(error)
    /\ \/ UNCHANGED exists
       \/ Possible(Head(calls)) /\ exists' = Changed(Head(calls))
    /\ calls' = <<>>
    /\ UNCHANGED <<task, found, pageVars, historyVars>>

\* deleteEntry or createDirectory has returned without an error.
Done ==
    /\ busy # Nobody
    /\ calls = <<>>
    /\ Succeed
    /\ UNCHANGED treeVars

-----------------------------------------------------------------------------
\* Another client removes a file or an empty directory, or makes one.
OtherClient(p) ==
    /\ foreign < MaxForeign
    /\ foreign' = foreign + 1
    /\ touched' = touched \cup {p}
    /\ IF p \in exists THEN (p \in Dirs => Present(p) = {}) /\ exists' = exists \ {p}
                       ELSE Parent[p] \in exists /\ exists' = exists \cup {p}
    /\ UNCHANGED <<streamVars, task, calls, found, pageVars, raced>>

-----------------------------------------------------------------------------
FilesApp ==
    \E r \in Requests :
        \/ \E p \in Inside, recursive \in BOOLEAN : DeleteEntry(r, p, recursive)
        \/ \E d \in Dirs \ {Root} : CreateDirectory(r, d)
        \/ \E d \in Dirs, stat \in BOOLEAN : ReadDirectory(r, d, stat)

Page == TakeReply \/ TakeError

Nacl == \/ TakeMessage
        \/ ReadEntries \/ StreamEntries \/ ReadFails
        \/ MakeCall \/ CallFails \/ LoseCall \/ Done

Next == FilesApp \/ Page \/ Nacl \/ \E p \in Inside : OtherClient(p)

Spec == Init /\ [][Next]_vars

\* The page's event loop and NaCl's loop go on; nothing forces the Files app to
\* ask, nor the other client to do anything.
FairSpec == Spec /\ WF_vars(Page) /\ WF_vars(Nacl)
-----------------------------------------------------------------------------
(* Properties.                                                             *)

TreeTypeOK ==
    /\ exists \subseteq Paths
    /\ task \in [Requests -> [op: {"none", "deleteEntry", "createDirectory", "readDirectory"},
                          path: Paths, recursive: BOOLEAN]]
    /\ calls \in Seq([call: {"stat", "empty", "unlink", "rmdir", "mkdir"}, path: Paths])
    /\ found \in [Requests -> Seq(Inside)]
    /\ gathered \in [Requests -> SUBSET Inside]
    /\ cached \in [Dirs -> SUBSET Inside]
    /\ \A d \in Dirs : cached[d] \subseteq Children(d)
    /\ foreign \in 0..MaxForeign
    /\ touched \subseteq Inside
    /\ raced \subseteq Inside

\* A recursive deletion works through all of the tree below its target: whatever
\* is in a directory that it will remove is dealt with before, unless another
\* client put it there.  So on its own it never fails because a directory is not
\* empty, in its first attempt or after one that stopped halfway.
WalkComplete ==
    \A i \in 1..Len(calls) :
        calls[i].call = "rmdir" /\ task[busy].recursive =>
            \A p \in Present(calls[i].path) :
                p \in touched \/ \E j \in 1 .. i - 1 : calls[j].path = p

\* NaCl answers the request it serves with what is the case: a deletion that
\* succeeded has removed its target, and one that says NOT_FOUND has found it
\* gone, a deletion that was tried twice included; a directory that was made is
\* there, and one whose making is answered NOT_FOUND is not.  Only another client
\* can undo what was done before it is answered, or remove an entry that a
\* deletion was about to delete.
AnswersTrue ==
    [][LET target == task[busy].path
           error == toJs'[Len(toJs')].error
       IN busy # Nobody /\ busy' = Nobody =>
            /\ Deletion(busy) /\ error = NoError => target \notin exists' \ touched
            /\ Deletion(busy) /\ error = "NOT_FOUND" =>
                  target \notin exists' \/ Below(target) \cap touched # {}
            /\ task[busy].op = "createDirectory" =>
                  /\ error = NoError => target \in exists' \cup touched
                  /\ error = "NOT_FOUND" => target \notin exists']_vars

\* No operation removes anything but the target of a deletion and, only when that
\* was asked, what is below it.
RemovesOnlyBelow ==
    [][busy # Nobody /\ calls' # calls =>
         exists \ exists' \subseteq (IF task[busy].recursive THEN Below(task[busy].path)
                                                             ELSE {task[busy].path})]_vars

\* The cache keeps an entry for a path that is gone only where no invalidation
\* could reach it: another client removed the path, its deletion overlapped a
\* listing of its directory, or it was deleted as part of a directory above it,
\* for which deleteEntryHandler invalidates nothing but the directory's own entry.
GhostsExplained ==
    \A p \in Inside :
        p \in cached[Parent[p]] /\ p \notin exists =>
            \/ p \in touched \cup raced
            \/ \E r \in Requests : /\ Deletion(r) /\ task[r].recursive
                                   /\ task[r].path # p
                                   /\ p \in Below(task[r].path)

\* Every request of the Files app is answered: a deletion ends however deep the
\* tree is, and the attempts run out.
EveryRequestAnswered ==
    \A r \in Requests : outcome[r] = "waiting" ~> outcome[r] \in {"ok"} \cup Errors
=============================================================================
