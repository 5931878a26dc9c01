------------------------- MODULE DirectoryTreeProofs -------------------------
(***************************************************************************)
(* Proofs about DirectoryTree for trees of any finite size and depth: it   *)
(* implements the stream that DirectoryStream describes, so what           *)
(* DirectoryStreamProofs proves of the stream holds of it; its deletions   *)
(* are complete and remove nothing else; its answers are true; and the     *)
(* caches forget what is gone.                                             *)
(***************************************************************************)
EXTENDS DirectoryTree, DirectoryStreamProofs, FiniteSetTheorems

LEMMA FiniteInside == IsFiniteSet(Inside)
  BY TreeAssumption

\* An order of what is in a directory is as long as the directory is large.
LEMMA OrderLength ==
    ASSUME NEW d, NEW s \in Orders(Present(d))
    PROVE  s \in Seq(Inside) /\ Len(s) \in Nat
  <1>1. Present(d) \subseteq Inside /\ IsFiniteSet(Present(d))
    BY FiniteInside, FS_Subset DEF Present, Children
  <1>2. Cardinality(Present(d)) \in Nat
    BY <1>1, FS_CardinalityType
  <1>3. s \in [1 .. Cardinality(Present(d)) -> Inside]
    BY <1>1 DEF Orders
  <1>. QED  BY <1>2, <1>3, FunctionIsSeq

-----------------------------------------------------------------------------
(* The tree.                                                               *)

\* A set of paths that holds the directory of each of its paths; the sets of this
\* kind that hold p have the paths at and above p in common, which is why the
\* recursion of Ancestors has a solution in a tree of any depth.
UpwardClosed(S) == \A x \in S : x \in Inside => Parent[x] \in S
AtAndAbove(p) == {q \in Paths : \A S \in SUBSET Paths : p \in S /\ UpwardClosed(S) => q \in S}

LEMMA ParentsArePaths == \A p \in Inside : Parent[p] \in Dirs /\ Parent[p] \in Paths /\ p \in Paths /\ p # Root
  BY TreeAssumption DEF Paths

LEMMA AtAndAboveUnfolds ==
    ASSUME NEW p \in Paths
    PROVE  AtAndAbove(p) = {p} \cup IF p = Root THEN {} ELSE AtAndAbove(Parent[p])
  <1>1. ASSUME NEW q \in Paths
        PROVE  /\ q \in AtAndAbove(q)
               /\ UpwardClosed(AtAndAbove(q))
    BY ParentsArePaths DEF AtAndAbove, UpwardClosed
  <1>2. CASE p = Root
    <2>1. UpwardClosed({Root}) /\ Root \in Paths
      BY TreeAssumption DEF UpwardClosed, Paths
    <2>2. AtAndAbove(Root) \subseteq {Root}
      BY <2>1 DEF AtAndAbove
    <2>. QED
      BY <1>1, <1>2, <2>2
  <1>3. CASE p # Root
    <2>1. p \in Inside /\ Parent[p] \in Paths
      BY <1>3, ParentsArePaths DEF Paths
    <2>. DEFINE T == {p} \cup AtAndAbove(Parent[p])
    <2>2. AtAndAbove(Parent[p]) \subseteq AtAndAbove(p)
      BY <2>1 DEF AtAndAbove, UpwardClosed
    <2>3. T \in SUBSET Paths /\ p \in T
      BY DEF AtAndAbove
    <2>4. UpwardClosed(T)
      BY <1>1, <2>1 DEF UpwardClosed
    <2>. HIDE DEF T
    <2>5. AtAndAbove(p) \subseteq T
      BY <2>3, <2>4 DEF AtAndAbove
    <2>. QED
      BY <1>1, <1>3, <2>2, <2>5 DEF T
  <1>. QED
    BY <1>2, <1>3

LEMMA AncestorsUnfold ==
    \A p \in Paths : Ancestors[p] = {p} \cup IF p = Root THEN {} ELSE Ancestors[Parent[p]]
  <1>. DEFINE unfold(f) == [p \in Paths |-> {p} \cup IF p = Root THEN {} ELSE f[Parent[p]]]
              above == [p \in Paths |-> AtAndAbove(p)]
  <1>1. above = unfold(above)
    <2>1. ASSUME NEW p \in Paths  PROVE above[p] = unfold(above)[p]
      <3>1. p # Root => Parent[p] \in Paths
        BY ParentsArePaths DEF Paths
      <3>. QED
        BY <3>1, AtAndAboveUnfolds
    <2>. QED
      BY <2>1
  <1>2. \E f : f = unfold(f)
    BY <1>1
  <1>3. Ancestors = unfold(Ancestors)
    BY <1>2 DEF Ancestors
  <1>4. \A p \in Paths : Ancestors[p] = unfold(Ancestors)[p]
    BY <1>3
  <1>. QED
    BY <1>4

LEMMA BelowGrows ==
    /\ \A p \in Paths : p \in Below(p)
    /\ \A p, q \in Paths : q \in Below(p) => Children(q) \subseteq Below(p)
  <1>1. \A p \in Paths : p \in Below(p)
    BY AncestorsUnfold DEF Below
  <1>2. ASSUME NEW p \in Paths, NEW q \in Paths, q \in Below(p), NEW c \in Children(q)
        PROVE  c \in Below(p)
    <2>1. c \in Paths /\ c # Root /\ Parent[c] = q
      BY ParentsArePaths DEF Children
    <2>. QED
      BY <1>2, <2>1, AncestorsUnfold DEF Below
  <1>. QED
    BY <1>1, <1>2

\* An order of what is in a directory has it all, and nothing else.
LEMMA OrderElements ==
    ASSUME NEW d, NEW s \in Orders(Present(d))
    PROVE  /\ s \in Seq(Inside) /\ Len(s) \in Nat /\ Elements(s) = Present(d)
           /\ \A i \in 1..Len(s) : s[i] \in Present(d) /\ s[i] \in Inside
  <1>1. s \in Seq(Inside) /\ Len(s) \in Nat
    BY OrderLength
  <1>2. s \in [1 .. Cardinality(Present(d)) -> Present(d)] /\ \A p \in Present(d) : \E i \in DOMAIN s : s[i] = p
    BY DEF Orders
  <1>3. DOMAIN s = 1..Len(s)
    BY <1>1
  <1>4. \A i \in 1..Len(s) : s[i] \in Present(d)
    BY <1>2, <1>3
  <1>. QED
    BY <1>1, <1>2, <1>3, <1>4 DEF Elements, Present, Children

-----------------------------------------------------------------------------
(* The stream.                                                             *)

LEMMA InitOfStream == Init => StreamInit
  BY DEF Init

\* Every step is one of the stream, or none of its business.
LEMMA StepOfStream == [Next]_vars => [NextOfStream]_streamVars
  <1>. SUFFICES ASSUME [Next]_vars PROVE NextOfStream \/ UNCHANGED streamVars
    OBVIOUS
  <1>1. ASSUME FilesApp PROVE NextOfStream
    <2>1. PICK r \in Requests :
             \/ \E p \in Inside, recursive \in BOOLEAN : DeleteEntry(r, p, recursive)
             \/ \E d \in Dirs \ {Root} : CreateDirectory(r, d)
             \/ \E d \in Dirs, stat \in BOOLEAN : ReadDirectory(r, d, stat)
      BY <1>1 DEF FilesApp
    <2>2. \E k \in {"listing", "other"}, stat \in BOOLEAN : Post(r, k, stat)
      BY <2>1 DEF DeleteEntry, CreateDirectory, ReadDirectory
    <2>. QED  BY <2>2 DEF NextOfStream
  <1>2. ASSUME Page PROVE NextOfStream
    BY <1>2 DEF Page, TakeReply, TakeError, NextOfStream
  <1>3. ASSUME ReadEntries PROVE NextOfStream
    <2>1. PICK s \in Orders(Present(task[busy].path)) :
             AnswerAtOnce(Len(s)) \/ StreamFirst(Len(s))
      BY <1>3 DEF ReadEntries
    <2>2. Len(s) \in Nat
      BY OrderLength
    <2>. QED  BY <2>1, <2>2 DEF NextOfStream
  <1>4. ASSUME ReadFails \/ CallFails \/ LoseCall PROVE NextOfStream
    <2>1. \E error \in NaclErrors : Fail(error)
      BY <1>4, TreeAssumption DEF ReadFails, CallFails, LoseCall, ErrorOf, NaclErrors
    <2>. QED  BY <2>1 DEF NextOfStream
  <1>5. ASSUME TakeMessage \/ StreamEntries \/ Done PROVE NextOfStream
    BY <1>5 DEF TakeMessage, StreamEntries, Done, NextOfStream
  <1>6. ASSUME MakeCall \/ \E p \in Inside : OtherClient(p) PROVE UNCHANGED streamVars
    BY <1>6 DEF MakeCall, OtherClient
  <1>7. CASE UNCHANGED vars
    BY <1>7 DEF vars
  <1>. QED  BY <1>1, <1>2, <1>3, <1>4, <1>5, <1>6, <1>7 DEF Next, Nacl

\* The tree with its file server, its caches and the other client implements the
\* stream: what a listing of it finds is one of the listings the stream allows.
THEOREM ImplementsStream == Spec => StreamSpec
  BY InitOfStream, StepOfStream, PTL DEF Spec, StreamSpec

\* The variables of the stream keep their types.
THEOREM TypeOfStream == Spec => []StreamTypeOK
  BY ImplementsStream, StreamTypeCorrect, PTL

\* Every listing of a tree of any size that any number of clients change reaches
\* the Files app whole, in order, and each entry once.
THEOREM ListingsOfTreeExact == Spec => []ListingExact
  BY ImplementsStream, ListingsExact, PTL

-----------------------------------------------------------------------------
(* The invariant of what is asked and found.                               *)

\* What a request asks is known when, and only when, it has been posted.
TasksAsked ==
    \A r \in Requests :
        /\ kind[r] = "unasked" <=> task[r].op = "none"
        /\ kind[r] = "listing" <=> task[r].op = "readDirectory"
        /\ task[r].op \in {"deleteEntry", "createDirectory"} => task[r].path \in Inside
        /\ task[r].recursive => Deletion(r)

\* A listing finds and gathers entries of its own directory only, and finds as
\* many as the stream was told.
FoundInside ==
    \A r \in Requests :
        /\ kind[r] = "unasked" => found[r] = <<>> /\ gathered[r] = {}
        /\ Len(found[r]) = size[r]
        /\ Elements(found[r]) \cup gathered[r] \subseteq Children(task[r].path)

Typed == TreeTypeOK /\ TasksAsked /\ FoundInside

Tasks == [op: {"none", "deleteEntry", "createDirectory", "readDirectory"},
          path: Paths, recursive: BOOLEAN]
CallsToServer == [call: {"stat", "empty", "unlink", "rmdir", "mkdir"}, path: Paths]

\* What the stream keeps of its own.
Streamed == IInv /\ RepliesWithin

LEMMA StreamKept == Spec => []Streamed
  BY ImplementsStream, Invariance, BatchesWithin, PTL DEF Streamed

LEMMA TaskFields ==
    ASSUME NEW op \in {"none", "deleteEntry", "createDirectory", "readDirectory"},
           NEW path \in Paths, NEW recursive \in BOOLEAN
    PROVE  /\ Task(op, path, recursive) \in Tasks
           /\ Task(op, path, recursive).op = op
           /\ Task(op, path, recursive).path = path
           /\ Task(op, path, recursive).recursive = recursive
  BY DEF Task, Tasks

LEMMA CallFields ==
    ASSUME NEW call \in {"stat", "empty", "unlink", "rmdir", "mkdir"}, NEW path \in Paths
    PROVE  /\ Call(call, path) \in CallsToServer
           /\ Call(call, path).call = call /\ Call(call, path).path = path
  BY DEF Call, CallsToServer

LEMMA OneCall ==
    ASSUME NEW S, NEW x \in S
    PROVE  <<x>> \in Seq(S) /\ Len(<<x>>) = 1 /\ <<x>>[1] = x
  OBVIOUS

LEMMA RootIsPath == Root \in Paths
  BY DEF Paths

LEMMA InitTyped == Init => Typed
  <1>. SUFFICES ASSUME Init  PROVE Typed
    OBVIOUS
  <1>1. NoTask \in Tasks /\ NoTask.op = "none" /\ NoTask.recursive = FALSE
    BY RootIsPath DEF NoTask, Task, Tasks
  <1>2. TreeTypeOK
    BY <1>1, TreeAssumption DEF Init, TreeTypeOK, Tasks
  <1>3. TasksAsked
    BY <1>1 DEF Init, StreamInit, TasksAsked, Deletion
  <1>4. FoundInside
    BY ElementsEmpty DEF Init, StreamInit, FoundInside
  <1>. QED
    BY <1>2, <1>3, <1>4 DEF Typed

\* A request is posted: it has been asked nothing before.
LEMMA AskTyped ==
    ASSUME Streamed, Typed, NEW r \in Requests, NEW k \in {"listing", "other"}, NEW stat \in BOOLEAN,
           Post(r, k, stat), NEW t \in Tasks, task' = [task EXCEPT ![r] = t],
           t.op # "none", k = "listing" <=> t.op = "readDirectory",
           t.op \in {"deleteEntry", "createDirectory"} => t.path \in Inside,
           t.recursive => t.op = "deleteEntry",
           UNCHANGED <<found, gathered>>
    PROVE  /\ task' \in [Requests -> Tasks] /\ TasksAsked' /\ FoundInside'
           /\ kind[r] = "unasked" /\ kind'[r] = k /\ task'[r] = t
           /\ \A q \in Requests \ {r} : kind'[q] = kind[q] /\ task'[q] = task[q]
  <1>1. task \in [Requests -> Tasks] /\ kind \in [Requests -> {"unasked", "listing", "other"}]
    BY DEF Typed, TreeTypeOK, Tasks, Streamed, IInv, StreamTypeOK
  <1>2. kind[r] = "unasked" /\ kind' = [kind EXCEPT ![r] = k] /\ size' = size
    BY DEF Post
  <1>3. /\ task' \in [Requests -> Tasks] /\ kind'[r] = k /\ task'[r] = t
        /\ \A q \in Requests \ {r} : kind'[q] = kind[q] /\ task'[q] = task[q]
    BY <1>1, <1>2
  <1>4. TasksAsked'
    <2>1. ASSUME NEW q \in Requests
          PROVE  /\ kind'[q] = "unasked" <=> task'[q].op = "none"
                 /\ kind'[q] = "listing" <=> task'[q].op = "readDirectory"
                 /\ task'[q].op \in {"deleteEntry", "createDirectory"} => task'[q].path \in Inside
                 /\ task'[q].recursive => task'[q].op = "deleteEntry"
      <3>1. CASE q = r
        BY <1>3, <3>1
      <3>2. CASE q # r
        BY <1>3, <3>2 DEF Typed, TasksAsked, Deletion
      <3>. QED
        BY <3>1, <3>2
    <2>. QED
      BY <2>1 DEF TasksAsked, Deletion
  <1>5. FoundInside'
    <2>1. ASSUME NEW q \in Requests
          PROVE  /\ kind'[q] = "unasked" => found[q] = <<>> /\ gathered[q] = {}
                 /\ Len(found[q]) = size[q]
                 /\ Elements(found[q]) \cup gathered[q] \subseteq Children(task'[q].path)
      <3>1. CASE q = r
        <4>1. found[r] = <<>> /\ gathered[r] = {} /\ Len(found[r]) = size[r]
          BY <1>2 DEF Typed, FoundInside
        <4>. QED
          BY <1>3, <3>1, <4>1, ElementsEmpty
      <3>2. CASE q # r
        BY <1>3, <3>2 DEF Typed, FoundInside
      <3>. QED
        BY <3>1, <3>2
    <2>. QED
      BY <1>2, <2>1 DEF FoundInside
  <1>. QED
    BY <1>2, <1>3, <1>4, <1>5

LEMMA DeleteEntryTyped ==
    ASSUME Streamed, Typed, NEW r \in Requests, NEW p \in Inside, NEW recursive \in BOOLEAN,
           DeleteEntry(r, p, recursive)
    PROVE  /\ Typed'
           /\ kind[r] = "unasked" /\ kind'[r] = "other"
           /\ task'[r] = Task("deleteEntry", p, recursive)
           /\ \A q \in Requests \ {r} : kind'[q] = kind[q] /\ task'[q] = task[q]
  <1>. DEFINE t == Task("deleteEntry", p, recursive)
  <1>1. t \in Tasks /\ t.op = "deleteEntry" /\ t.path = p /\ t.recursive = recursive
    BY TaskFields, ParentsArePaths
  <1>2. /\ Post(r, "other", FALSE) /\ task' = [task EXCEPT ![r] = t]
        /\ UNCHANGED <<exists, calls, found, gathered, foreign, touched>>
        /\ raced' \in {raced \cup {p}, raced}
        /\ cached' = [cached EXCEPT ![Parent[p]] = @ \ {p}]
    BY DEF DeleteEntry, InvalidateEntry
  <1>. HIDE DEF t
  <1>3. /\ task' \in [Requests -> Tasks] /\ TasksAsked' /\ FoundInside'
        /\ kind[r] = "unasked" /\ kind'[r] = "other" /\ task'[r] = t
        /\ \A q \in Requests \ {r} : kind'[q] = kind[q] /\ task'[q] = task[q]
    BY <1>1, <1>2, AskTyped
  <1>4. cached' \in [Dirs -> SUBSET Inside] /\ \A d \in Dirs : cached'[d] \subseteq Children(d)
    BY <1>2, ParentsArePaths DEF Typed, TreeTypeOK
  <1>5. TreeTypeOK'
    BY <1>2, <1>3, <1>4 DEF Typed, TreeTypeOK, Tasks
  <1>. QED
    BY <1>3, <1>5 DEF Typed, t

LEMMA CreateDirectoryTyped ==
    ASSUME Streamed, Typed, NEW r \in Requests, NEW d \in Dirs \ {Root}, CreateDirectory(r, d)
    PROVE  /\ Typed'
           /\ kind[r] = "unasked" /\ kind'[r] = "other"
           /\ task'[r] = Task("createDirectory", d, FALSE)
           /\ \A q \in Requests \ {r} : kind'[q] = kind[q] /\ task'[q] = task[q]
  <1>. DEFINE t == Task("createDirectory", d, FALSE)
  <1>0. d \in Inside /\ d \in Paths
    BY TreeAssumption DEF Paths
  <1>1. t \in Tasks /\ t.op = "createDirectory" /\ t.path = d /\ t.recursive = FALSE
    BY <1>0, TaskFields
  <1>2. /\ Post(r, "other", FALSE) /\ task' = [task EXCEPT ![r] = t]
        /\ UNCHANGED <<exists, calls, found, pageVars, historyVars>>
    BY DEF CreateDirectory
  <1>. HIDE DEF t
  <1>3. /\ task' \in [Requests -> Tasks] /\ TasksAsked' /\ FoundInside'
        /\ kind[r] = "unasked" /\ kind'[r] = "other" /\ task'[r] = t
        /\ \A q \in Requests \ {r} : kind'[q] = kind[q] /\ task'[q] = task[q]
    BY <1>0, <1>1, <1>2, AskTyped DEF pageVars
  <1>4. TreeTypeOK'
    BY <1>2, <1>3 DEF Typed, TreeTypeOK, Tasks, pageVars, historyVars
  <1>. QED
    BY <1>3, <1>4 DEF Typed, t

LEMMA ReadDirectoryTyped ==
    ASSUME Streamed, Typed, NEW r \in Requests, NEW d \in Dirs, NEW stat \in BOOLEAN,
           ReadDirectory(r, d, stat)
    PROVE  /\ Typed'
           /\ kind[r] = "unasked" /\ kind'[r] = "listing"
           /\ task'[r] = Task("readDirectory", d, FALSE)
           /\ \A q \in Requests \ {r} : kind'[q] = kind[q] /\ task'[q] = task[q]
  <1>. DEFINE t == Task("readDirectory", d, FALSE)
  <1>0. d \in Paths
    BY TreeAssumption
  <1>1. t \in Tasks /\ t.op = "readDirectory" /\ t.path = d /\ t.recursive = FALSE
    BY <1>0, TaskFields
  <1>2. /\ Post(r, "listing", stat) /\ task' = [task EXCEPT ![r] = t]
        /\ UNCHANGED <<exists, calls, found, pageVars, foreign, touched>>
        /\ raced' \subseteq raced \cup Children(d)
    BY DEF ReadDirectory
  <1>. HIDE DEF t
  <1>3. /\ task' \in [Requests -> Tasks] /\ TasksAsked' /\ FoundInside'
        /\ kind[r] = "unasked" /\ kind'[r] = "listing" /\ task'[r] = t
        /\ \A q \in Requests \ {r} : kind'[q] = kind[q] /\ task'[q] = task[q]
    BY <1>1, <1>2, AskTyped DEF pageVars
  <1>4. TreeTypeOK'
    BY <1>2, <1>3 DEF Typed, TreeTypeOK, Tasks, pageVars, Children
  <1>. QED
    BY <1>3, <1>4 DEF Typed, t

\* The page handles a reply: what it says was found and not yet gathered is added.
LEMMA TakeReplyTyped ==
    ASSUME Streamed, Typed, TakeReply
    PROVE  /\ Typed'
           /\ UNCHANGED <<kind, exists, task, calls, found, historyVars>>
           /\ Head(toJs).id \in Requests /\ Underway(Head(toJs).id)
           /\ \A r \in Requests : gathered'[r] \subseteq gathered[r] \cup Elements(found[r])
           /\ \/ cached' = cached
              \/ /\ kind[Head(toJs).id] = "listing"
                 /\ cached' = [cached EXCEPT ![task[Head(toJs).id].path] = gathered'[Head(toJs).id]]
  <1>. DEFINE m == Head(toJs)
              taken == {found[m.id][i] : i \in m.part.from + 1 .. m.part.upto}
  <1>1. /\ toJs # <<>> /\ m.error = NoError /\ kind' = kind /\ size' = size
        /\ UNCHANGED <<exists, task, calls, found, historyVars>>
    BY DEF TakeReply, HandleReply
  <1>2. \/ /\ kind[m.id] = "listing"
           /\ gathered' = [gathered EXCEPT ![m.id] = @ \cup taken]
           /\ cached' = cached \/ cached' = [cached EXCEPT ![task[m.id].path] = gathered'[m.id]]
        \/ UNCHANGED pageVars
    BY DEF TakeReply, CacheDirectoryContents
  <1>3. /\ m.id \in Requests /\ Underway(m.id) /\ m.part.from \in Nat /\ m.part.upto \in Nat
        /\ kind[m.id] = "listing" => m.part.upto <= size[m.id]
    <2>1. toJs \in Seq(Message) /\ m = toJs[1] /\ 1 \in 1..Len(toJs)
      BY <1>1 DEF Streamed, IInv, StreamTypeOK, Message
    <2>2. m \in Message /\ ReplyOk(m)
      BY <2>1 DEF Streamed, IInv, Replies
    <2>3. m.id \in Requests /\ m.part.from \in Nat /\ m.part.upto \in Nat
      BY <2>2 DEF Message, Parts
    <2>4. kind[m.id] = "listing" => m.part.upto <= size[m.id]
      <3>. HIDE DEF m
      <3>. QED
        BY <1>1, <2>1 DEF Streamed, RepliesWithin
    <2>. QED
      BY <2>2, <2>3, <2>4 DEF ReplyOk, Waiting, Underway
  <1>. HIDE DEF m
  <1>4. /\ gathered \in [Requests -> SUBSET Inside] /\ cached \in [Dirs -> SUBSET Inside]
        /\ found \in [Requests -> Seq(Inside)]
    BY DEF Typed, TreeTypeOK
  <1>5. kind[m.id] = "listing" => taken \subseteq Elements(found[m.id])
    <2>. SUFFICES ASSUME kind[m.id] = "listing", NEW i \in m.part.from + 1 .. m.part.upto
                  PROVE  i \in 1..Len(found[m.id])
      BY DEF Elements
    <2>1. Len(found[m.id]) = size[m.id] /\ Len(found[m.id]) \in Nat
      BY <1>3, <1>4 DEF Typed, FoundInside
    <2>. QED
      BY <1>3, <2>1
  <1>. HIDE DEF taken
  <1>6. \A r \in Requests : gathered'[r] \subseteq gathered[r] \cup Elements(found[r])
    BY <1>2, <1>4, <1>5 DEF pageVars
  <1>7. \A r \in Requests : /\ Elements(found[r]) \cup gathered'[r] \subseteq Children(task[r].path)
                            /\ kind[r] = "unasked" => gathered'[r] = {}
    <2>1. ASSUME NEW r \in Requests
          PROVE  Elements(found[r]) \cup gathered'[r] \subseteq Children(task[r].path)
      BY <1>6 DEF Typed, FoundInside
    <2>2. ASSUME NEW r \in Requests, kind[r] = "unasked"
          PROVE  gathered'[r] = {}
      BY <1>6, <2>2, ElementsEmpty DEF Typed, FoundInside
    <2>. QED
      BY <2>1, <2>2
  <1>8. gathered' \in [Requests -> SUBSET Inside]
    <2>1. \A r \in Requests : gathered'[r] \subseteq Inside
      BY <1>7 DEF Children
    <2>2. gathered' = [r \in Requests |-> gathered'[r]]
      BY <1>2, <1>4 DEF pageVars
    <2>. QED
      BY <2>1, <2>2
  <1>9. cached' \in [Dirs -> SUBSET Inside] /\ \A d \in Dirs : cached'[d] \subseteq Children(d)
    <2>1. CASE cached' = cached
      BY <2>1 DEF Typed, TreeTypeOK
    <2>2. CASE cached' = [cached EXCEPT ![task[m.id].path] = gathered'[m.id]]
      <3>1. gathered'[m.id] \subseteq Children(task[m.id].path) /\ gathered'[m.id] \subseteq Inside
        BY <1>3, <1>7, <1>8
      <3>. QED
        BY <1>4, <2>2, <3>1 DEF Typed, TreeTypeOK
    <2>. QED
      BY <1>2, <2>1, <2>2 DEF pageVars
  <1>10. TreeTypeOK' /\ TasksAsked' /\ FoundInside'
    BY <1>1, <1>7, <1>8, <1>9 DEF Typed, TreeTypeOK, TasksAsked, Deletion, FoundInside, historyVars
  <1>. QED
    BY <1>1, <1>2, <1>3, <1>6, <1>10 DEF Typed, m, pageVars

\* NaCl reads a directory: what it finds is what is there.
LEMMA ReadEntriesTyped ==
    ASSUME Streamed, Typed, ReadEntries
    PROVE  /\ Typed'
           /\ UNCHANGED <<kind, exists, task, calls, outcome, pageVars, historyVars>>
           /\ busy \in Requests
           /\ Elements(found'[busy]) = Present(task[busy].path)
           /\ \A r \in Requests \ {busy} : found'[r] = found[r]
  <1>1. /\ busy # Nobody /\ kind[busy] = "listing" /\ UNCHANGED <<exists, task, calls, pageVars, historyVars>>
        /\ \E s \in Orders(Present(task[busy].path)) :
              /\ found' = [found EXCEPT ![busy] = s]
              /\ AnswerAtOnce(Len(s)) \/ StreamFirst(Len(s))
    BY DEF ReadEntries
  <1>2. busy \in Requests /\ size \in [Requests -> Nat]
    BY <1>1 DEF Streamed, IInv, StreamTypeOK
  <1>3. PICK s \in Orders(Present(task[busy].path)) :
              /\ found' = [found EXCEPT ![busy] = s]
              /\ AnswerAtOnce(Len(s)) \/ StreamFirst(Len(s))
    BY <1>1
  <1>4. s \in Seq(Inside) /\ Elements(s) = Present(task[busy].path)
    BY OrderElements
  <1>5. size' = [size EXCEPT ![busy] = Len(s)] /\ UNCHANGED <<kind, outcome>>
    BY <1>3 DEF AnswerAtOnce, StreamFirst, SendBatch
  <1>6. found \in [Requests -> Seq(Inside)]
    BY DEF Typed, TreeTypeOK
  <1>7. found' \in [Requests -> Seq(Inside)] /\ found'[busy] = s
        /\ \A r \in Requests \ {busy} : found'[r] = found[r]
    BY <1>2, <1>3, <1>4, <1>6
  <1>8. FoundInside'
    <2>1. ASSUME NEW r \in Requests
          PROVE  /\ kind[r] = "unasked" => found'[r] = <<>> /\ gathered[r] = {}
                 /\ Len(found'[r]) = size'[r]
                 /\ Elements(found'[r]) \cup gathered[r] \subseteq Children(task[r].path)
      <3>1. CASE r = busy
        <4>1. gathered[busy] \subseteq Children(task[busy].path)
          BY <1>2 DEF Typed, FoundInside
        <4>2. size'[busy] = Len(s)
          BY <1>2, <1>5
        <4>. QED
          BY <1>1, <1>4, <1>7, <3>1, <4>1, <4>2 DEF Present
      <3>2. CASE r # busy
        BY <1>2, <1>5, <1>7, <3>2 DEF Typed, FoundInside
      <3>. QED
        BY <3>1, <3>2
    <2>. QED
      BY <1>1, <1>5, <2>1 DEF FoundInside, pageVars
  <1>9. TreeTypeOK' /\ TasksAsked'
    BY <1>1, <1>5, <1>7 DEF Typed, TreeTypeOK, TasksAsked, Deletion, pageVars, historyVars
  <1>. QED
    BY <1>1, <1>2, <1>4, <1>5, <1>7, <1>8, <1>9 DEF Typed

\* The other steps leave alone what is asked and found.
LEMMA RestTyped ==
    ASSUME Typed, UNCHANGED <<kind, task, found, gathered, size, cached, raced>>,
           exists' \subseteq Paths, calls' \in Seq(CallsToServer),
           foreign' \in 0..MaxForeign, touched' \subseteq Inside
    PROVE  Typed'
  BY DEF Typed, TreeTypeOK, TasksAsked, Deletion, FoundInside, CallsToServer

LEMMA TakeMessageEffect ==
    ASSUME Streamed, Typed, TakeMessage
    PROVE  /\ Typed'
           /\ UNCHANGED <<kind, outcome, exists, task, found, pageVars, historyVars>>
           /\ busy' \in Requests /\ kind[busy'] # "unasked"
           /\ \/ Deletion(busy') /\ calls' = <<Call("stat", task[busy'].path)>>
              \/ task[busy'].op = "createDirectory" /\ calls' = <<Call("mkdir", task[busy'].path)>>
              \/ task[busy'].op \notin {"deleteEntry", "createDirectory"} /\ calls' = <<>>
  <1>1. /\ UNCHANGED <<kind, size, outcome, exists, task, found, pageVars, historyVars>>
        /\ toNacl # <<>> /\ busy' = Head(toNacl)
    BY DEF TakeMessage, Take
  <1>2. busy' \in Requests /\ kind[busy'] # "unasked"
    <2>1. busy' = toNacl[1] /\ 1 \in 1..Len(toNacl) /\ busy' \in Requests
      BY <1>1, TailShifts DEF Streamed, IInv, StreamTypeOK
    <2>2. outcome[busy'] = "waiting"
      BY <2>1 DEF Streamed, IInv, Queued, Waiting
    <2>. QED
      BY <2>1, <2>2 DEF Streamed, IInv, Unasked
  <1>3. \/ Deletion(busy') /\ calls' = <<Call("stat", task[busy'].path)>>
        \/ task[busy'].op = "createDirectory" /\ calls' = <<Call("mkdir", task[busy'].path)>>
        \/ task[busy'].op \notin {"deleteEntry", "createDirectory"} /\ calls' = <<>>
    <2>1. calls' = CASE Deletion(busy') -> <<Call("stat", task'[busy'].path)>>
                     [] task'[busy'].op = "createDirectory" -> <<Call("mkdir", task'[busy'].path)>>
                     [] OTHER -> <<>>
      BY DEF TakeMessage
    <2>. QED
      BY <1>1, <2>1 DEF Deletion
  <1>4. calls' \in Seq(CallsToServer)
    <2>1. task[busy'].path \in Paths
      BY <1>2 DEF Typed, TreeTypeOK
    <2>2. /\ Call("stat", task[busy'].path) \in CallsToServer
          /\ Call("mkdir", task[busy'].path) \in CallsToServer
      BY <2>1, CallFields
    <2>3. \A c \in CallsToServer : <<c>> \in Seq(CallsToServer)
      BY OneCall
    <2>4. <<>> \in Seq(CallsToServer)
      OBVIOUS
    <2>. QED
      BY <1>3, <2>2, <2>3, <2>4
  <1>5. Typed'
    BY <1>1, <1>4, RestTyped DEF pageVars, historyVars, Typed, TreeTypeOK
  <1>. QED
    BY <1>1, <1>2, <1>3, <1>5

\* The calls that an "empty" leads to: one for each of the contents, the removal of
\* the directory, and the calls that were left.
Emptying(p, s, rest) == [i \in 1..Len(s) |-> ContentCall(s[i])] \o <<Call("rmdir", p)>> \o rest

LEMMA ThreeJoin ==
    ASSUME NEW S, NEW front \in Seq(S), NEW x \in S, NEW rest \in Seq(S), NEW n, n = Len(front),
           NEW joined, joined = front \o <<x>> \o rest
    PROVE  /\ n \in Nat /\ joined \in Seq(S) /\ Len(joined) = n + 1 + Len(rest)
           /\ \A i \in 1..n : joined[i] = front[i]
           /\ joined[n + 1] = x
           /\ \A i \in 1..Len(rest) : joined[n + 1 + i] = rest[i]
           /\ \A i \in 1..Len(joined) : i \in 1..n \/ i = n + 1 \/ i - (n + 1) \in 1..Len(rest)
  <1>. DEFINE two == Append(front, x)
  <1>1. two = front \o <<x>>
    OBVIOUS
  <1>2. /\ two \in Seq(S) /\ Len(two) = n + 1 /\ n \in Nat
        /\ \A i \in 1..n : two[i] = front[i]
        /\ two[n + 1] = x
        /\ \A i \in 1 .. n + 1 : i \in 1..n \/ i = n + 1
    BY AppendExtends
  <1>3. joined = two \o rest
    BY <1>1
  <1>. HIDE DEF two
  <1>4. /\ joined \in Seq(S) /\ Len(joined) = n + 1 + Len(rest)
        /\ \A i \in 1 .. n + 1 : joined[i] = two[i]
        /\ \A i \in 1..Len(rest) : joined[n + 1 + i] = rest[i]
        /\ \A i \in 1..Len(joined) : i \in 1 .. n + 1 \/ i - (n + 1) \in 1..Len(rest)
    BY <1>2, <1>3, ConcatJoins
  <1>5. n + 1 \in 1 .. n + 1 /\ \A i \in 1..n : i \in 1 .. n + 1
    BY <1>2
  <1>. QED
    BY <1>2, <1>4, <1>5

LEMMA EmptyingCalls ==
    ASSUME NEW p \in Paths, NEW s \in Seq(Inside), NEW rest \in Seq(CallsToServer)
    PROVE  LET n == Len(s)
               all == Emptying(p, s, rest)
           IN /\ n \in Nat /\ all \in Seq(CallsToServer)
              /\ Len(all) = n + 1 + Len(rest)
              /\ \A i \in 1..n : all[i] = ContentCall(s[i])
              /\ all[n + 1] = Call("rmdir", p)
              /\ \A i \in 1..Len(rest) : all[n + 1 + i] = rest[i]
              /\ \A i \in 1..Len(all) : i \in 1..n \/ i = n + 1 \/ i - (n + 1) \in 1..Len(rest)
  <1>. DEFINE n == Len(s)
              contents == [i \in 1..n |-> ContentCall(s[i])]
  <1>1. Call("rmdir", p) \in CallsToServer
    BY CallFields
  <1>2. \A i \in 1..Len(s) : ContentCall(s[i]) \in CallsToServer
    <2>1. \A i \in 1..Len(s) : s[i] \in Paths
      BY DEF Paths
    <2>. QED
      BY <2>1, CallFields DEF ContentCall
  <1>3. n \in Nat /\ contents \in [1..n -> CallsToServer] /\ \A i \in 1..n : contents[i] = ContentCall(s[i])
    BY <1>2
  <1>4. Emptying(p, s, rest) = contents \o <<Call("rmdir", p)>> \o rest
    BY DEF Emptying
  <1>. HIDE DEF contents
  <1>5. contents \in Seq(CallsToServer) /\ Len(contents) = n
    BY <1>3
  <1>. DEFINE x == Call("rmdir", p)
              joined == contents \o <<x>> \o rest
  <1>6. x \in CallsToServer /\ n = Len(contents) /\ joined = contents \o <<x>> \o rest
    BY <1>1, <1>5
  <1>7. Emptying(p, s, rest) = joined /\ x = Call("rmdir", p)
    BY <1>4
  <1>. HIDE DEF n, x, joined
  <1>8. /\ joined \in Seq(CallsToServer) /\ Len(joined) = n + 1 + Len(rest)
        /\ \A i \in 1..n : joined[i] = contents[i]
        /\ joined[n + 1] = x
        /\ \A i \in 1..Len(rest) : joined[n + 1 + i] = rest[i]
        /\ \A i \in 1..Len(joined) : i \in 1..n \/ i = n + 1 \/ i - (n + 1) \in 1..Len(rest)
    BY SMTT(30), <1>5, <1>6, ThreeJoin
  <1>. QED
    BY <1>3, <1>7, <1>8 DEF n

\* A call that is carried out, by what it is.
LEMMA MakeCallEffect ==
    ASSUME Typed, MakeCall, NEW c, c = Head(calls), NEW p, p = c.path
    PROVE  /\ UNCHANGED <<streamVars, task, found, pageVars, historyVars>>
           /\ Typed' /\ c \in CallsToServer /\ p \in Paths /\ calls # <<>>
           /\ \/ c.call = "stat" /\ exists' = exists /\ calls' = <<FirstCall(busy, p)>>
              \/ /\ c.call = "empty" /\ exists' = exists
                 /\ \E s \in Orders(Present(p)) : calls' = Emptying(p, s, Tail(calls))
              \/ /\ c.call \in {"unlink", "rmdir"} /\ exists' = exists \ {p}
                 /\ calls' = Tail(calls)
              \/ c.call = "mkdir" /\ exists' = exists \cup {p} /\ calls' = Tail(calls)
  <1>1. calls # <<>> /\ calls \in Seq(CallsToServer)
    BY DEF MakeCall, Typed, TreeTypeOK, CallsToServer
  <1>2. c \in CallsToServer /\ Tail(calls) \in Seq(CallsToServer)
    BY <1>1, TailShifts
  <1>3. p \in Paths /\ c.call \in {"stat", "empty", "unlink", "rmdir", "mkdir"}
    BY <1>2 DEF CallsToServer
  <1>4. UNCHANGED <<streamVars, task, found, pageVars, historyVars>> /\ Proceed(c)
    BY DEF MakeCall
  <1>5. \/ c.call = "stat" /\ exists' = exists /\ calls' = <<FirstCall(busy, p)>>
        \/ /\ c.call = "empty" /\ exists' = exists
           /\ \E s \in Orders(Present(p)) : calls' = Emptying(p, s, Tail(calls))
        \/ /\ c.call \in {"unlink", "rmdir"} /\ exists' = exists \ {p}
           /\ calls' = Tail(calls)
        \/ c.call = "mkdir" /\ exists' = exists \cup {p} /\ calls' = Tail(calls)
    BY <1>3, <1>4 DEF Proceed, Changed, Emptying
  <1>6. calls' \in Seq(CallsToServer)
    <2>1. FirstCall(busy, p) \in CallsToServer
      BY <1>3, CallFields DEF FirstCall
    <2>2. \A s \in Orders(Present(p)) : Emptying(p, s, Tail(calls)) \in Seq(CallsToServer)
      BY <1>2, <1>3, OrderElements, EmptyingCalls
    <2>. QED
      BY <1>2, <1>5, <2>1, <2>2, OneCall
  <1>7. exists' \subseteq Paths
    BY <1>3, <1>5 DEF Typed, TreeTypeOK
  <1>8. Typed'
    BY <1>4, <1>6, <1>7, RestTyped DEF streamVars, pageVars, historyVars, Typed, TreeTypeOK
  <1>. QED
    BY <1>1, <1>2, <1>3, <1>4, <1>5, <1>8

\* A call that fails or is lost ends the operation; a lost one may have been
\* carried out.
LEMMA OperationFails ==
    ASSUME Streamed, Typed, CallFails \/ LoseCall
    PROVE  /\ Typed' /\ calls' = <<>> /\ calls # <<>> /\ Head(calls) \in CallsToServer
           /\ UNCHANGED <<kind, outcome, task, found, pageVars, historyVars>>
           /\ \/ exists' = exists
              \/ Head(calls).call = "mkdir" /\ exists' = exists \cup {Head(calls).path}
              \/ Head(calls).call \in {"unlink", "rmdir"} /\ exists' = exists \ {Head(calls).path}
  <1>1. calls # <<>> /\ calls \in Seq(CallsToServer)
    BY DEF CallFails, LoseCall, Typed, TreeTypeOK, CallsToServer
  <1>2. Head(calls) \in CallsToServer
    BY <1>1, TailShifts
  <1>3. Head(calls).path \in Paths
    BY <1>2 DEF CallsToServer
  <1>4. /\ calls' = <<>> /\ UNCHANGED <<kind, size, outcome, task, found, pageVars, historyVars>>
        /\ \/ exists' = exists
           \/ Head(calls).call = "mkdir" /\ exists' = exists \cup {Head(calls).path}
           \/ Head(calls).call \in {"unlink", "rmdir"} /\ exists' = exists \ {Head(calls).path}
    BY DEF CallFails, LoseCall, Changed, Fail
  <1>5. exists' \subseteq Paths
    BY <1>3, <1>4 DEF Typed, TreeTypeOK
  <1>6. calls' \in Seq(CallsToServer)
    BY <1>4
  <1>7. Typed'
    BY <1>4, <1>5, <1>6, RestTyped DEF pageVars, historyVars, Typed, TreeTypeOK
  <1>. QED
    BY <1>1, <1>2, <1>4, <1>7

LEMMA OtherClientEffect ==
    ASSUME Typed, NEW p \in Inside, OtherClient(p)
    PROVE  /\ Typed' /\ UNCHANGED <<streamVars, task, calls, found, pageVars, raced>>
           /\ touched' = touched \cup {p} /\ \A q \in Paths \ {p} : q \in exists' <=> q \in exists
  <1>1. /\ UNCHANGED <<streamVars, task, calls, found, pageVars, raced>>
        /\ touched' = touched \cup {p} /\ foreign' = foreign + 1 /\ foreign < MaxForeign
        /\ exists' = exists \ {p} \/ exists' = exists \cup {p}
    BY DEF OtherClient
  <1>2. foreign' \in 0..MaxForeign
    BY <1>1, TreeAssumption DEF Typed, TreeTypeOK
  <1>3. exists' \subseteq Paths
    BY <1>1, ParentsArePaths DEF Typed, TreeTypeOK
  <1>4. Typed'
    BY <1>1, <1>2, <1>3, RestTyped DEF streamVars, pageVars, Typed, TreeTypeOK, CallsToServer
  <1>. QED
    BY <1>1, <1>4

\* The steps that only move the stream on.
StreamOnly == TakeError \/ StreamEntries \/ ReadFails \/ Done \/ UNCHANGED vars

LEMMA StreamOnlyEffect ==
    ASSUME Streamed, Typed, StreamOnly
    PROVE  /\ Typed' /\ UNCHANGED treeVars /\ kind' = kind
           /\ \A r \in Requests : Underway(r)' => Underway(r)
           /\ busy' \in {busy, Nobody}
           /\ busy' # busy => calls = <<>> \/ kind[busy] = "listing"
  <1>1. UNCHANGED treeVars /\ UNCHANGED <<kind, size>>
    BY DEF StreamOnly, TakeError, HandleError, StreamEntries, StreamNext, SendBatch, ReadFails, Fail,
           Done, Succeed, vars, streamVars
  <1>2. Typed'
    BY <1>1, RestTyped DEF treeVars, pageVars, historyVars, Typed, TreeTypeOK, CallsToServer
  <1>3. \A r \in Requests : Underway(r)' => Underway(r)
    <2>1. CASE TakeError
      <3>1. toJs # <<>> /\ 1 \in 1..Len(toJs) /\ Head(toJs) = toJs[1]
        BY <2>1, TailShifts DEF TakeError, HandleError, Streamed, IInv, StreamTypeOK
      <3>2. outcome[Head(toJs).id] = "waiting"
        BY <3>1 DEF Streamed, IInv, Replies, ReplyOk, Waiting
      <3>3. \A r \in Requests : r # Head(toJs).id => outcome'[r] = outcome[r]
        BY <2>1 DEF TakeError, HandleError, Streamed, IInv, StreamTypeOK
      <3>. QED
        BY <3>2, <3>3 DEF Underway
    <2>2. CASE StreamEntries \/ ReadFails \/ Done \/ UNCHANGED vars
      <3>1. outcome' = outcome
        BY <2>2 DEF StreamEntries, StreamNext, SendBatch, ReadFails, Fail, Done, Succeed, vars,
                    streamVars
      <3>. QED
        BY <3>1 DEF Underway
    <2>. QED
      BY <2>1, <2>2 DEF StreamOnly
  <1>4. busy' \in {busy, Nobody} /\ (busy' # busy => calls = <<>> \/ kind[busy] = "listing")
    <2>1. CASE TakeError \/ UNCHANGED vars
      BY <2>1 DEF TakeError, HandleError, vars, streamVars, naclVars
    <2>2. CASE StreamEntries
      BY <2>2 DEF StreamEntries, StreamNext, SendBatch, Streamed, IInv, Streaming
    <2>3. CASE ReadFails
      BY <2>3 DEF ReadFails, Fail
    <2>4. CASE Done
      BY <2>4 DEF Done, Succeed
    <2>. QED
      BY <2>1, <2>2, <2>3, <2>4 DEF StreamOnly
  <1>. QED
    BY <1>1, <1>2, <1>3, <1>4

LEMMA EveryStep ==
    [Next]_vars =>
        \/ \E r \in Requests, p \in Inside, recursive \in BOOLEAN : DeleteEntry(r, p, recursive)
        \/ \E r \in Requests, d \in Dirs \ {Root} : CreateDirectory(r, d)
        \/ \E r \in Requests, d \in Dirs, stat \in BOOLEAN : ReadDirectory(r, d, stat)
        \/ TakeReply \/ TakeMessage \/ ReadEntries \/ MakeCall
        \/ CallFails \/ LoseCall
        \/ \E p \in Inside : OtherClient(p)
        \/ StreamOnly
  BY DEF Next, FilesApp, Page, Nacl, StreamOnly

LEMMA NextTyped == Streamed /\ Typed /\ [Next]_vars => Typed'
  BY EveryStep, DeleteEntryTyped, CreateDirectoryTyped, ReadDirectoryTyped, TakeReplyTyped,
     TakeMessageEffect, ReadEntriesTyped, MakeCallEffect, OperationFails, OtherClientEffect,
     StreamOnlyEffect

LEMMA TypedKept == Spec => [](Streamed /\ Typed)
  BY StreamKept, InitTyped, NextTyped, PTL DEF Spec

\* Every variable of the tree keeps its type, in a tree of any depth: no entry is
\* cached of a directory that does not hold it.
THEOREM TreeTypeCorrect == Spec => []TreeTypeOK
  BY TypedKept, PTL DEF Typed

-----------------------------------------------------------------------------
(* The calls of a deletion.                                                *)

\* What a task may touch: the target alone, or all of the tree below it.
Reach(t) == IF t.recursive THEN Below(t.path) ELSE {t.path}

\* The calls are those of the request that NaCl serves, they stay within its reach,
\* and nothing but the first look at the target and mkdir stands alone.
CallsServed ==
    /\ calls # <<>> => busy # Nobody /\ kind[busy] = "other"
    /\ \A i \in 1..Len(calls) :
          /\ calls[i].path \in Reach(task[busy])
          /\ calls[i].call \in {"stat", "mkdir"} => Len(calls) = 1
          /\ calls[i].call = "mkdir" <=> ~Deletion(busy)
          /\ calls[i].call = "empty" => task[busy].recursive

Working == CallsServed /\ WalkComplete

LEMMA TargetInReach ==
    ASSUME NEW t \in Tasks
    PROVE  t.path \in Reach(t) /\ t.path \in Paths
  <1>1. t.path \in Paths
    BY DEF Tasks
  <1>. QED
    BY <1>1, BelowGrows DEF Reach

LEMMA NoCallsWork ==
    ASSUME calls' = <<>>
    PROVE  Working'
  <1>1. Len(calls') = 0
    OBVIOUS
  <1>. QED
    BY <1>1 DEF Working, CallsServed, WalkComplete

LEMMA ServesKnown ==
    ASSUME Streamed, Typed, CallsServed, calls # <<>>
    PROVE  /\ busy \in Requests /\ task[busy] \in Tasks /\ kind[busy] = "other"
           /\ busy # Nobody /\ Underway(busy)
  <1>1. busy # Nobody /\ kind[busy] = "other" /\ busy \in Requests
    BY DEF CallsServed, Streamed, IInv, StreamTypeOK
  <1>2. Underway(busy)
    BY <1>1 DEF Streamed, IInv, Serving, Waiting, Underway
  <1>. QED
    BY <1>1, <1>2 DEF Typed, TreeTypeOK, Tasks

\* A step that leaves the calls to NaCl and lets nothing appear in a directory that
\* another client has not put there.
LEMMA SameCallsWork ==
    ASSUME Working, calls' = calls,
           calls # <<>> => busy' = busy /\ kind'[busy] = kind[busy] /\ task'[busy] = task[busy],
           touched \subseteq touched', exists' \subseteq exists \cup touched'
    PROVE  Working'
  <1>1. CASE calls = <<>>
    BY <1>1, NoCallsWork
  <1>2. CASE calls # <<>>
    <2>1. busy' = busy /\ kind'[busy] = kind[busy] /\ task'[busy] = task[busy]
      BY <1>2
    <2>2. CallsServed'
      BY <1>2, <2>1 DEF Working, CallsServed, Deletion
    <2>3. ASSUME NEW i \in 1..Len(calls), calls[i].call = "rmdir", task[busy].recursive,
                 NEW p \in Present(calls[i].path)'
          PROVE  p \in touched' \/ \E j \in 1 .. i - 1 : calls[j].path = p
      <3>1. CASE p \in touched'
        BY <3>1
      <3>2. CASE p \notin touched'
        <4>1. p \in Present(calls[i].path)
          BY <2>3, <3>2 DEF Present
        <4>. QED
          BY <2>3, <4>1 DEF Working, WalkComplete
      <3>. QED
        BY <3>1, <3>2
    <2>4. WalkComplete'
      BY <2>1, <2>3 DEF WalkComplete
    <2>. QED
      BY <2>2, <2>4 DEF Working
  <1>. QED
    BY <1>1, <1>2

LEMMA TakeMessageWorks ==
    ASSUME Streamed, Typed, TakeMessage
    PROVE  Working'
  <1>1. /\ UNCHANGED <<kind, task>> /\ busy' \in Requests /\ kind[busy'] # "unasked"
        /\ \/ Deletion(busy') /\ calls' = <<Call("stat", task[busy'].path)>>
           \/ task[busy'].op = "createDirectory" /\ calls' = <<Call("mkdir", task[busy'].path)>>
           \/ calls' = <<>>
    BY TakeMessageEffect
  <1>. DEFINE b == busy'
  <1>2. task[b] \in Tasks /\ b # Nobody
    BY <1>1, StreamAssumption DEF Typed, TreeTypeOK, Tasks
  <1>3. task[b].path \in Reach(task[b]) /\ task[b].path \in Paths
    BY <1>2, TargetInReach
  <1>4. ASSUME NEW c \in CallsToServer, calls' = <<c>>, c.path = task[b].path,
               c.call \in {"stat", "mkdir"}, task[b].op \in {"deleteEntry", "createDirectory"},
               c.call = "stat" <=> task[b].op = "deleteEntry"
        PROVE  Working'
    <2>1. Len(calls') = 1 /\ calls'[1] = c /\ \A i \in 1..Len(calls') : calls'[i] = c
      BY <1>4
    <2>2. kind[b] = "other"
      <3>1. kind[b] \in {"unasked", "listing", "other"}
        BY <1>1 DEF Streamed, IInv, StreamTypeOK
      <3>. QED
        BY <1>1, <1>4, <3>1 DEF Typed, TasksAsked, Deletion
    <2>3. CallsServed'
      <3>1. c.call # "empty" /\ (c.call = "mkdir" <=> ~Deletion(b))
        BY <1>4 DEF Deletion
      <3>2. Deletion(b) <=> Deletion(busy)'
        BY <1>1 DEF Deletion
      <3>. QED
        BY <1>1, <1>2, <1>3, <1>4, <2>1, <2>2, <3>1, <3>2 DEF CallsServed
    <2>4. WalkComplete'
      BY <1>4, <2>1 DEF WalkComplete
    <2>. QED
      BY <2>3, <2>4 DEF Working
  <1>5. CASE task[b].op = "deleteEntry" /\ calls' = <<Call("stat", task[b].path)>>
    <2>. DEFINE c == Call("stat", task[b].path)
    <2>1. c \in CallsToServer /\ c.path = task[b].path /\ c.call = "stat" /\ calls' = <<c>>
      BY <1>3, <1>5, CallFields
    <2>2. /\ c.call \in {"stat", "mkdir"} /\ task[b].op \in {"deleteEntry", "createDirectory"}
          /\ c.call = "stat" <=> task[b].op = "deleteEntry"
      BY <1>5, <2>1
    <2>. HIDE DEF c
    <2>. QED
      BY <1>4, <2>1, <2>2
  <1>6. CASE task[b].op = "createDirectory" /\ calls' = <<Call("mkdir", task[b].path)>>
    BY <1>3, <1>4, <1>6, CallFields
  <1>7. CASE calls' = <<>>
    BY <1>7, NoCallsWork
  <1>. QED
    BY <1>1, <1>5, <1>6, <1>7 DEF Deletion

\* A call that succeeds.  The target is looked at: the directory is emptied first,
\* or it is removed at once.
LEMMA StatWorks ==
    ASSUME Streamed, Typed, Working, calls # <<>>, Head(calls).call = "stat",
           UNCHANGED <<streamVars, task>>, NEW p, p = Head(calls).path,
           calls' = <<FirstCall(busy, p)>>
    PROVE  Working'
  <1>1. busy \in Requests /\ task[busy] \in Tasks /\ kind[busy] = "other" /\ busy # Nobody
    BY ServesKnown DEF Working
  <1>2. calls \in Seq(CallsToServer) /\ 1 \in 1..Len(calls) /\ Head(calls) = calls[1]
    BY TailShifts DEF Typed, TreeTypeOK, CallsToServer
  <1>3. p \in Paths /\ p \in Reach(task[busy]) /\ Deletion(busy)
    <2>1. p \in Reach(task[busy]) /\ Deletion(busy)
      BY <1>2 DEF Working, CallsServed
    <2>2. Head(calls) \in CallsToServer
      BY <1>2
    <2>. QED
      BY <2>1, <2>2 DEF CallsToServer
  <1>4. /\ FirstCall(busy, p).path = p
        /\ FirstCall(busy, p).call \in {"unlink", "rmdir", "empty"}
        /\ FirstCall(busy, p).call = "empty" => task[busy].recursive
        /\ FirstCall(busy, p).call = "rmdir" => ~task[busy].recursive
    BY <1>3, CallFields DEF FirstCall
  <1>. DEFINE c == FirstCall(busy, p)
  <1>5. Len(calls') = 1 /\ \A i \in 1..Len(calls') : calls'[i] = c
    OBVIOUS
  <1>6. UNCHANGED <<busy, kind, task>>
    BY DEF streamVars, naclVars
  <1>. HIDE DEF c
  <1>7. CallsServed'
    BY <1>1, <1>3, <1>4, <1>5, <1>6 DEF CallsServed, Deletion, c
  <1>8. WalkComplete'
    BY <1>4, <1>5, <1>6 DEF WalkComplete, c
  <1>. QED
    BY <1>7, <1>8 DEF Working

\* A place behind the first of a queue, counted after n entries and one more.
LEMMA ShiftedPlace ==
    ASSUME NEW n \in Nat, NEW length \in Nat, NEW k \in 1..length, NEW j \in 2..k,
           NEW i, i = n + 1 + k
    PROVE  j - 1 \in 1..length /\ (j - 1) + 1 = j /\ n + 1 + (j - 1) \in 1 .. i - 1
  OBVIOUS

\* A directory is read: its contents come before it, and all before what was left.
LEMMA EmptyWorks ==
    ASSUME Streamed, Typed, Working, calls # <<>>, Head(calls).call = "empty",
           UNCHANGED <<streamVars, task, exists, historyVars>>, NEW p, p = Head(calls).path,
           NEW s \in Orders(Present(p)), NEW n, n = Len(s), NEW rest, rest = Tail(calls),
           calls' = Emptying(p, s, rest)
    PROVE  Working'
  <1>1. /\ busy \in Requests /\ task[busy] \in Tasks /\ kind[busy] = "other" /\ busy # Nobody
        /\ UNCHANGED <<busy, kind, task, exists, touched>>
    BY ServesKnown DEF Working, streamVars, naclVars, historyVars
  <1>2. /\ calls \in Seq(CallsToServer) /\ 1 \in 1..Len(calls) /\ Head(calls) = calls[1]
        /\ Tail(calls) \in Seq(CallsToServer) /\ Len(Tail(calls)) = Len(calls) - 1
        /\ \A i \in 1..Len(Tail(calls)) : i + 1 \in 1..Len(calls) /\ Tail(calls)[i] = calls[i + 1]
    BY TailShifts DEF Typed, TreeTypeOK, CallsToServer
  <1>3. p \in Paths /\ p \in Reach(task[busy]) /\ Deletion(busy) /\ task[busy].recursive
    <2>1. p \in Reach(task[busy]) /\ Deletion(busy) /\ task[busy].recursive
      BY <1>2 DEF Working, CallsServed
    <2>2. Head(calls) \in CallsToServer
      BY <1>2
    <2>. QED
      BY <2>1, <2>2 DEF CallsToServer
  <1>4. /\ s \in Seq(Inside) /\ Elements(s) = Present(p)
        /\ \A i \in 1..Len(s) : s[i] \in Present(p) /\ s[i] \in Inside
    BY OrderElements
  <1>5. /\ n \in Nat /\ calls' \in Seq(CallsToServer)
        /\ Len(calls') = n + 1 + Len(rest)
        /\ \A i \in 1..n : calls'[i] = ContentCall(s[i])
        /\ calls'[n + 1] = Call("rmdir", p)
        /\ \A i \in 1..Len(rest) : calls'[n + 1 + i] = rest[i]
        /\ \A i \in 1..Len(calls') : i \in 1..n \/ i = n + 1 \/ i - (n + 1) \in 1..Len(rest)
    <2>1. p \in Paths /\ s \in Seq(Inside) /\ rest \in Seq(CallsToServer)
      BY <1>2, <1>3, <1>4
    <2>2. /\ Len(s) \in Nat /\ Emptying(p, s, rest) \in Seq(CallsToServer)
          /\ Len(Emptying(p, s, rest)) = Len(s) + 1 + Len(rest)
          /\ \A i \in 1..Len(s) : Emptying(p, s, rest)[i] = ContentCall(s[i])
          /\ Emptying(p, s, rest)[Len(s) + 1] = Call("rmdir", p)
          /\ \A i \in 1..Len(rest) : Emptying(p, s, rest)[Len(s) + 1 + i] = rest[i]
          /\ \A i \in 1..Len(Emptying(p, s, rest)) :
                i \in 1..Len(s) \/ i = Len(s) + 1 \/ i - (Len(s) + 1) \in 1..Len(rest)
      BY <2>1, EmptyingCalls
    <2>. QED
      BY <2>2
  <1>6. \A q \in Inside : /\ ContentCall(q).path = q
                          /\ ContentCall(q).call \in {"empty", "unlink"}
    BY ParentsArePaths, CallFields DEF ContentCall
  <1>7. Call("rmdir", p).path = p /\ Call("rmdir", p).call = "rmdir"
    BY <1>3, CallFields
  <1>8. Present(p) \subseteq Reach(task[busy])
    <2>1. task[busy].path \in Paths
      BY <1>1 DEF Tasks
    <2>. QED
      BY <1>3, <2>1, BelowGrows DEF Reach, Present
  <1>. DEFINE served(c) == /\ c.path \in Reach(task[busy]) /\ c.call \notin {"stat", "mkdir"}
                           /\ c.call = "empty" => task[busy].recursive
  <1>9. ASSUME NEW i \in 1..Len(rest)
        PROVE  /\ served(rest[i]) /\ rest[i] = calls[i + 1] /\ i + 1 \in 1..Len(calls)
    <2>1. rest[i] = calls[i + 1] /\ i + 1 \in 1..Len(calls) /\ Len(calls) # 1
      BY <1>2
    <2>. QED
      BY <2>1 DEF Working, CallsServed
  <1>10. ASSUME NEW i \in 1..Len(calls')  PROVE served(calls'[i])
    <2>1. CASE i \in 1..n
      BY SMTT(30), <1>3, <1>4, <1>5, <1>6, <1>8, <2>1
    <2>2. CASE i = n + 1
      BY <1>3, <1>5, <1>7, <2>2
    <2>3. CASE i - (n + 1) \in 1..Len(rest)
      <3>1. i = n + 1 + (i - (n + 1))
        BY <1>5
      <3>2. calls'[i] = rest[i - (n + 1)]
        BY <1>5, <2>3, <3>1
      <3>. QED
        BY <1>9, <2>3, <3>2
    <2>. QED
      BY <1>5, <2>1, <2>2, <2>3
  <1>11. CallsServed'
    BY <1>1, <1>3, <1>10 DEF CallsServed, Deletion
  <1>12. ASSUME NEW i \in 1..Len(calls'), calls'[i].call = "rmdir", NEW q \in Present(calls'[i].path)
         PROVE  q \in touched \/ \E j \in 1 .. i - 1 : calls'[j].path = q
    <2>1. CASE i \in 1..n
      BY <1>4, <1>5, <1>6, <1>12, <2>1
    <2>2. CASE i = n + 1
      <3>1. q \in Elements(s)
        BY <1>4, <1>5, <1>7, <1>12, <2>2
      <3>2. PICK j \in 1..n : s[j] = q
        BY <3>1 DEF Elements
      <3>3. calls'[j].path = q /\ j \in 1 .. i - 1
        BY <1>4, <1>5, <1>6, <2>2, <3>2
      <3>. QED
        BY <3>3
    <2>3. CASE i - (n + 1) \in 1..Len(rest)
      <3>. DEFINE k == i - (n + 1)
      <3>1. i = n + 1 + k /\ k \in 1..Len(rest)
        BY <1>5, <2>3
      <3>2. calls'[i] = rest[k] /\ rest[k] = calls[k + 1] /\ k + 1 \in 1..Len(calls)
        BY <1>5, <1>9, <3>1
      <3>. HIDE DEF k
      <3>3. q \in touched \/ \E j \in 1 .. (k + 1) - 1 : calls[j].path = q
        BY <1>3, <1>12, <3>2 DEF Working, WalkComplete
      <3>4. ASSUME NEW j \in 1..k, calls[j].path = q
            PROVE  \E j2 \in 1 .. i - 1 : calls'[j2].path = q
        <4>1. CASE j = 1
          <5>1. q = p /\ calls'[n + 1].path = q /\ n + 1 \in 1 .. i - 1
            BY <1>2, <1>5, <1>7, <3>1, <3>4, <4>1
          <5>. QED
            BY <5>1
        <4>2. CASE j # 1
          <5>1. j - 1 \in 1..Len(rest) /\ (j - 1) + 1 = j /\ n + 1 + (j - 1) \in 1 .. i - 1
            <6>1. Len(rest) \in Nat
              BY <1>2
            <6>2. k \in 1..Len(rest) /\ j \in 2..k /\ i = n + 1 + k /\ n \in Nat
              BY <1>5, <3>1, <4>2, <6>1
            <6>. QED
              BY <6>1, <6>2, ShiftedPlace
          <5>2. calls'[n + 1 + (j - 1)] = rest[j - 1] /\ rest[j - 1] = calls[j]
            BY <1>5, <1>9, <5>1
          <5>. QED
            BY <3>4, <5>1, <5>2
        <4>. QED
          BY <4>1, <4>2
      <3>5. (k + 1) - 1 = k
        BY <3>1
      <3>. QED
        BY <3>3, <3>4, <3>5
    <2>. QED
      BY <1>5, <2>1, <2>2, <2>3
  <1>13. WalkComplete'
    <2>1. Present(p)' = Present(p) /\ \A q : Present(q)' = Present(q)
      BY <1>1 DEF Present
    <2>. QED
      BY <1>1, <1>12, <2>1 DEF WalkComplete, Present
  <1>. QED
    BY <1>11, <1>13 DEF Working

\* A path is removed: whatever waited for that has its own turn next.
LEMMA RemovalWorks ==
    ASSUME Streamed, Typed, Working, calls # <<>>, UNCHANGED <<streamVars, task, historyVars>>,
           NEW p, p = Head(calls).path, exists' \subseteq exists \cup {p},
           p \in exists' => Head(calls).call = "mkdir", calls' = Tail(calls)
    PROVE  Working'
  <1>1. /\ busy \in Requests /\ task[busy] \in Tasks /\ kind[busy] = "other" /\ busy # Nobody
        /\ UNCHANGED <<busy, kind, task, touched>>
    BY ServesKnown DEF Working, streamVars, naclVars, historyVars
  <1>2. /\ calls \in Seq(CallsToServer) /\ 1 \in 1..Len(calls) /\ Head(calls) = calls[1]
        /\ Tail(calls) \in Seq(CallsToServer) /\ Len(Tail(calls)) = Len(calls) - 1
        /\ \A i \in 1..Len(Tail(calls)) : i + 1 \in 1..Len(calls) /\ Tail(calls)[i] = calls[i + 1]
    BY TailShifts DEF Typed, TreeTypeOK, CallsToServer
  <1>3. CASE Len(calls) = 1
    <2>1. calls' = <<>>
      BY <1>2, <1>3
    <2>. QED
      BY <2>1, NoCallsWork
  <1>4. CASE Len(calls) # 1
    <2>1. Head(calls).call # "mkdir" /\ p \notin exists'
      BY <1>2, <1>4 DEF Working, CallsServed
    <2>2. CallsServed'
      <3>1. ASSUME NEW i \in 1..Len(calls')
            PROVE  /\ calls'[i].path \in Reach(task[busy])
                   /\ calls'[i].call \notin {"stat", "mkdir"}
                   /\ Deletion(busy)
                   /\ calls'[i].call = "empty" => task[busy].recursive
        <4>1. i + 1 \in 1..Len(calls) /\ calls'[i] = calls[i + 1]
          BY <1>2
        <4>. QED
          BY <1>4, <4>1 DEF Working, CallsServed
      <3>. QED
        BY <1>1, <3>1 DEF CallsServed, Deletion
    <2>3. ASSUME NEW i \in 1..Len(calls'), calls'[i].call = "rmdir", task[busy].recursive,
                 NEW q \in Present(calls[i].path)'
          PROVE  q \in touched' \/ \E j \in 1 .. i - 1 : calls'[j].path = q
      <3>1. i + 1 \in 1..Len(calls) /\ calls'[i] = calls[i + 1] /\ (i + 1) - 1 = i
        BY <1>2
      <3>2. q \in Present(calls[i + 1].path) /\ q # p
        <4>1. q \in Children(calls'[i].path) /\ q \in exists'
          BY <2>3 DEF Present, Children
        <4>2. q # p /\ q \in exists
          BY <2>1, <4>1
        <4>. QED
          BY <3>1, <4>1, <4>2 DEF Present
      <3>3. q \in touched \/ \E j \in 1 .. i : calls[j].path = q
        BY <2>3, <3>1, <3>2 DEF Working, WalkComplete
      <3>4. ASSUME NEW j \in 1..i, calls[j].path = q
            PROVE  \E j2 \in 1 .. i - 1 : calls'[j2].path = q
        <4>1. j # 1
          BY <1>2, <3>2, <3>4
        <4>2. j - 1 \in 1 .. i - 1 /\ j - 1 \in 1..Len(calls') /\ (j - 1) + 1 = j
          BY <1>2, <4>1
        <4>3. calls'[j - 1] = calls[j]
          BY <1>2, <4>2
        <4>. QED
          BY <3>4, <4>2, <4>3
      <3>. QED
        BY <1>1, <3>3, <3>4
    <2>4. WalkComplete'
      BY <1>1, <2>3 DEF WalkComplete
    <2>. QED
      BY <2>2, <2>4 DEF Working
  <1>. QED
    BY <1>3, <1>4

\* A step that serves no operation, or the same one, and removes or creates nothing
\* on its behalf.
LEMMA OthersWork ==
    ASSUME Streamed, Typed, Working, calls' = calls, exists' \subseteq exists \cup touched',
           touched \subseteq touched', busy' = busy,
           NEW r \in Requests, kind[r] = "unasked",
           \A q \in Requests \ {r} : kind'[q] = kind[q] /\ task'[q] = task[q]
    PROVE  Working'
  <1>1. calls # <<>> => kind'[busy] = kind[busy] /\ task'[busy] = task[busy]
    <2>. SUFFICES ASSUME calls # <<>>  PROVE busy \in Requests \ {r}
      OBVIOUS
    <2>1. busy \in Requests /\ kind[busy] = "other"
      BY ServesKnown DEF Working
    <2>. QED
      BY <2>1
  <1>. QED
    BY <1>1, SameCallsWork

LEMMA AskWorks ==
    ASSUME Streamed, Typed, Working,
           \/ \E r \in Requests, p \in Inside, recursive \in BOOLEAN : DeleteEntry(r, p, recursive)
           \/ \E r \in Requests, d \in Dirs \ {Root} : CreateDirectory(r, d)
           \/ \E r \in Requests, d \in Dirs, stat \in BOOLEAN : ReadDirectory(r, d, stat)
    PROVE  Working'
  <1>1. PICK r \in Requests :
           \/ \E p \in Inside, recursive \in BOOLEAN : DeleteEntry(r, p, recursive)
           \/ \E d \in Dirs \ {Root} : CreateDirectory(r, d)
           \/ \E d \in Dirs, stat \in BOOLEAN : ReadDirectory(r, d, stat)
    OBVIOUS
  <1>2. kind[r] = "unasked" /\ \A q \in Requests \ {r} : kind'[q] = kind[q] /\ task'[q] = task[q]
    BY <1>1, DeleteEntryTyped, CreateDirectoryTyped, ReadDirectoryTyped
  <1>3. UNCHANGED <<calls, exists, touched, busy>>
    BY <1>1 DEF DeleteEntry, CreateDirectory, ReadDirectory, Post, historyVars, naclVars
  <1>. QED
    BY <1>2, <1>3, OthersWork

LEMMA MakeCallWorks ==
    ASSUME Streamed, Typed, Working, MakeCall
    PROVE  Working'
  <1>1. PICK c : c = Head(calls)
    OBVIOUS
  <1>2. PICK p : p = c.path
    OBVIOUS
  <1>3. /\ UNCHANGED <<streamVars, task, found, pageVars, historyVars>> /\ calls # <<>>
        /\ \/ c.call = "stat" /\ exists' = exists /\ calls' = <<FirstCall(busy, p)>>
           \/ /\ c.call = "empty" /\ exists' = exists
              /\ \E s \in Orders(Present(p)) : calls' = Emptying(p, s, Tail(calls))
           \/ /\ c.call \in {"unlink", "rmdir"} /\ exists' = exists \ {p}
              /\ calls' = Tail(calls)
           \/ c.call = "mkdir" /\ exists' = exists \cup {p} /\ calls' = Tail(calls)
    BY <1>1, <1>2, MakeCallEffect
  <1>4. CASE c.call = "stat" /\ exists' = exists /\ calls' = <<FirstCall(busy, p)>>
    BY <1>1, <1>2, <1>3, <1>4, StatWorks
  <1>5. CASE c.call = "empty" /\ exists' = exists
             /\ \E s \in Orders(Present(p)) : calls' = Emptying(p, s, Tail(calls))
    BY <1>1, <1>2, <1>3, <1>5, EmptyWorks
  <1>6. CASE c.call \in {"unlink", "rmdir"} /\ exists' = exists \ {p} /\ calls' = Tail(calls)
    BY <1>1, <1>2, <1>3, <1>6, RemovalWorks
  <1>7. CASE c.call = "mkdir" /\ exists' = exists \cup {p} /\ calls' = Tail(calls)
    BY <1>1, <1>2, <1>3, <1>7, RemovalWorks
  <1>. QED
    BY <1>3, <1>4, <1>5, <1>6, <1>7

LEMMA NextWorking ==
    ASSUME Streamed, Typed, Working, [Next]_vars
    PROVE  Working'
  <1>1. CASE \/ \E r \in Requests, p \in Inside, recursive \in BOOLEAN : DeleteEntry(r, p, recursive)
             \/ \E r \in Requests, d \in Dirs \ {Root} : CreateDirectory(r, d)
             \/ \E r \in Requests, d \in Dirs, stat \in BOOLEAN : ReadDirectory(r, d, stat)
    BY <1>1, AskWorks
  <1>2. CASE TakeReply
    <2>1. UNCHANGED <<kind, exists, task, calls, touched>>
      BY <1>2, TakeReplyTyped DEF historyVars
    <2>2. busy' = busy
      BY <1>2 DEF TakeReply, HandleReply, naclVars
    <2>. QED
      BY <2>1, <2>2, SameCallsWork
  <1>3. CASE TakeMessage
    BY <1>3, TakeMessageWorks
  <1>4. CASE ReadEntries
    <2>1. calls' = calls /\ busy # Nobody /\ kind[busy] = "listing"
      BY <1>4 DEF ReadEntries
    <2>2. calls = <<>>
      BY <2>1 DEF Working, CallsServed
    <2>. QED
      BY <2>1, <2>2, NoCallsWork
  <1>5. CASE MakeCall
    BY <1>5, MakeCallWorks
  <1>6. CASE CallFails \/ LoseCall
    BY <1>6, OperationFails, NoCallsWork
  <1>7. CASE \E p \in Inside : OtherClient(p)
    <2>1. PICK p \in Inside : OtherClient(p)
      BY <1>7
    <2>2. UNCHANGED <<streamVars, task, calls>> /\ touched' = touched \cup {p}
      BY <2>1, OtherClientEffect
    <2>3. exists' \subseteq exists \cup touched'
      BY <2>1 DEF OtherClient
    <2>4. busy' = busy /\ kind' = kind
      BY <2>2 DEF streamVars, naclVars
    <2>. QED
      BY <2>2, <2>3, <2>4, SameCallsWork
  <1>8. CASE StreamOnly
    <2>1. /\ UNCHANGED treeVars /\ kind' = kind /\ busy' \in {busy, Nobody}
          /\ busy' # busy => calls = <<>> \/ kind[busy] = "listing"
      BY <1>8, StreamOnlyEffect
    <2>2. UNCHANGED <<calls, task, exists, touched>>
      BY <2>1 DEF treeVars, historyVars
    <2>3. calls # <<>> => busy' = busy
      BY <2>1 DEF Working, CallsServed
    <2>. QED
      BY <2>1, <2>2, <2>3, SameCallsWork
  <1>. QED
    BY <1>1, <1>2, <1>3, <1>4, <1>5, <1>6, <1>7, <1>8, EveryStep

LEMMA InitWorking == Init => Working
  <1>. SUFFICES ASSUME Init  PROVE Working
    OBVIOUS
  <1>1. calls = <<>> /\ Len(calls) = 0
    BY DEF Init
  <1>. QED
    BY <1>1 DEF Working, CallsServed, WalkComplete

LEMMA WorkingKept == Spec => [](Streamed /\ Typed /\ Working)
  BY TypedKept, InitWorking, NextWorking, PTL DEF Spec

\* A deletion works through all of the tree below its target, however deep and wide
\* it is: when a directory is about to be removed, nothing is left in it but what
\* will have been dealt with by then, or what another client has put there.
THEOREM WalkIsComplete == Spec => []WalkComplete
  BY WorkingKept, PTL DEF Working

-----------------------------------------------------------------------------
(* What operations remove.                                                 *)

\* The one path that the call of an operation can remove is within its reach, and
\* in the request that NaCl serves, a deletion that waits for its answer.
LEMMA RemovedInReach ==
    ASSUME Streamed, Typed, Working, MakeCall \/ CallFails \/ LoseCall,
           NEW q \in exists, q \notin exists'
    PROVE  /\ busy \in Requests /\ Deletion(busy) /\ Underway(busy) /\ kind[busy] = "other"
           /\ q \in Reach(task[busy])
  <1>1. calls # <<>> /\ q = Head(calls).path /\ Head(calls).call \in {"unlink", "rmdir"}
    <2>1. CASE MakeCall
      <3>1. PICK c : c = Head(calls)
        OBVIOUS
      <3>2. PICK p : p = c.path
        OBVIOUS
      <3>3. calls # <<>> /\ \/ exists' = exists
                            \/ c.call \in {"unlink", "rmdir"} /\ exists' = exists \ {p}
                            \/ exists' = exists \cup {p}
        BY <2>1, <3>1, <3>2, MakeCallEffect
      <3>. QED
        BY <3>1, <3>2, <3>3
    <2>2. CASE CallFails \/ LoseCall
      BY <2>2, OperationFails
    <2>. QED
      BY <2>1, <2>2
  <1>2. 1 \in 1..Len(calls) /\ Head(calls) = calls[1]
    BY <1>1, TailShifts DEF Typed, TreeTypeOK, CallsToServer
  <1>3. q \in Reach(task[busy]) /\ Deletion(busy)
    BY <1>1, <1>2 DEF Working, CallsServed
  <1>. QED
    BY <1>1, <1>3, ServesKnown DEF Working

\* The steps by which something can go, or change hands.
LEMMA OnlyCallsRemove ==
    ASSUME Streamed, Typed, [Next]_vars, calls' # calls
    PROVE  \/ exists' = exists
           \/ MakeCall \/ CallFails \/ LoseCall
  <1>1. ASSUME \/ \E r \in Requests, p \in Inside, recursive \in BOOLEAN : DeleteEntry(r, p, recursive)
               \/ \E r \in Requests, d \in Dirs \ {Root} : CreateDirectory(r, d)
               \/ \E r \in Requests, d \in Dirs, stat \in BOOLEAN : ReadDirectory(r, d, stat)
               \/ TakeReply \/ ReadEntries
        PROVE  FALSE
    BY <1>1 DEF DeleteEntry, CreateDirectory, ReadDirectory, TakeReply, ReadEntries
  <1>2. ASSUME TakeMessage  PROVE exists' = exists
    BY <1>2 DEF TakeMessage
  <1>3. ASSUME (\E p \in Inside : OtherClient(p)) \/ StreamOnly  PROVE FALSE
    <2>1. calls' = calls
      BY <1>3, StreamOnlyEffect DEF OtherClient, treeVars
    <2>. QED
      BY <2>1
  <1>. QED
    BY <1>1, <1>2, <1>3, EveryStep

LEMMA StepRemovesOnlyBelow ==
    ASSUME Streamed, Typed, Working, [Next]_vars, busy # Nobody, calls' # calls
    PROVE  exists \ exists' \subseteq (IF task[busy].recursive THEN Below(task[busy].path)
                                                               ELSE {task[busy].path})
  <1>. SUFFICES ASSUME NEW q \in exists \ exists'  PROVE q \in Reach(task[busy])
    BY DEF Reach
  <1>1. MakeCall \/ CallFails \/ LoseCall
    BY OnlyCallsRemove
  <1>. QED
    BY <1>1, RemovedInReach

\* In a tree of any depth no operation removes anything but the target of a deletion
\* and, only when that was asked, what is below it.
THEOREM RemovesNothingElse == Spec => RemovesOnlyBelow
  BY WorkingKept, StepRemovesOnlyBelow, PTL DEF Spec, RemovesOnlyBelow

-----------------------------------------------------------------------------
(* What the cache keeps of paths that are gone.                            *)

\* A deletion of all of the tree below a directory above p.
DeletedFromAbove(p) ==
    \E r \in Requests : /\ Deletion(r) /\ task[r].recursive
                        /\ task[r].path # p /\ p \in Below(task[r].path)

\* Why an entry of p may outlive it; once there is such a reason it stays one.
Explained(p) == p \in touched \cup raced \/ DeletedFromAbove(p)

\* A deletion of p itself that waits for its answer.
Doomed(p) == \E r \in Requests : Deletion(r) /\ Underway(r) /\ task[r].path = p

\* A listing that the page has asked for and not seen the end of.
Lists(l, d) == kind[l] = "listing" /\ Underway(l) /\ task[l].path = d

\* Neither the cache nor a listing that may still fill it has an entry of p.
Unseen(p) ==
    /\ p \notin cached[Parent[p]]
    /\ \A l \in Requests : Lists(l, Parent[p]) => p \notin gathered[l] \cup Elements(found[l])

\* The cache has no entry of p and no listing will put one there.
Unwatched(p) ==
    /\ p \notin cached[Parent[p]]
    /\ \A l \in Requests : ~Lists(l, Parent[p])

\* A path that is about to be deleted is not listed, and one that is gone is not
\* seen, unless one of the reasons has come up.
Forgotten ==
    \A p \in Inside : ~Explained(p) =>
        /\ Doomed(p) => Unwatched(p)
        /\ p \notin exists => Unseen(p)

LEMMA UnwatchedUnseen == \A p : Unwatched(p) => Unseen(p)
  BY DEF Unwatched, Unseen

LEMMA InitForgotten == Init => Forgotten
  <1>. SUFFICES ASSUME Init, NEW p \in Inside  PROVE p \in exists /\ ~Doomed(p)
    BY DEF Forgotten
  <1>1. p \in exists
    BY DEF Init, Paths
  <1>2. \A r \in Requests : outcome[r] # "waiting"
    BY DEF Init, StreamInit
  <1>. QED
    BY <1>1, <1>2 DEF Doomed, Underway

\* A reason stays one when what was asked before stays what it was.
LEMMA StaysExplained ==
    ASSUME touched \subseteq touched', raced \subseteq raced',
           \A r \in Requests : Deletion(r) => task'[r] = task[r], NEW p
    PROVE  Explained(p) => Explained(p)'
  BY DEF Explained, DeletedFromAbove, Deletion

\* A step that neither asks anything nor answers something that was answered.
LEMMA QuietForgets ==
    ASSUME Typed, Forgotten, UNCHANGED <<kind, task>>,
           touched \subseteq touched', raced \subseteq raced',
           \A r \in Requests : Underway(r)' => Underway(r),
           NEW p \in Inside, ~Explained(p)',
           Unwatched(p) => p \notin cached'[Parent[p]],
           p \notin exists' /\ Unseen(p) => Unseen(p)',
           p \notin exists' /\ p \in exists => Doomed(p) /\ UNCHANGED <<cached, gathered, found>>
    PROVE  /\ Doomed(p)' => Unwatched(p)'
           /\ p \notin exists' => Unseen(p)'
  <1>1. ~Explained(p)
    BY StaysExplained
  <1>2. Doomed(p)' => Doomed(p)
    BY DEF Doomed, Deletion
  <1>3. \A l \in Requests : Lists(l, Parent[p])' => Lists(l, Parent[p])
    BY DEF Lists
  <1>4. Unwatched(p) => Unwatched(p)'
    BY <1>3 DEF Unwatched
  <1>5. Doomed(p) => Unwatched(p)
    BY <1>1 DEF Forgotten
  <1>6. p \notin exists' => Unseen(p)'
    <2>1. CASE p \in exists
      BY <1>4, <1>5, <2>1, UnwatchedUnseen DEF Unwatched, Unseen
    <2>2. CASE p \notin exists
      BY <1>1, <2>2 DEF Forgotten
    <2>. QED
      BY <2>1, <2>2
  <1>. QED
    BY <1>2, <1>4, <1>5, <1>6

\* What asking something leaves as it was.
LEMMA AskForgets ==
    ASSUME Streamed, Typed, Forgotten, NEW r \in Requests, NEW k \in {"listing", "other"},
           NEW stat \in BOOLEAN, Post(r, k, stat), UNCHANGED <<exists, gathered, found>>,
           kind[r] = "unasked", kind'[r] = k,
           \A q \in Requests \ {r} : kind'[q] = kind[q] /\ task'[q] = task[q],
           touched' = touched, raced \subseteq raced',
           NEW p \in Inside, ~Explained(p)', cached'[Parent[p]] \subseteq cached[Parent[p]]
    PROVE  /\ ~Explained(p)
           /\ \A q \in Requests \ {r} : Underway(q)' <=> Underway(q)
           /\ \A l \in Requests \ {r} : Lists(l, Parent[p])' => Lists(l, Parent[p])
           /\ ~Lists(r, Parent[p])' => (Unwatched(p) => Unwatched(p)')
           /\ p \notin exists' => Unseen(p)'
  <1>1. outcome' = [outcome EXCEPT ![r] = "waiting"] /\ outcome \in [Requests -> {"none", "waiting", "ok"} \cup Errors]
    BY DEF Post, Streamed, IInv, StreamTypeOK
  <1>2. \A q \in Requests \ {r} : Underway(q)' <=> Underway(q)
    BY <1>1 DEF Underway
  <1>3. ~Explained(p)
    <2>1. \A q \in Requests : Deletion(q) => q # r
      BY DEF Typed, TasksAsked, Deletion
    <2>. QED
      BY <2>1, StaysExplained
  <1>4. \A l \in Requests \ {r} : Lists(l, Parent[p])' => Lists(l, Parent[p])
    BY <1>2 DEF Lists
  <1>5. ~Lists(r, Parent[p])' => (Unwatched(p) => Unwatched(p)')
    BY <1>4 DEF Unwatched
  <1>6. found[r] = <<>> /\ gathered[r] = {}
    BY DEF Typed, FoundInside
  <1>7. p \notin exists' => Unseen(p)'
    <2>. SUFFICES ASSUME p \notin exists  PROVE Unseen(p)'
      OBVIOUS
    <2>1. Unseen(p)
      BY <1>3 DEF Forgotten
    <2>2. ASSUME NEW l \in Requests, Lists(l, Parent[p])'  PROVE p \notin gathered[l] \cup Elements(found[l])
      <3>1. CASE l = r
        BY <1>6, <3>1, ElementsEmpty
      <3>2. CASE l # r
        BY <1>4, <2>1, <2>2, <3>2 DEF Unseen
      <3>. QED
        BY <3>1, <3>2
    <2>. QED
      BY <2>1, <2>2 DEF Unseen
  <1>. QED
    BY <1>2, <1>3, <1>4, <1>5, <1>7

LEMMA DeleteEntryForgets ==
    ASSUME Streamed, Typed, Forgotten, NEW r \in Requests, NEW d \in Inside, NEW recursive \in BOOLEAN,
           DeleteEntry(r, d, recursive)
    PROVE  Forgotten'
  <1>. SUFFICES ASSUME NEW p \in Inside, ~Explained(p)'
                PROVE  /\ Doomed(p)' => Unwatched(p)'
                       /\ p \notin exists' => Unseen(p)'
    BY DEF Forgotten
  <1>1. /\ kind[r] = "unasked" /\ kind'[r] = "other"
        /\ task'[r] = Task("deleteEntry", d, recursive)
        /\ \A q \in Requests \ {r} : kind'[q] = kind[q] /\ task'[q] = task[q]
    BY DeleteEntryTyped
  <1>2. task'[r].path = d
    BY <1>1, TaskFields, ParentsArePaths
  <1>3. /\ Post(r, "other", FALSE) /\ UNCHANGED <<exists, gathered, found, touched>>
        /\ cached' = [cached EXCEPT ![Parent[d]] = @ \ {d}] /\ raced \subseteq raced'
        /\ (\E l \in Requests : kind[l] = "listing" /\ Underway(l) /\ task[l].path = Parent[d]) => d \in raced'
    BY DEF DeleteEntry, InvalidateEntry
  <1>4. /\ cached'[Parent[p]] \subseteq cached[Parent[p]]
        /\ p = d => p \notin cached'[Parent[p]]
    BY <1>3, ParentsArePaths DEF Typed, TreeTypeOK
  <1>5. /\ ~Explained(p)
        /\ \A q \in Requests \ {r} : Underway(q)' <=> Underway(q)
        /\ \A l \in Requests \ {r} : Lists(l, Parent[p])' => Lists(l, Parent[p])
        /\ ~Lists(r, Parent[p])' => (Unwatched(p) => Unwatched(p)')
        /\ p \notin exists' => Unseen(p)'
    BY <1>1, <1>3, <1>4, AskForgets
  <1>6. ~Lists(r, Parent[p])'
    BY <1>1 DEF Lists
  <1>7. CASE p = d
    <2>1. \A l \in Requests : ~Lists(l, Parent[p])
      BY <1>3, <1>7 DEF Explained, Lists
    <2>. QED
      BY <1>4, <1>5, <1>6, <1>7, <2>1 DEF Unwatched
  <1>8. CASE p # d
    <2>1. Doomed(p)' => Doomed(p)
      BY <1>1, <1>2, <1>5, <1>8 DEF Doomed, Deletion
    <2>. QED
      BY <1>5, <1>6, <2>1 DEF Forgotten
  <1>. QED
    BY <1>7, <1>8

LEMMA CreateDirectoryForgets ==
    ASSUME Streamed, Typed, Forgotten, NEW r \in Requests, NEW d \in Dirs \ {Root},
           CreateDirectory(r, d)
    PROVE  Forgotten'
  <1>. SUFFICES ASSUME NEW p \in Inside, ~Explained(p)'
                PROVE  /\ Doomed(p)' => Unwatched(p)'
                       /\ p \notin exists' => Unseen(p)'
    BY DEF Forgotten
  <1>1. /\ kind[r] = "unasked" /\ kind'[r] = "other"
        /\ task'[r] = Task("createDirectory", d, FALSE)
        /\ \A q \in Requests \ {r} : kind'[q] = kind[q] /\ task'[q] = task[q]
    BY CreateDirectoryTyped
  <1>2. task'[r].op = "createDirectory"
    BY <1>1 DEF Task
  <1>3. Post(r, "other", FALSE) /\ UNCHANGED <<exists, gathered, cached, found, touched, raced>>
    BY DEF CreateDirectory, pageVars, historyVars
  <1>5. /\ ~Explained(p)
        /\ \A q \in Requests \ {r} : Underway(q)' <=> Underway(q)
        /\ \A l \in Requests \ {r} : Lists(l, Parent[p])' => Lists(l, Parent[p])
        /\ ~Lists(r, Parent[p])' => (Unwatched(p) => Unwatched(p)')
        /\ p \notin exists' => Unseen(p)'
    BY <1>1, <1>3, AskForgets
  <1>6. ~Lists(r, Parent[p])'
    BY <1>1 DEF Lists
  <1>7. Doomed(p)' => Doomed(p)
    BY <1>1, <1>2, <1>5 DEF Doomed, Deletion
  <1>. QED
    BY <1>5, <1>6, <1>7 DEF Forgotten

LEMMA ReadDirectoryForgets ==
    ASSUME Streamed, Typed, Forgotten, NEW r \in Requests, NEW d \in Dirs, NEW stat \in BOOLEAN,
           ReadDirectory(r, d, stat)
    PROVE  Forgotten'
  <1>. SUFFICES ASSUME NEW p \in Inside, ~Explained(p)'
                PROVE  /\ Doomed(p)' => Unwatched(p)'
                       /\ p \notin exists' => Unseen(p)'
    BY DEF Forgotten
  <1>1. /\ kind[r] = "unasked" /\ kind'[r] = "listing"
        /\ task'[r] = Task("readDirectory", d, FALSE)
        /\ \A q \in Requests \ {r} : kind'[q] = kind[q] /\ task'[q] = task[q]
    BY ReadDirectoryTyped
  <1>2. task'[r].op = "readDirectory" /\ task'[r].path = d
    BY <1>1 DEF Task
  <1>3. /\ Post(r, "listing", stat) /\ UNCHANGED <<exists, gathered, cached, found, touched>>
        /\ raced' = raced \cup {c \in Children(d) :
                        \E l \in Requests : Deletion(l) /\ Underway(l) /\ task[l].path = c}
    BY DEF ReadDirectory, pageVars
  <1>5. /\ ~Explained(p)
        /\ \A q \in Requests \ {r} : Underway(q)' <=> Underway(q)
        /\ \A l \in Requests \ {r} : Lists(l, Parent[p])' => Lists(l, Parent[p])
        /\ ~Lists(r, Parent[p])' => (Unwatched(p) => Unwatched(p)')
        /\ p \notin exists' => Unseen(p)'
    BY <1>1, <1>3, AskForgets
  <1>6. Doomed(p)' => Doomed(p)
    BY <1>1, <1>2, <1>5 DEF Doomed, Deletion
  <1>7. Doomed(p) => ~Lists(r, Parent[p])'
    <2>1. p \notin raced'
      BY DEF Explained
    <2>2. Doomed(p) => p \notin Children(d)
      BY <1>3, <2>1 DEF Doomed
    <2>. QED
      BY <1>2, <2>2 DEF Children, Lists
  <1>. QED
    BY <1>5, <1>6, <1>7 DEF Forgotten

LEMMA TakeReplyForgets ==
    ASSUME Streamed, Typed, Forgotten, TakeReply
    PROVE  Forgotten'
  <1>. SUFFICES ASSUME NEW p \in Inside, ~Explained(p)'
                PROVE  /\ Doomed(p)' => Unwatched(p)'
                       /\ p \notin exists' => Unseen(p)'
    BY DEF Forgotten
  <1>1. PICK m : m = Head(toJs)
    OBVIOUS
  <1>2. /\ UNCHANGED <<kind, exists, task, found, touched, raced>>
        /\ m.id \in Requests /\ Underway(m.id)
        /\ \A r \in Requests : gathered'[r] \subseteq gathered[r] \cup Elements(found[r])
        /\ \/ cached' = cached
           \/ /\ kind[m.id] = "listing"
              /\ cached' = [cached EXCEPT ![task[m.id].path] = gathered'[m.id]]
    BY <1>1, TakeReplyTyped DEF historyVars
  <1>3. \A r \in Requests : Underway(r)' => Underway(r)
    <2>1. outcome' = outcome \/ outcome' = [outcome EXCEPT ![m.id] = "ok"]
      BY <1>1 DEF TakeReply, HandleReply
    <2>. QED
      BY <1>2, <2>1 DEF Underway, Streamed, IInv, StreamTypeOK
  <1>4. \/ cached'[Parent[p]] = cached[Parent[p]]
        \/ Lists(m.id, Parent[p]) /\ cached'[Parent[p]] = gathered'[m.id]
    <2>1. CASE cached' = cached
      BY <2>1
    <2>2. CASE kind[m.id] = "listing" /\ cached' = [cached EXCEPT ![task[m.id].path] = gathered'[m.id]]
      <3>1. CASE task[m.id].path = Parent[p]
        BY <1>2, <2>2, <3>1, ParentsArePaths DEF Lists, Typed, TreeTypeOK
      <3>2. CASE task[m.id].path # Parent[p]
        BY <2>2, <3>2, ParentsArePaths DEF Typed, TreeTypeOK
      <3>. QED
        BY <3>1, <3>2
    <2>. QED
      BY <1>2, <2>1, <2>2
  <1>5. Unwatched(p) => p \notin cached'[Parent[p]]
    BY <1>2, <1>4 DEF Unwatched
  <1>6. Unseen(p) => Unseen(p)'
    <2>. SUFFICES ASSUME Unseen(p)  PROVE Unseen(p)'
      OBVIOUS
    <2>1. \A l \in Requests : Lists(l, Parent[p]) => p \notin gathered'[l] \cup Elements(found[l])
      BY <1>2 DEF Unseen
    <2>2. p \notin cached'[Parent[p]]
      BY <1>2, <1>4, <2>1 DEF Unseen
    <2>3. \A l \in Requests : Lists(l, Parent[p])' => Lists(l, Parent[p])
      BY <1>2, <1>3 DEF Lists
    <2>4. found' = found
      BY <1>2
    <2>. QED
      BY <2>1, <2>2, <2>3, <2>4 DEF Unseen
  <1>. QED
    BY <1>2, <1>3, <1>5, <1>6, QuietForgets

LEMMA ReadEntriesForgets ==
    ASSUME Streamed, Typed, Forgotten, ReadEntries
    PROVE  Forgotten'
  <1>. SUFFICES ASSUME NEW p \in Inside, ~Explained(p)'
                PROVE  /\ Doomed(p)' => Unwatched(p)'
                       /\ p \notin exists' => Unseen(p)'
    BY DEF Forgotten
  <1>1. /\ UNCHANGED <<kind, exists, task, outcome, gathered, cached, touched, raced>>
        /\ busy \in Requests
        /\ Elements(found'[busy]) = Present(task[busy].path)
        /\ \A r \in Requests \ {busy} : found'[r] = found[r]
    BY ReadEntriesTyped DEF pageVars, historyVars
  <1>2. \A r \in Requests : Underway(r)' => Underway(r)
    BY <1>1 DEF Underway
  <1>3. p \notin exists' /\ Unseen(p) => Unseen(p)'
    <2>. SUFFICES ASSUME p \notin exists, Unseen(p)  PROVE Unseen(p)'
      BY <1>1
    <2>1. ASSUME NEW l \in Requests, Lists(l, Parent[p])
          PROVE  p \notin gathered[l] \cup Elements(found'[l])
      <3>1. CASE l = busy
        BY <1>1, <2>1, <3>1 DEF Unseen, Present
      <3>2. CASE l # busy
        BY <1>1, <2>1, <3>2 DEF Unseen
      <3>. QED
        BY <3>1, <3>2
    <2>2. \A l \in Requests : Lists(l, Parent[p])' => Lists(l, Parent[p])
      BY <1>1, <1>2 DEF Lists
    <2>. QED
      BY <1>1, <2>1, <2>2 DEF Unseen
  <1>4. Unwatched(p) => p \notin cached'[Parent[p]]
    BY <1>1 DEF Unwatched
  <1>. QED
    BY <1>1, <1>2, <1>3, <1>4, QuietForgets

\* Whatever goes without a reason is the target of the deletion that removes it.
LEMMA CallsForget ==
    ASSUME Streamed, Typed, Working, Forgotten, MakeCall \/ CallFails \/ LoseCall
    PROVE  Forgotten'
  <1>. SUFFICES ASSUME NEW p \in Inside, ~Explained(p)'
                PROVE  /\ Doomed(p)' => Unwatched(p)'
                       /\ p \notin exists' => Unseen(p)'
    BY DEF Forgotten
  <1>1. UNCHANGED <<kind, outcome, task, found, gathered, cached, touched, raced>>
    <2>1. CASE MakeCall
      BY <2>1 DEF MakeCall, streamVars, pageVars, historyVars
    <2>2. CASE CallFails \/ LoseCall
      BY <2>2, OperationFails DEF pageVars, historyVars
    <2>. QED
      BY <2>1, <2>2
  <1>2. \A r \in Requests : Underway(r)' => Underway(r)
    BY <1>1 DEF Underway
  <1>3. /\ Unwatched(p) => p \notin cached'[Parent[p]]
        /\ Unseen(p) => Unseen(p)'
    BY <1>1, <1>2 DEF Unwatched, Unseen, Lists
  <1>4. ~Explained(p)
    BY <1>1 DEF Explained, DeletedFromAbove, Deletion
  <1>5. p \notin exists' /\ p \in exists => Doomed(p)
    <2>. SUFFICES ASSUME p \notin exists', p \in exists  PROVE Doomed(p)
      OBVIOUS
    <2>1. /\ busy \in Requests /\ Deletion(busy) /\ Underway(busy)
          /\ p \in Reach(task[busy])
      BY RemovedInReach
    <2>2. task[busy].path = p
      BY <1>4, <2>1 DEF Reach, Explained, DeletedFromAbove
    <2>. QED
      BY <2>1, <2>2 DEF Doomed
  <1>. QED
    BY <1>1, <1>2, <1>3, <1>5, QuietForgets

LEMMA OthersForget ==
    ASSUME Streamed, Typed, Forgotten,
           TakeMessage \/ StreamOnly \/ \E c \in Inside : OtherClient(c)
    PROVE  Forgotten'
  <1>. SUFFICES ASSUME NEW p \in Inside, ~Explained(p)'
                PROVE  /\ Doomed(p)' => Unwatched(p)'
                       /\ p \notin exists' => Unseen(p)'
    BY DEF Forgotten
  <1>1. /\ UNCHANGED <<kind, task, found, gathered, cached, raced>> /\ touched \subseteq touched'
        /\ \A r \in Requests : Underway(r)' => Underway(r)
        /\ p \in exists' <=> p \in exists
    <2>1. CASE TakeMessage
      BY <2>1, TakeMessageEffect DEF pageVars, historyVars, Underway
    <2>2. CASE StreamOnly
      BY <2>2, StreamOnlyEffect DEF treeVars, pageVars, historyVars
    <2>3. CASE \E c \in Inside : OtherClient(c)
      <3>1. PICK c \in Inside : OtherClient(c)
        BY <2>3
      <3>2. /\ UNCHANGED <<streamVars, task, found, pageVars, raced>>
            /\ touched' = touched \cup {c} /\ \A q \in Paths \ {c} : q \in exists' <=> q \in exists
        BY <3>1, OtherClientEffect
      <3>3. p # c /\ p \in Paths
        BY <3>2, ParentsArePaths DEF Explained
      <3>. QED
        BY <3>2, <3>3 DEF streamVars, pageVars, Underway
    <2>. QED
      BY <2>1, <2>2, <2>3
  <1>2. \A l \in Requests : Lists(l, Parent[p])' => Lists(l, Parent[p])
    BY <1>1 DEF Lists
  <1>3. /\ Unwatched(p) => p \notin cached'[Parent[p]]
        /\ Unseen(p) => Unseen(p)'
    BY <1>1, <1>2 DEF Unwatched, Unseen
  <1>. QED
    BY <1>1, <1>3, QuietForgets

LEMMA NextForgets == Streamed /\ Typed /\ Working /\ Forgotten /\ [Next]_vars => Forgotten'
  BY EveryStep, DeleteEntryForgets, CreateDirectoryForgets, ReadDirectoryForgets, TakeReplyForgets,
     ReadEntriesForgets, CallsForget, OthersForget

\* However deep the tree, and however many deletions, listings and other clients
\* there are: the cache keeps an entry of a path that is gone only for one of the
\* reasons that GhostsExplained lists.
THEOREM GhostsHaveReasons == Spec => []GhostsExplained
  <1>1. Forgotten => GhostsExplained
    BY DEF Forgotten, GhostsExplained, Explained, DeletedFromAbove, Unseen
  <1>. QED
    BY <1>1, WorkingKept, InitForgotten, NextForgets, PTL DEF Spec

-----------------------------------------------------------------------------
(* The answers.                                                            *)

\* There is no way down from a path to its own directory.
LEMMA NoCycle == \A q \in Inside : Parent[q] \notin Below(q)
  <1>. SUFFICES ASSUME NEW q \in Inside, Parent[q] \in Below(q)  PROVE FALSE
    OBVIOUS
  <1>1. Ancestors[Root] = {Root}
    BY AncestorsUnfold, RootIsPath
  <1>2. Below(q) \subseteq Inside
    BY <1>1, ParentsArePaths DEF Below, Paths
  <1>3. ASSUME NEW x \in Below(q)  PROVE Parent[x] \in Below(q)
    <2>1. CASE x = q
      BY <2>1
    <2>2. CASE x # q
      <3>1. x \in Inside /\ x # Root /\ x \in Paths /\ Parent[x] \in Paths
        BY <1>2, ParentsArePaths
      <3>. QED
        BY <1>3, <2>2, <3>1, AncestorsUnfold DEF Below
    <2>. QED
      BY <2>1, <2>2
  <1>4. q \in Below(q)
    BY BelowGrows, ParentsArePaths
  <1>. QED
    BY <1>2, <1>3, <1>4, TreeAssumption

\* Of two entries of a directory neither is below the other.
LEMMA SiblingsApart ==
    ASSUME NEW p, NEW q \in Children(p), NEW x \in Children(p), q # x
    PROVE  x \notin Below(q) /\ p \notin Below(q)
  <1>1. q \in Inside /\ x \in Inside /\ Parent[q] = p /\ Parent[x] = p
    BY DEF Children
  <1>2. p \notin Below(q) /\ p \in Paths
    BY <1>1, NoCycle, ParentsArePaths
  <1>3. Ancestors[x] = {x} \cup Ancestors[p]
    BY <1>1, AncestorsUnfold, ParentsArePaths
  <1>. QED
    BY <1>2, <1>3 DEF Below

LEMMA BelowTransitive ==
    ASSUME NEW p \in Paths, NEW q \in Inside, q \in Below(p)
    PROVE  Below(q) \subseteq Below(p)
  <1>. DEFINE S == {x \in Below(q) : x \notin Below(p)}
  <1>1. Ancestors[Root] = {Root}
    BY AncestorsUnfold, RootIsPath
  <1>2. Below(q) \subseteq Inside
    BY <1>1, ParentsArePaths DEF Below, Paths
  <1>3. ASSUME NEW x \in S  PROVE Parent[x] \in S
    <2>1. x # q /\ x \in Inside /\ x # Root /\ x \in Paths /\ Parent[x] \in Paths
      BY <1>2, ParentsArePaths
    <2>2. Ancestors[x] = {x} \cup Ancestors[Parent[x]]
      BY <2>1, AncestorsUnfold
    <2>. QED
      BY <2>1, <2>2 DEF Below
  <1>4. S \in SUBSET Inside
    BY <1>2
  <1>. HIDE DEF S
  <1>5. S = {}
    BY <1>3, <1>4, TreeAssumption
  <1>. QED
    BY <1>5 DEF S

\* An order of what is in a directory has each of its entries once.
LEMMA OrderOnce ==
    ASSUME NEW d, NEW s \in Orders(Present(d)), NEW i \in 1..Len(s), NEW j \in 1..Len(s), s[i] = s[j]
    PROVE  i = j
  <1>. DEFINE T == Present(d)
              n == Cardinality(T)
  <1>1. T \subseteq Inside /\ IsFiniteSet(T)
    BY FiniteInside, FS_Subset DEF Present, Children
  <1>2. n \in Nat
    BY <1>1, FS_CardinalityType
  <1>3. s \in [1..n -> T] /\ (\A p \in T : \E k \in DOMAIN s : s[k] = p) /\ DOMAIN s = 1..n
    BY DEF Orders
  <1>4. 1..Len(s) = 1..n
    BY <1>3, OrderLength
  <1>. HIDE DEF T, n
  <1>5. IsFiniteSet(1..n) /\ Cardinality(1..n) = Cardinality(T)
    BY SMTT(30), <1>2, FS_Interval DEF n
  <1>6. s \in Surjection(1..n, T)
    BY <1>3 DEF Surjection
  <1>7. s \in Injection(1..n, T)
    BY <1>5, <1>6, FS_SurjSameCardinalityImpliesInj
  <1>. QED
    BY <1>3, <1>4, <1>7 DEF Injection, IsInjective

\* No path has two calls, and nothing below a directory that is still to be emptied
\* has one.
CallsApart ==
    \A i, j \in 1..Len(calls) : i # j =>
        /\ calls[i].path # calls[j].path
        /\ calls[i].call = "empty" => calls[j].path \notin Below(calls[i].path)

\* What a deletion has found below its target is there until its call is made, but
\* for what another client removes.
StillThere ==
    \A i \in 1..Len(calls) :
        calls[i].call # "mkdir" /\ calls[i].path # task[busy].path => calls[i].path \in exists \cup touched

\* The last call of a deletion is about its target, which is gone after it.
TargetLast ==
    busy # Nobody /\ Deletion(busy) =>
        IF calls = <<>> THEN task[busy].path \notin exists \ touched
                        ELSE calls[Len(calls)].path = task[busy].path

\* The directory has been made once no call is left.
TargetMade ==
    busy # Nobody /\ task[busy].op = "createDirectory" /\ calls = <<>> =>
        task[busy].path \in exists \cup touched

OnCourse == CallsApart /\ StillThere /\ TargetLast /\ TargetMade

LEMMA IdleOnCourse ==
    ASSUME calls' = <<>>, busy' = Nobody
    PROVE  OnCourse'
  <1>1. Len(calls') = 0
    OBVIOUS
  <1>. QED
    BY <1>1 DEF OnCourse, CallsApart, StillThere, TargetLast, TargetMade

\* A step that leaves the operation to NaCl, and changes on the server only what
\* another client changes.
LEMMA SameCallsOnCourse ==
    ASSUME OnCourse, calls' = calls, busy' = busy,
           busy # Nobody => task'[busy].op = task[busy].op /\ task'[busy].path = task[busy].path,
           calls # <<>> => busy # Nobody,
           touched \subseteq touched', exists \subseteq exists' \cup touched',
           exists' \subseteq exists \cup touched'
    PROVE  OnCourse'
  <1>1. CallsApart'
    BY DEF OnCourse, CallsApart
  <1>2. StillThere'
    <2>1. Len(calls) # 0 => calls # <<>>
      OBVIOUS
    <2>2. ASSUME NEW i \in 1..Len(calls)  PROVE calls # <<>>
      BY <2>2
    <2>. QED
      BY <2>2 DEF OnCourse, StillThere
  <1>3. TargetLast'
    BY DEF OnCourse, TargetLast, Deletion
  <1>4. TargetMade'
    BY DEF OnCourse, TargetMade
  <1>. QED
    BY <1>1, <1>2, <1>3, <1>4 DEF OnCourse

\* The operation has one call, about its target.
LEMMA OneCallOnCourse ==
    ASSUME NEW c, calls' = <<c>>, c.path = task'[busy'].path
    PROVE  OnCourse'
  <1>1. Len(calls') = 1 /\ calls'[1] = c /\ calls' # <<>> /\ \A i \in 1..Len(calls') : i = 1 /\ calls'[i] = c
    OBVIOUS
  <1>2. CallsApart'
    BY <1>1 DEF CallsApart
  <1>3. StillThere'
    BY <1>1 DEF StillThere
  <1>4. TargetLast' /\ TargetMade'
    BY <1>1 DEF TargetLast, TargetMade
  <1>. QED
    BY <1>2, <1>3, <1>4 DEF OnCourse

LEMMA TakeMessageOnCourse ==
    ASSUME Streamed, Typed, TakeMessage
    PROVE  OnCourse'
  <1>1. /\ task' = task /\ busy' \in Requests
        /\ \/ Deletion(busy') /\ calls' = <<Call("stat", task[busy'].path)>>
           \/ task[busy'].op = "createDirectory" /\ calls' = <<Call("mkdir", task[busy'].path)>>
           \/ task[busy'].op \notin {"deleteEntry", "createDirectory"} /\ calls' = <<>>
    BY TakeMessageEffect
  <1>2. task[busy'].path \in Paths
    BY <1>1 DEF Typed, TreeTypeOK
  <1>3. /\ Call("stat", task[busy'].path).path = task'[busy'].path
        /\ Call("mkdir", task[busy'].path).path = task'[busy'].path
    BY <1>1, <1>2, CallFields
  <1>4. CASE calls' # <<>>
    BY <1>1, <1>3, <1>4, OneCallOnCourse
  <1>5. CASE calls' = <<>>
    <2>1. task'[busy'].op \notin {"deleteEntry", "createDirectory"} /\ Len(calls') = 0
      BY <1>1, <1>5
    <2>. QED
      BY <2>1 DEF OnCourse, CallsApart, StillThere, TargetLast, TargetMade, Deletion
  <1>. QED
    BY <1>4, <1>5

LEMMA StatOnCourse ==
    ASSUME Streamed, Typed, Working, OnCourse, calls # <<>>, Head(calls).call = "stat",
           UNCHANGED <<streamVars, task>>, NEW p, p = Head(calls).path,
           calls' = <<FirstCall(busy, p)>>
    PROVE  OnCourse'
  <1>0. calls \in Seq(CallsToServer)
    BY DEF Typed, TreeTypeOK, CallsToServer
  <1>1. 1 \in 1..Len(calls) /\ Head(calls) = calls[1] /\ Head(calls) \in CallsToServer
    BY <1>0, TailShifts
  <1>2. Len(calls) = 1 /\ Deletion(busy) /\ busy # Nobody /\ p \in Paths
    BY <1>1, ServesKnown DEF Working, CallsServed, CallsToServer
  <1>3. p = task[busy].path
    BY <1>1, <1>2 DEF OnCourse, TargetLast
  <1>4. FirstCall(busy, p).path = p
    BY <1>2, CallFields DEF FirstCall
  <1>5. task'[busy'].path = p
    BY <1>3 DEF streamVars, naclVars
  <1>. QED
    BY <1>4, <1>5, OneCallOnCourse

LEMMA LongNotEmpty ==
    ASSUME NEW q, Len(q) # 0
    PROVE  q # <<>>
  OBVIOUS

\* A path is removed or made, and the call was about no other.
LEMMA ChangeOnCourse ==
    ASSUME Streamed, Typed, Working, OnCourse, calls # <<>>,
           UNCHANGED <<streamVars, task, historyVars>>, NEW p, p = Head(calls).path,
           calls' = Tail(calls),
           \/ Head(calls).call \in {"unlink", "rmdir"} /\ exists' = exists \ {p}
           \/ Head(calls).call = "mkdir" /\ exists' = exists \cup {p}
    PROVE  OnCourse'
  <1>1. /\ calls \in Seq(CallsToServer) /\ 1 \in 1..Len(calls) /\ Head(calls) = calls[1]
        /\ Len(calls) \in Nat \ {0} /\ Len(Tail(calls)) = Len(calls) - 1
        /\ \A i \in 1..Len(Tail(calls)) : i + 1 \in 1..Len(calls) /\ Tail(calls)[i] = calls[i + 1]
    BY TailShifts DEF Typed, TreeTypeOK, CallsToServer
  <1>2. busy \in Requests /\ busy # Nobody /\ UNCHANGED <<busy, kind, task, touched>>
    BY ServesKnown DEF Working, streamVars, naclVars, historyVars
  <1>3. /\ p \in Reach(task[busy])
        /\ Head(calls).call = "mkdir" <=> ~Deletion(busy)
        /\ Head(calls).call = "mkdir" => Len(calls) = 1
    BY <1>1 DEF Working, CallsServed
  <1>4. CallsApart'
    <2>1. ASSUME NEW i \in 1..Len(calls'), NEW j \in 1..Len(calls'), i # j
          PROVE  /\ calls'[i].path # calls'[j].path
                 /\ calls'[i].call = "empty" => calls'[j].path \notin Below(calls'[i].path)
      <3>1. /\ i + 1 \in 1..Len(calls) /\ calls'[i] = calls[i + 1]
            /\ j + 1 \in 1..Len(calls) /\ calls'[j] = calls[j + 1] /\ i + 1 # j + 1
        BY <1>1, <2>1
      <3>. QED
        BY <3>1 DEF OnCourse, CallsApart
    <2>. QED
      BY <2>1 DEF CallsApart
  <1>5. StillThere'
    <2>1. ASSUME NEW i \in 1..Len(calls'), calls'[i].call # "mkdir", calls'[i].path # task[busy].path
          PROVE  calls'[i].path \in exists' \cup touched
      <3>1. i + 1 \in 1..Len(calls) /\ calls'[i] = calls[i + 1] /\ i + 1 # 1
        BY <1>1
      <3>2. calls'[i].path # p
        BY <1>1, <3>1 DEF OnCourse, CallsApart
      <3>3. calls'[i].path \in exists \cup touched
        BY <2>1, <3>1 DEF OnCourse, StillThere
      <3>. QED
        BY <3>2, <3>3
    <2>. QED
      BY <1>2, <2>1 DEF StillThere
  <1>6. CASE Len(calls) = 1
    <2>1. calls' = <<>>
      BY <1>1, <1>6
    <2>2. Deletion(busy) => task[busy].path \notin exists'
      BY <1>1, <1>2, <1>3, <1>6 DEF OnCourse, TargetLast
    <2>3. ~Deletion(busy) => task[busy].path \in exists'
      BY <1>2, <1>3 DEF Reach, Typed, TasksAsked
    <2>. QED
      BY <1>2, <1>4, <1>5, <2>1, <2>2, <2>3 DEF OnCourse, TargetLast, TargetMade, Deletion
  <1>7. CASE Len(calls) # 1
    <2>1. Len(calls') \in 1..Len(Tail(calls)) /\ Len(calls') + 1 = Len(calls) /\ calls' # <<>>
      <3>1. PICK n : n = Len(calls) /\ n \in Nat \ {0} /\ n # 1
        BY <1>1, <1>7
      <3>2. Len(calls') = n - 1 /\ Len(Tail(calls)) = n - 1 /\ n - 1 \in 1 .. n - 1
        BY <1>1, <3>1
      <3>3. Len(Tail(calls)) # 0
        BY <3>1, <3>2
      <3>4. Tail(calls) # <<>>
        BY <3>3, LongNotEmpty
      <3>. QED
        BY <3>1, <3>2, <3>4
    <2>2. calls'[Len(calls')] = calls[Len(calls)]
      BY <1>1, <2>1
    <2>3. TargetLast'
      BY <1>2, <2>1, <2>2 DEF OnCourse, TargetLast, Deletion
    <2>4. TargetMade'
      BY <2>1 DEF TargetMade
    <2>. QED
      BY <1>4, <1>5, <2>3, <2>4 DEF OnCourse
  <1>. QED
    BY <1>6, <1>7

\* A directory is read.  Its entries are on the server; they are apart from one
\* another, from the directory, and from whatever has a call already, because
\* nothing below the directory had one.
LEMMA EmptyOnCourse ==
    ASSUME Streamed, Typed, Working, OnCourse, calls # <<>>, Head(calls).call = "empty",
           UNCHANGED <<streamVars, task, exists, historyVars>>, NEW p, p = Head(calls).path,
           NEW s \in Orders(Present(p)), NEW n, n = Len(s), NEW rest, rest = Tail(calls),
           calls' = Emptying(p, s, rest)
    PROVE  OnCourse'
  <1>0. calls \in Seq(CallsToServer)
    BY DEF Typed, TreeTypeOK, CallsToServer
  <1>1. /\ 1 \in 1..Len(calls) /\ Head(calls) = calls[1] /\ Head(calls) \in CallsToServer
        /\ rest \in Seq(CallsToServer) /\ Len(calls) \in Nat \ {0} /\ Len(rest) = Len(calls) - 1
        /\ \A i \in 1..Len(rest) : i + 1 \in 1..Len(calls) /\ rest[i] = calls[i + 1]
    BY <1>0, TailShifts
  <1>2. busy \in Requests /\ busy # Nobody /\ UNCHANGED <<busy, kind, task, exists, touched>>
    BY ServesKnown DEF Working, streamVars, naclVars, historyVars
  <1>3. p \in Paths /\ Deletion(busy)
    <2>1. Deletion(busy)
      BY <1>1 DEF Working, CallsServed
    <2>. QED
      BY <1>1, <2>1 DEF CallsToServer
  <1>4. /\ s \in Seq(Inside) /\ \A i \in 1..Len(s) : s[i] \in Present(p) /\ s[i] \in Inside
        /\ \A i, j \in 1..Len(s) : s[i] = s[j] => i = j
    BY OrderElements, OrderOnce
  <1>5. /\ n \in Nat /\ Len(calls') = n + 1 + Len(rest)
        /\ \A i \in 1..n : calls'[i] = ContentCall(s[i])
        /\ calls'[n + 1] = Call("rmdir", p)
        /\ \A i \in 1..Len(rest) : calls'[n + 1 + i] = rest[i]
        /\ \A i \in 1..Len(calls') : i \in 1..n \/ i = n + 1 \/ i - (n + 1) \in 1..Len(rest)
    <2>1. p \in Paths /\ s \in Seq(Inside) /\ rest \in Seq(CallsToServer)
      BY <1>1, <1>3, <1>4
    <2>2. /\ Len(s) \in Nat /\ Emptying(p, s, rest) \in Seq(CallsToServer)
          /\ Len(Emptying(p, s, rest)) = Len(s) + 1 + Len(rest)
          /\ \A i \in 1..Len(s) : Emptying(p, s, rest)[i] = ContentCall(s[i])
          /\ Emptying(p, s, rest)[Len(s) + 1] = Call("rmdir", p)
          /\ \A i \in 1..Len(rest) : Emptying(p, s, rest)[Len(s) + 1 + i] = rest[i]
          /\ \A i \in 1..Len(Emptying(p, s, rest)) :
                i \in 1..Len(s) \/ i = Len(s) + 1 \/ i - (Len(s) + 1) \in 1..Len(rest)
      BY <2>1, EmptyingCalls
    <2>. QED
      BY <2>2
  \* The calls of the contents, of the directory, and of what was left.
  <1>6. ASSUME NEW i \in 1..n
        PROVE  /\ calls'[i].path = s[i] /\ s[i] \in Children(p) /\ s[i] \in Below(p) /\ s[i] \in Inside
               /\ s[i] \in exists
    <2>1. s[i] \in Present(p) /\ s[i] \in Inside /\ calls'[i] = ContentCall(s[i])
      BY <1>4, <1>5
    <2>2. ContentCall(s[i]).path = s[i]
      BY <2>1, ParentsArePaths, CallFields DEF ContentCall
    <2>. QED
      BY <1>3, <2>1, <2>2, BelowGrows DEF Present
  <1>7. calls'[n + 1].path = p /\ calls'[n + 1].call = "rmdir"
    BY <1>3, <1>5, CallFields
  <1>8. ASSUME NEW i \in 1..Len(calls'), NEW k, k = i - (n + 1), k \in 1..Len(rest)
        PROVE  /\ calls'[i] = rest[k] /\ rest[k] = calls[k + 1] /\ k + 1 \in 1..Len(calls)
               /\ calls'[i].path # p /\ calls'[i].path \notin Below(p)
               /\ calls'[i].call = "empty" => p \notin Below(calls'[i].path)
    <2>1. i = n + 1 + k
      BY <1>5, <1>8
    <2>2. calls'[n + 1 + k] = rest[k] /\ rest[k] = calls[k + 1] /\ k + 1 \in 1..Len(calls)
      BY <1>1, <1>5, <1>8
    <2>3. k + 1 # 1 /\ calls'[i] = rest[k]
      BY <1>8, <2>1, <2>2
    <2>. QED
      BY <1>1, <2>2, <2>3 DEF OnCourse, CallsApart
  <1>9. CallsApart'
    <2>. SUFFICES ASSUME NEW i \in 1..Len(calls'), NEW j \in 1..Len(calls'), i # j
                  PROVE  /\ calls'[i].path # calls'[j].path
                         /\ calls'[i].call = "empty" => calls'[j].path \notin Below(calls'[i].path)
      BY DEF CallsApart
    <2>1. CASE i \in 1..n /\ j \in 1..n
      <3>1. s[i] # s[j]
        BY <1>4, <2>1
      <3>. QED
        BY <1>6, <2>1, <3>1, SiblingsApart
    <2>2. CASE i \in 1..n /\ j = n + 1
      <3>1. s[i] \in Inside /\ Parent[s[i]] = p /\ calls'[i].path = s[i]
        BY <1>6, <2>2 DEF Children
      <3>2. p \notin Below(s[i]) /\ s[i] \in Below(s[i])
        BY <3>1, NoCycle, BelowGrows, ParentsArePaths
      <3>. QED
        BY <1>7, <2>2, <3>1, <3>2
    <2>3. CASE i \in 1..n /\ j - (n + 1) \in 1..Len(rest)
      <3>1. calls'[j].path \notin Below(p)
        BY <1>8, <2>3
      <3>2. calls'[i].path = s[i] /\ s[i] \in Below(p) /\ s[i] \in Inside
        BY <1>6, <2>3
      <3>3. Below(s[i]) \subseteq Below(p)
        BY <1>3, <3>2, BelowTransitive
      <3>. QED
        BY <3>1, <3>2, <3>3
    <2>4. CASE i = n + 1 /\ j \in 1..n
      <3>1. s[j] \in Inside /\ Parent[s[j]] = p /\ calls'[j].path = s[j]
        BY <1>6, <2>4 DEF Children
      <3>2. p \notin Below(s[j]) /\ s[j] \in Below(s[j])
        BY <3>1, NoCycle, BelowGrows, ParentsArePaths
      <3>. QED
        BY <1>7, <2>4, <3>1, <3>2
    <2>5. CASE i = n + 1 /\ j - (n + 1) \in 1..Len(rest)
      BY <1>7, <1>8, <2>5
    <2>6. CASE i - (n + 1) \in 1..Len(rest) /\ j \in 1..n
      <3>1. /\ calls'[i].path \notin Below(p)
            /\ calls'[i].call = "empty" => p \notin Below(calls'[i].path)
        BY <1>8, <2>6
      <3>2. calls'[j].path = s[j] /\ s[j] \in Below(p) /\ s[j] \in Children(p) /\ s[j] \in Paths
        BY <1>6, <2>6, ParentsArePaths
      <3>3. Ancestors[s[j]] = {s[j]} \cup Ancestors[p]
        BY <3>2, AncestorsUnfold, ParentsArePaths DEF Children
      <3>4. ASSUME s[j] \in Below(calls'[i].path)  PROVE p \in Below(calls'[i].path)
        BY <1>3, <3>1, <3>2, <3>3, <3>4 DEF Below
      <3>. QED
        BY <3>1, <3>2, <3>4
    <2>7. CASE i - (n + 1) \in 1..Len(rest) /\ j = n + 1
      BY <1>7, <1>8, <2>7
    <2>8. CASE i - (n + 1) \in 1..Len(rest) /\ j - (n + 1) \in 1..Len(rest)
      <3>1. PICK k : k = i - (n + 1)
        OBVIOUS
      <3>2. PICK l : l = j - (n + 1)
        OBVIOUS
      <3>3. /\ calls'[i] = calls[k + 1] /\ k + 1 \in 1..Len(calls)
            /\ calls'[j] = calls[l + 1] /\ l + 1 \in 1..Len(calls)
        BY SMTT(30), <1>8, <2>8, <3>1, <3>2
      <3>4. k + 1 # l + 1
        BY <1>5, <3>1, <3>2
      <3>. QED
        BY <3>3, <3>4 DEF OnCourse, CallsApart
    <2>. QED
      BY <1>5, <2>1, <2>2, <2>3, <2>4, <2>5, <2>6, <2>7, <2>8
  <1>10. StillThere'
    <2>. SUFFICES ASSUME NEW i \in 1..Len(calls'), calls'[i].call # "mkdir", calls'[i].path # task[busy].path
                  PROVE  calls'[i].path \in exists \cup touched
      BY <1>2 DEF StillThere
    <2>1. CASE i \in 1..n
      BY <1>6, <2>1
    <2>2. CASE i = n + 1
      BY <1>1, <1>7, <2>2 DEF OnCourse, StillThere
    <2>3. CASE i - (n + 1) \in 1..Len(rest)
      <3>1. PICK k : k = i - (n + 1)
        OBVIOUS
      <3>2. calls'[i] = calls[k + 1] /\ k + 1 \in 1..Len(calls)
        BY ZenonT(30), <1>8, <2>3, <3>1
      <3>. QED
        BY <3>2 DEF OnCourse, StillThere
    <2>. QED
      BY <1>5, <2>1, <2>2, <2>3
  <1>11. calls' # <<>> /\ calls'[Len(calls')].path = task[busy].path
    <2>1. calls[Len(calls)].path = task[busy].path
      BY <1>2, <1>3 DEF OnCourse, TargetLast
    <2>2. Len(calls') # 0
      BY <1>1, <1>5
    <2>3. CASE Len(rest) = 0
      <3>1. Len(calls') = n + 1 /\ Len(calls) = 1
        BY <1>1, <1>5, <2>3
      <3>. QED
        BY <1>1, <1>7, <2>1, <2>2, <3>1
    <2>4. CASE Len(rest) # 0
      <3>1. PICK k : k = Len(rest)
        OBVIOUS
      <3>2. k \in Nat /\ k # 0 /\ Len(calls') = n + 1 + k /\ k + 1 = Len(calls)
        BY <1>1, <1>5, <2>4, <3>1
      <3>3. k \in 1..Len(rest) /\ Len(calls') = n + 1 + k /\ k + 1 = Len(calls)
        BY <3>1, <3>2
      <3>4. calls'[n + 1 + k] = rest[k] /\ rest[k] = calls[k + 1]
        BY <1>1, <1>5, <3>3
      <3>. QED
        BY <2>1, <2>2, <3>3, <3>4
    <2>. QED
      BY <2>3, <2>4
  <1>12. TargetLast' /\ TargetMade'
    BY <1>2, <1>11 DEF TargetLast, TargetMade
  <1>. QED
    BY <1>9, <1>10, <1>12 DEF OnCourse

\* NaCl serves a request that has been asked.
LEMMA ServedIsAsked ==
    ASSUME Streamed, busy # Nobody
    PROVE  busy \in Requests /\ kind[busy] # "unasked" /\ Underway(busy)
  <1>1. busy \in Requests /\ outcome[busy] = "waiting"
    BY DEF Streamed, IInv, StreamTypeOK, Serving, Waiting
  <1>. QED
    BY <1>1 DEF Streamed, IInv, Unasked, Underway

\* The steps that leave the operation to NaCl.
LEMMA OtherStepsOnCourse ==
    ASSUME Streamed, Typed, Working, OnCourse,
           \/ \E r \in Requests, p \in Inside, recursive \in BOOLEAN : DeleteEntry(r, p, recursive)
           \/ \E r \in Requests, d \in Dirs \ {Root} : CreateDirectory(r, d)
           \/ \E r \in Requests, d \in Dirs, stat \in BOOLEAN : ReadDirectory(r, d, stat)
           \/ TakeReply \/ \E p \in Inside : OtherClient(p)
    PROVE  OnCourse' /\ busy' = busy
  <1>1. calls # <<>> => busy # Nobody
    BY DEF Working, CallsServed
  <1>2. CASE \/ \E r \in Requests, p \in Inside, recursive \in BOOLEAN : DeleteEntry(r, p, recursive)
             \/ \E r \in Requests, d \in Dirs \ {Root} : CreateDirectory(r, d)
             \/ \E r \in Requests, d \in Dirs, stat \in BOOLEAN : ReadDirectory(r, d, stat)
    <2>1. PICK r \in Requests :
             \/ \E p \in Inside, recursive \in BOOLEAN : DeleteEntry(r, p, recursive)
             \/ \E d \in Dirs \ {Root} : CreateDirectory(r, d)
             \/ \E d \in Dirs, stat \in BOOLEAN : ReadDirectory(r, d, stat)
      BY <1>2
    <2>2. kind[r] = "unasked" /\ \A q \in Requests \ {r} : kind'[q] = kind[q] /\ task'[q] = task[q]
      BY <2>1, DeleteEntryTyped, CreateDirectoryTyped, ReadDirectoryTyped
    <2>3. UNCHANGED <<calls, exists, touched, busy>>
      BY <2>1 DEF DeleteEntry, CreateDirectory, ReadDirectory, Post, historyVars, naclVars
    <2>4. busy # Nobody => task'[busy] = task[busy]
      BY <2>2, ServedIsAsked
    <2>. QED
      BY <1>1, <2>3, <2>4, SameCallsOnCourse
  <1>3. CASE TakeReply
    <2>1. UNCHANGED <<exists, task, calls, touched>>
      BY <1>3, TakeReplyTyped DEF historyVars
    <2>2. busy' = busy
      BY <1>3 DEF TakeReply, HandleReply, naclVars
    <2>. QED
      BY <1>1, <2>1, <2>2, SameCallsOnCourse
  <1>4. CASE \E p \in Inside : OtherClient(p)
    <2>1. PICK p \in Inside : OtherClient(p)
      BY <1>4
    <2>2. /\ UNCHANGED <<task, calls, busy>> /\ touched' = touched \cup {p}
          /\ exists' = exists \ {p} \/ exists' = exists \cup {p}
      BY <2>1 DEF OtherClient, streamVars, naclVars
    <2>3. /\ touched \subseteq touched' /\ exists \subseteq exists' \cup touched'
          /\ exists' \subseteq exists \cup touched'
      BY <2>2
    <2>. QED
      BY <1>1, <2>2, <2>3, SameCallsOnCourse
  <1>. QED
    BY <1>2, <1>3, <1>4

LEMMA MakeCallOnCourse ==
    ASSUME Streamed, Typed, Working, OnCourse, MakeCall
    PROVE  OnCourse' /\ busy' = busy
  <1>1. PICK c : c = Head(calls)
    OBVIOUS
  <1>2. PICK p : p = c.path
    OBVIOUS
  <1>3. /\ UNCHANGED <<streamVars, task, found, pageVars, historyVars>> /\ calls # <<>>
        /\ \/ c.call = "stat" /\ exists' = exists /\ calls' = <<FirstCall(busy, p)>>
           \/ /\ c.call = "empty" /\ exists' = exists
              /\ \E s \in Orders(Present(p)) : calls' = Emptying(p, s, Tail(calls))
           \/ /\ c.call \in {"unlink", "rmdir"} /\ exists' = exists \ {p}
              /\ calls' = Tail(calls)
           \/ c.call = "mkdir" /\ exists' = exists \cup {p} /\ calls' = Tail(calls)
    BY <1>1, <1>2, MakeCallEffect
  <1>4. busy' = busy
    BY <1>3 DEF streamVars, naclVars
  <1>5. CASE c.call = "stat" /\ exists' = exists /\ calls' = <<FirstCall(busy, p)>>
    BY <1>1, <1>2, <1>3, <1>4, <1>5, StatOnCourse
  <1>6. CASE c.call = "empty" /\ exists' = exists
             /\ \E s \in Orders(Present(p)) : calls' = Emptying(p, s, Tail(calls))
    BY <1>1, <1>2, <1>3, <1>4, <1>6, EmptyOnCourse
  <1>7. CASE \/ c.call \in {"unlink", "rmdir"} /\ exists' = exists \ {p} /\ calls' = Tail(calls)
             \/ c.call = "mkdir" /\ exists' = exists \cup {p} /\ calls' = Tail(calls)
    BY <1>1, <1>2, <1>3, <1>4, <1>7, ChangeOnCourse
  <1>. QED
    BY <1>3, <1>5, <1>6, <1>7, <1>4

LEMMA NextOnCourse ==
    ASSUME Streamed, Typed, Working, OnCourse, [Next]_vars
    PROVE  OnCourse'
  <1>1. CASE TakeMessage
    BY <1>1, TakeMessageOnCourse
  <1>2. CASE ReadEntries
    <2>1. UNCHANGED <<exists, task, calls, touched>> /\ busy # Nobody /\ kind[busy] = "listing"
      BY <1>2 DEF ReadEntries, historyVars
    <2>2. calls = <<>>
      BY <2>1 DEF Working, CallsServed
    <2>3. busy' \in {busy, Nobody}
      BY <1>2 DEF ReadEntries, AnswerAtOnce, StreamFirst, SendBatch
    <2>. QED
      BY <2>1, <2>2, <2>3, IdleOnCourse, SameCallsOnCourse
  <1>3. CASE CallFails \/ LoseCall
    <2>1. calls' = <<>> /\ busy' = Nobody
      BY <1>3 DEF CallFails, LoseCall, Fail
    <2>. QED
      BY <2>1, IdleOnCourse
  <1>4. CASE StreamOnly
    <2>1. /\ UNCHANGED treeVars /\ busy' \in {busy, Nobody}
          /\ busy' # busy => calls = <<>> \/ kind[busy] = "listing"
      BY <1>4, StreamOnlyEffect
    <2>2. UNCHANGED <<calls, task, exists, touched>>
      BY <2>1 DEF treeVars, historyVars
    <2>3. /\ calls # <<>> => busy # Nobody
          /\ busy' # busy => calls = <<>>
      BY <2>1 DEF Working, CallsServed
    <2>. QED
      BY <2>1, <2>2, <2>3, IdleOnCourse, SameCallsOnCourse
  <1>. QED
    BY <1>1, <1>2, <1>3, <1>4, EveryStep, OtherStepsOnCourse, MakeCallOnCourse

LEMMA InitOnCourse == Init => OnCourse
  <1>. SUFFICES ASSUME Init  PROVE OnCourse
    OBVIOUS
  <1>1. calls = <<>> /\ Len(calls) = 0 /\ busy = Nobody
    BY DEF Init, StreamInit
  <1>. QED
    BY <1>1 DEF OnCourse, CallsApart, StillThere, TargetLast, TargetMade

LEMMA OnCourseKept == Spec => [](Streamed /\ Typed /\ Working /\ OnCourse)
  BY WorkingKept, InitOnCourse, NextOnCourse, PTL DEF Spec

\* The reply that ends an operation is the last in the queue.
LEMMA LastReply ==
    ASSUME Streamed, NEW error \in NaclErrors \cup {NoError}, busy # Nobody,
           toJs' = Append(toJs, Reply(busy, error, Nothing))
    PROVE  toJs'[Len(toJs')].error = error
  <1>. DEFINE m == Reply(busy, error, Nothing)
  <1>1. m.error = error
    BY DEF Reply
  <1>2. toJs \in Seq(Message)
    BY DEF Streamed, IInv, StreamTypeOK, Message
  <1>. HIDE DEF m
  <1>3. Append(toJs, m)[Len(Append(toJs, m))] = m
    BY <1>2
  <1>. QED
    BY <1>1, <1>3 DEF m

\* What an answer says of the path it is about.
TruthOf(error) ==
    LET target == task[busy].path
    IN /\ Deletion(busy) /\ error = NoError => target \notin exists' \ touched
       /\ Deletion(busy) /\ error = "NOT_FOUND" =>
             target \notin exists' \/ Below(target) \cap touched # {}
       /\ task[busy].op = "createDirectory" =>
             /\ error = NoError => target \in exists' \cup touched
             /\ error = "NOT_FOUND" => target \notin exists'

LEMMA ListingTrue ==
    ASSUME Typed, busy \in Requests, kind[busy] = "listing", NEW error
    PROVE  TruthOf(error)
  <1>1. task[busy].op = "readDirectory"
    BY DEF Typed, TasksAsked
  <1>. QED
    BY <1>1 DEF TruthOf, Deletion

LEMMA FailureTrue ==
    ASSUME Streamed, Typed, Working, OnCourse, CallFails
    PROVE  TruthOf(toJs'[Len(toJs')].error)
  <1>1. /\ calls # <<>> /\ exists' = exists /\ busy # Nobody
        /\ toJs' = Append(toJs, Reply(busy, ErrorOf(Head(calls)), Nothing))
    BY DEF CallFails, Fail
  <1>2. ErrorOf(Head(calls)) \in NaclErrors
    BY DEF ErrorOf, NaclErrors
  <1>3. toJs'[Len(toJs')].error = ErrorOf(Head(calls))
    BY <1>1, <1>2, LastReply
  <1>4. calls \in Seq(CallsToServer)
    BY DEF Typed, TreeTypeOK, CallsToServer
  <1>5. 1 \in 1..Len(calls) /\ Head(calls) = calls[1]
    BY <1>1, <1>4, TailShifts
  <1>6. PICK p : p = Head(calls).path
    OBVIOUS
  <1>7. busy \in Requests
    BY <1>1, ServedIsAsked
  <1>8. p \in Reach(task[busy]) /\ (Head(calls).call = "mkdir" <=> ~Deletion(busy))
    BY <1>5, <1>6 DEF Working, CallsServed
  <1>9. ASSUME p \notin exists, Deletion(busy)
        PROVE  task[busy].path \notin exists \/ Below(task[busy].path) \cap touched # {}
    <2>1. CASE p = task[busy].path
      BY <1>9, <2>1
    <2>2. CASE p # task[busy].path
      <3>1. p \in Below(task[busy].path)
        BY <1>8, <2>2 DEF Reach
      <3>2. p \in touched
        BY <1>5, <1>6, <1>8, <1>9, <2>2 DEF OnCourse, StillThere
      <3>. QED
        BY <3>1, <3>2
    <2>. QED
      BY <2>1, <2>2
  <1>10. task[busy].op = "createDirectory" => p = task[busy].path
    BY <1>7, <1>8 DEF Reach, Typed, TasksAsked, Deletion
  <1>11. /\ ErrorOf(Head(calls)) # NoError
         /\ ErrorOf(Head(calls)) = "NOT_FOUND" => p \notin exists
    BY <1>6 DEF ErrorOf, NoError
  <1>. QED
    BY <1>1, <1>3, <1>9, <1>10, <1>11 DEF TruthOf

LEMMA DoneTrue ==
    ASSUME Streamed, Typed, Working, OnCourse, Done
    PROVE  TruthOf(toJs'[Len(toJs')].error)
  <1>1. /\ calls = <<>> /\ exists' = exists /\ busy # Nobody
        /\ toJs' = Append(toJs, Reply(busy, NoError, Nothing))
    BY DEF Done, Succeed, treeVars
  <1>2. toJs'[Len(toJs')].error = NoError
    BY <1>1, LastReply
  <1>. QED
    BY <1>1, <1>2 DEF TruthOf, OnCourse, TargetLast, TargetMade, NoError

LEMMA AnswerIsTrue ==
    ASSUME Streamed, Typed, Working, OnCourse, [Next]_vars, busy # Nobody, busy' = Nobody
    PROVE  TruthOf(toJs'[Len(toJs')].error)
  <1>1. busy \in Requests
    BY ServedIsAsked
  <1>2. ASSUME TakeMessage  PROVE FALSE
    BY <1>2 DEF TakeMessage, Take
  <1>3. CASE ReadEntries \/ ReadFails
    BY <1>1, <1>3, ListingTrue DEF ReadEntries, ReadFails
  <1>4. CASE CallFails
    BY <1>4, FailureTrue
  <1>5. CASE LoseCall
    <2>1. PICK error \in Faults : Fail(error)
      BY <1>5 DEF LoseCall
    <2>2. error \in {"SHOULD_RETRY", "FAILED"} /\ toJs' = Append(toJs, Reply(busy, error, Nothing))
      BY <2>1, TreeAssumption DEF Fail
    <2>3. toJs'[Len(toJs')].error = error
      BY <2>2, LastReply DEF NaclErrors
    <2>. QED
      BY <2>2, <2>3 DEF TruthOf, NoError
  <1>6. CASE StreamEntries
    <2>1. kind[busy] = "listing"
      BY <1>6 DEF StreamEntries, StreamNext, Streamed, IInv, Streaming
    <2>. QED
      BY <1>1, <2>1, ListingTrue
  <1>7. CASE Done
    BY <1>7, DoneTrue
  <1>8. ASSUME TakeError \/ UNCHANGED vars  PROVE FALSE
    <2>1. busy' = busy
      BY <1>8 DEF TakeError, HandleError, vars, streamVars, naclVars
    <2>. QED
      BY <2>1
  <1>9. CASE StreamOnly
    BY <1>3, <1>6, <1>7, <1>8, <1>9 DEF StreamOnly
  <1>. QED
    BY <1>2, <1>3, <1>4, <1>5, <1>9, EveryStep, OtherStepsOnCourse, MakeCallOnCourse

\* However deep the tree is, and however often the other client and the faults get
\* in the way: what NaCl answers of a deletion or of a new directory is the case.
THEOREM AnswersAreTrue == Spec => AnswersTrue
  <1>1. Streamed /\ Typed /\ Working /\ OnCourse /\ [Next]_vars /\ busy # Nobody /\ busy' = Nobody =>
            TruthOf(toJs'[Len(toJs')].error)
    BY AnswerIsTrue
  <1>. QED
    BY <1>1, OnCourseKept, PTL DEF Spec, AnswersTrue, TruthOf
=============================================================================
