-------------------------- MODULE DirectoryStream --------------------------
(***************************************************************************)
(* How the entries of a directory reach the Files app.  SambaFsp reads all *)
(* of them first and then either answers once, or stat()s them batch by    *)
(* batch and streams the batches (statAndStreamEntryMetadata);             *)
(* readDirectoryHandler cuts a batch that is too large for the Files app   *)
(* into slices and calls successFn for each.  An error can only come of    *)
(* reading the directory, before the first batch, and SHOULD_RETRY sends   *)
(* the request again, behind those sent meanwhile.                         *)
(*                                                                         *)
(* Entries are counted, not named: a reply and a call of successFn hold    *)
(* the entries after the first `from' up to the first `upto' of the        *)
(* listing.  Requests of other kinds share the channel; they have one      *)
(* reply without entries.  The router is MessageRouter's: each handler     *)
(* runs with its promise callbacks, and a posted message is never lost.    *)
(***************************************************************************)
EXTENDS Integers, Sequences

CONSTANTS Requests,       \* bound: the requests of the Files app
          Nobody,         \* no request
          AttemptCount,   \* attempts of getRetryingPromise; the code passes 3
          InitialBatch,   \* INITIAL_BATCH_SIZE: 16
          LargeBatch,     \* LARGE_BATCH_SIZE: 64
          LargeThreshold, \* LARGE_BATCH_THRESHOLD: 64
          DesiredBatch    \* desiredBatchSize of readDirectoryHandler: 64

ASSUME StreamAssumption ==
    /\ Nobody \notin Requests
    /\ AttemptCount \in Nat \ {0}
    /\ InitialBatch \in Nat \ {0}
    /\ LargeBatch \in Nat \ {0}
    /\ LargeThreshold \in Nat
    /\ DesiredBatch \in Nat \ {0}

NoError == "none"
NaclErrors == {"SHOULD_RETRY", "FAILED", "NOT_FOUND"}
Errors == {"FAILED", "NOT_FOUND"}

VARIABLES
    kind,      \* what each request is: "unasked", "listing" or "other"
    needsStat, \* listings that ask for size and modification time
    toNacl,    \* posted messages NaCl has not taken
    busy,      \* the request NaCl serves, or Nobody
    start,     \* startIndex of the listing that NaCl streams; 0 before
    toJs,      \* posted replies the page has not handled
    size,      \* entries that the last reading of each listing found
    handed,    \* the calls of successFn for each listing, oldest first
    attempts,  \* failed attempts of each request
    outcome    \* what the caller of each request was told

naclVars == <<busy, start>>
streamVars == <<kind, needsStat, toNacl, naclVars, toJs, size, handed, attempts, outcome>>

StreamInit ==
    /\ kind = [r \in Requests |-> "unasked"]
    /\ needsStat = {}
    /\ toNacl = <<>>
    /\ busy = Nobody
    /\ start = 0
    /\ toJs = <<>>
    /\ size = [r \in Requests |-> 0]
    /\ handed = [r \in Requests |-> <<>>]
    /\ attempts = [r \in Requests |-> 0]
    /\ outcome = [r \in Requests |-> "none"]

Part(from, upto, hasMore) == [from |-> from, upto |-> upto, hasMore |-> hasMore]
Reply(r, error, part) == [id |-> r, error |-> error, part |-> part]

\* A reply without entries, of an error or of an operation that succeeded.
Nothing == Part(0, 0, FALSE)

-----------------------------------------------------------------------------
(* The arithmetic of the batches.                                          *)

Lesser(a, b) == IF a < b THEN a ELSE b

\* statAndStreamEntryMetadata: the size of the batch that starts at `from', and
\* where it ends when n entries were found.
BatchSize(from) == IF from < LargeThreshold THEN InitialBatch ELSE LargeBatch
BatchEnd(from, n) == Lesser(from + BatchSize(from), n)

\* Mutant: only a batch that is not full is the last one.
MoreAfterFull(from, upto, n) == upto = from + BatchSize(from)

\* Whether entries are left to send after a batch.
HasMore(from, upto, n) == upto # n

\* Mutant: the slices of a large batch end one entry early.
SlicesShort(part) ==
    IF part.upto - part.from <= DesiredBatch THEN <<part>>
    ELSE [i \in 1 .. (part.upto - part.from) \div DesiredBatch |->
             Part(part.from + (i - 1) * DesiredBatch, part.from + i * DesiredBatch, TRUE)]
         \o IF part.hasMore THEN <<>> ELSE <<Part(part.upto, part.upto, FALSE)>>

\* processDataFn: the calls of successFn that hand over one batch.  A batch that
\* is not larger than desired goes as it is; the slices of a larger one say that
\* there is more, and an empty one ends the listing.
Slices(part) ==
    IF part.upto - part.from <= DesiredBatch THEN <<part>>
    ELSE [i \in 1 .. (part.upto - part.from + DesiredBatch - 1) \div DesiredBatch |->
             Part(part.from + (i - 1) * DesiredBatch,
                  Lesser(part.from + i * DesiredBatch, part.upto), TRUE)]
         \o IF part.hasMore THEN <<>> ELSE <<Part(part.upto, part.upto, FALSE)>>

-----------------------------------------------------------------------------
(* The page.                                                               *)

\* A request of kind k goes to the native module.
Post(r, k, stat) ==
    /\ kind[r] = "unasked"
    /\ kind' = [kind EXCEPT ![r] = k]
    /\ needsStat' = IF stat THEN needsStat \cup {r} ELSE needsStat
    /\ toNacl' = Append(toNacl, r)
    /\ outcome' = [outcome EXCEPT ![r] = "waiting"]
    /\ UNCHANGED <<naclVars, toJs, size, handed, attempts>>

\* A reply without an error: processDataFn hands a listing's batch over, and the
\* last reply resolves the promise.
HandleReply ==
    /\ toJs # <<>>
    /\ Head(toJs).error = NoError
    /\ toJs' = Tail(toJs)
    /\ LET m == Head(toJs)
       IN /\ handed' = IF kind[m.id] = "listing"
                         THEN [handed EXCEPT ![m.id] = @ \o Slices(m.part)] ELSE handed
          /\ outcome' = IF m.part.hasMore THEN outcome ELSE [outcome EXCEPT ![m.id] = "ok"]
    /\ UNCHANGED <<kind, needsStat, toNacl, naclVars, size, attempts>>

\* Mutant: the internal error is passed on.
ErrorAsIs(r, error) == error

\* What the Files app is told of an error: readDirectoryHandler always says
\* FAILED, and retryFn turns the internal error into it.
ErrorTold(r, error) ==
    IF kind[r] = "listing" \/ error = "SHOULD_RETRY" THEN "FAILED" ELSE error

\* retryFn sends the message again, or the promise is rejected.
HandleError ==
    /\ toJs # <<>>
    /\ Head(toJs).error # NoError
    /\ toJs' = Tail(toJs)
    /\ LET m == Head(toJs)
       IN /\ attempts' = [attempts EXCEPT ![m.id] = @ + 1]
          /\ IF m.error = "SHOULD_RETRY" /\ attempts[m.id] + 1 < AttemptCount
               THEN toNacl' = Append(toNacl, m.id) /\ UNCHANGED outcome
               ELSE /\ outcome' = [outcome EXCEPT ![m.id] = ErrorTold(m.id, m.error)]
                    /\ UNCHANGED toNacl
    /\ UNCHANGED <<kind, needsStat, naclVars, size, handed>>

-----------------------------------------------------------------------------
(* The native module.                                                      *)

Take ==
    /\ busy = Nobody
    /\ toNacl # <<>>
    /\ busy' = Head(toNacl)
    /\ toNacl' = Tail(toNacl)
    /\ UNCHANGED <<kind, needsStat, start, toJs, size, handed, attempts, outcome>>

\* Reading the listing that NaCl serves has failed, or the operation has.
Fail(error) ==
    /\ busy # Nobody
    /\ start = 0
    /\ toJs' = Append(toJs, Reply(busy, error, Nothing))
    /\ busy' = Nobody
    /\ UNCHANGED <<kind, needsStat, toNacl, start, size, handed, attempts, outcome>>

\* An operation that is no listing has succeeded.
Succeed ==
    /\ busy # Nobody
    /\ kind[busy] = "other"
    /\ toJs' = Append(toJs, Reply(busy, NoError, Nothing))
    /\ busy' = Nobody
    /\ UNCHANGED <<kind, needsStat, toNacl, start, size, handed, attempts, outcome>>

\* readDirectory found n entries and answers at once, for there are none or
\* they need no stat().
AnswerAtOnce(n) ==
    /\ busy # Nobody
    /\ kind[busy] = "listing"
    /\ start = 0
    /\ n = 0 \/ busy \notin needsStat
    /\ size' = [size EXCEPT ![busy] = n]
    /\ toJs' = Append(toJs, Reply(busy, NoError, Part(0, n, FALSE)))
    /\ busy' = Nobody
    /\ UNCHANGED <<kind, needsStat, toNacl, start, handed, attempts, outcome>>

\* A batch of the listing has been stat()ed: it is sent, and the next one starts
\* behind it.
SendBatch(n) ==
    LET upto == BatchEnd(start, n)
    IN /\ toJs' = Append(toJs, Reply(busy, NoError, Part(start, upto, HasMore(start, upto, n))))
       /\ IF upto # n THEN start' = upto /\ UNCHANGED busy
                      ELSE start' = 0 /\ busy' = Nobody
       /\ UNCHANGED <<kind, needsStat, toNacl, handed, attempts, outcome>>

\* readDirectory found n entries and streams them: the first batch.
StreamFirst(n) ==
    /\ busy # Nobody
    /\ kind[busy] = "listing"
    /\ start = 0
    /\ n # 0 /\ busy \in needsStat
    /\ size' = [size EXCEPT ![busy] = n]
    /\ SendBatch(n)

StreamNext ==
    /\ busy # Nobody
    /\ start # 0
    /\ SendBatch(size[busy])
    /\ UNCHANGED size

-----------------------------------------------------------------------------
NextOfStream ==
    \/ \E r \in Requests, k \in {"listing", "other"}, stat \in BOOLEAN : Post(r, k, stat)
    \/ HandleReply
    \/ HandleError
    \/ Take
    \/ \E error \in NaclErrors : Fail(error)
    \/ Succeed
    \/ \E n \in Nat : AnswerAtOnce(n) \/ StreamFirst(n)
    \/ StreamNext

StreamSpec == StreamInit /\ [][NextOfStream]_streamVars
-----------------------------------------------------------------------------
(* Properties.                                                             *)

Parts == [from: Nat, upto: Nat, hasMore: BOOLEAN]

StreamTypeOK ==
    /\ kind \in [Requests -> {"unasked", "listing", "other"}]
    /\ needsStat \subseteq Requests
    /\ toNacl \in Seq(Requests)
    /\ busy \in Requests \cup {Nobody}
    /\ start \in Nat
    /\ toJs \in Seq([id: Requests, error: NaclErrors \cup {NoError}, part: Parts])
    /\ size \in [Requests -> Nat]
    /\ handed \in [Requests -> Seq(Parts)]
    /\ attempts \in [Requests -> Nat]
    /\ outcome \in [Requests -> {"none", "waiting", "ok"} \cup Errors]

\* The parts of s hold the entries after the first a up to the first b: each
\* begins where the one before it ended, and none goes backwards.
Chain(s, a, b) ==
    /\ s = <<>> => a = b
    /\ s # <<>> => s[1].from = a /\ s[Len(s)].upto = b
    /\ \A i \in 1..Len(s) : s[i].from <= s[i].upto
    /\ \A i \in 1 .. Len(s) - 1 : s[i].upto = s[i + 1].from

HandedUpto(r) == IF handed[r] = <<>> THEN 0 ELSE handed[r][Len(handed[r])].upto

\* What the Files app is handed of a directory are its entries, in order, each
\* once: nothing is left out, repeated or handed over after the call that says
\* there is no more, whatever the sizes of the batches and of the slices and
\* however often reading the directory was retried.  A listing that succeeded
\* has handed over all of them and said so, one that failed has handed over none;
\* and no call has more entries than the Files app desires.
ListingExact ==
    \A r \in Requests : kind[r] = "listing" =>
        /\ Chain(handed[r], 0, HandedUpto(r))
        /\ \A i \in 1 .. Len(handed[r]) - 1 : handed[r][i].hasMore
        /\ \A i \in 1 .. Len(handed[r]) :
              handed[r][i].upto - handed[r][i].from <= DesiredBatch
        /\ outcome[r] = "ok" <=> handed[r] # <<>> /\ ~handed[r][Len(handed[r])].hasMore
        /\ outcome[r] = "ok" => HandedUpto(r) = size[r]
        /\ outcome[r] \in Errors => handed[r] = <<>>
=============================================================================
