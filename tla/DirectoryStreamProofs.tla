------------------------ MODULE DirectoryStreamProofs ------------------------
(***************************************************************************)
(* Proofs about DirectoryStream for listings of any length, any sizes of   *)
(* the batches and of the slices, and any number of requests and attempts. *)
(***************************************************************************)
EXTENDS DirectoryStream, Queues

-----------------------------------------------------------------------------
(* Sequences.                                                              *)

LEMMA FunctionIsSeq ==
    ASSUME NEW S, NEW n \in Nat, NEW f \in [1..n -> S]
    PROVE  f \in Seq(S) /\ Len(f) = n /\ (n # 0 => f # <<>>)
  OBVIOUS

-----------------------------------------------------------------------------
(* Batches and slices.                                                     *)

LEMMA Sizes ==
    /\ AttemptCount \in Nat \ {0} /\ DesiredBatch \in Nat \ {0} /\ Nobody \notin Requests
    /\ \A from \in Nat : BatchSize(from) \in Nat \ {0}
  BY StreamAssumption DEF BatchSize

LEMMA ProductMonotonic ==
    ASSUME NEW d \in Nat, NEW i \in Int, NEW j \in Int, i <= j
    PROVE  i * d <= j * d
  OBVIOUS

\* The entries from f up to u make q slices of d.
Cut(f, u, d, q) == q > 1 /\ (q - 1) * d < u - f /\ u - f <= q * d

LEMMA Quotient ==
    ASSUME NEW f \in Nat, NEW u \in Nat, NEW d \in Nat \ {0}, u - f > d
    PROVE  LET q == (u - f + d - 1) \div d
           IN q \in Nat /\ Cut(f, u, d, q)
  BY DEF Cut

\* Where slice i of the entries from f up to u begins and ends, if slices have d.
Begin(f, d, i) == f + (i - 1) * d
End(f, u, d, i) == Lesser(f + i * d, u)

LEMMA CutPoints ==
    ASSUME NEW f \in Nat, NEW u \in Nat, NEW d \in Nat \ {0}, NEW q \in Nat, Cut(f, u, d, q)
    PROVE  /\ Begin(f, d, 1) = f /\ End(f, u, d, q) = u
           /\ \A i \in 1..q :
                 /\ Begin(f, d, i) \in Nat /\ End(f, u, d, i) \in Nat
                 /\ Begin(f, d, i) <= End(f, u, d, i)
                 /\ End(f, u, d, i) - Begin(f, d, i) <= d
                 /\ i < q => End(f, u, d, i) = Begin(f, d, i + 1)
  <1>. USE DEF Cut
  <1>1. Begin(f, d, 1) = f
    BY DEF Begin
  <1>2. End(f, u, d, q) = u
    <2>1. q * d \in Int
      OBVIOUS
    <2>. QED  BY <2>1 DEF End, Lesser
  <1>3. ASSUME NEW i \in 1..q
        PROVE  /\ Begin(f, d, i) \in Nat /\ End(f, u, d, i) \in Nat
               /\ Begin(f, d, i) <= End(f, u, d, i)
               /\ End(f, u, d, i) - Begin(f, d, i) <= d
               /\ i < q => End(f, u, d, i) = Begin(f, d, i + 1)
    <2>. DEFINE a == (i - 1) * d
                b == i * d
                c == (q - 1) * d
    <2>1. a \in Int /\ b \in Int /\ c \in Int /\ b = a + d
      OBVIOUS
    <2>2. 0 * d <= a /\ a <= c
      BY ProductMonotonic
    <2>3. i < q => b <= c
      BY ProductMonotonic
    <2>4. c < u - f /\ Begin(f, d, i) = f + a /\ End(f, u, d, i) = Lesser(f + b, u)
          /\ Begin(f, d, i + 1) = f + b
      BY DEF Begin, End
    <2>. HIDE DEF a, b, c
    <2>5. a >= 0
      BY <2>1, <2>2
    <2>. QED  BY <2>1, <2>2, <2>3, <2>4, <2>5 DEF Lesser
  <1>. QED  BY <1>1, <1>2, <1>3

\* What successFn is called with for a batch from f up to u: parts of it without a
\* gap, none larger than d, all but the last of which say that there is more.
SlicesOf(s, f, u, more, d) ==
    /\ s \in Seq(Parts) /\ s # <<>>
    /\ Chain(s, f, u)
    /\ \A i \in 1 .. Len(s) - 1 : s[i].hasMore
    /\ s[Len(s)].hasMore = more
    /\ \A i \in 1 .. Len(s) : s[i].upto - s[i].from <= d

LEMMA PartFields ==
    ASSUME NEW f \in Nat, NEW u \in Nat, NEW more \in BOOLEAN
    PROVE  /\ Part(f, u, more) \in Parts /\ Part(f, u, more).from = f
           /\ Part(f, u, more).upto = u /\ Part(f, u, more).hasMore = more
  BY DEF Part, Parts

\* The slices of a large batch but for the empty one that ends a listing.
LEMMA CutIsChain ==
    ASSUME NEW f \in Nat, NEW u \in Nat, NEW d \in Nat \ {0}, NEW q \in Nat, Cut(f, u, d, q),
           NEW cut,
           cut = [i \in 1..q |-> Part(Begin(f, d, i), End(f, u, d, i), TRUE)]
    PROVE  SlicesOf(cut, f, u, TRUE, d) /\ Len(cut) = q
  <1>1. /\ Begin(f, d, 1) = f /\ End(f, u, d, q) = u
        /\ \A i \in 1..q :
              /\ Begin(f, d, i) \in Nat /\ End(f, u, d, i) \in Nat
              /\ Begin(f, d, i) <= End(f, u, d, i)
              /\ End(f, u, d, i) - Begin(f, d, i) <= d
              /\ i < q => End(f, u, d, i) = Begin(f, d, i + 1)
    BY CutPoints
  <1>2. q > 1
    BY DEF Cut
  <1>3. \A i \in 1..q : /\ cut[i] \in Parts /\ cut[i].hasMore = TRUE
                        /\ cut[i].from = Begin(f, d, i)
                        /\ cut[i].upto = End(f, u, d, i)
    BY ZenonT(30), <1>1, PartFields
  <1>4. cut \in [1..q -> Parts]
    BY <1>3
  <1>5. cut \in Seq(Parts) /\ Len(cut) = q /\ cut # <<>>
    <2>1. q # 0
      BY <1>2
    <2>. QED  BY <1>4, <2>1, FunctionIsSeq
  <1>6. /\ cut # <<>> /\ cut[1].from = f /\ cut[q].upto = u /\ cut[q].hasMore = TRUE
        /\ \A i \in 1 .. q - 1 : cut[i].hasMore
    <2>1. 1 \in 1..q /\ q \in 1..q /\ \A i \in 1 .. q - 1 : i \in 1..q
      BY <1>2
    <2>. QED  BY <1>1, <1>3, <1>5, <2>1
  <1>7. \A i \in 1..q : cut[i].from <= cut[i].upto /\ cut[i].upto - cut[i].from <= d
    BY <1>1, <1>3
  <1>8. \A i \in 1 .. q - 1 : cut[i].upto = cut[i + 1].from
    <2>. SUFFICES ASSUME NEW i \in 1 .. q - 1 PROVE cut[i].upto = cut[i + 1].from
      OBVIOUS
    <2>1. i \in 1..q /\ i + 1 \in 1..q /\ i < q
      OBVIOUS
    <2>. QED  BY <1>1, <1>3, <2>1
  <1>9. Chain(cut, f, u)
    BY <1>5, <1>6, <1>7, <1>8 DEF Chain
  <1>. QED  BY <1>2, <1>5, <1>6, <1>7, <1>9 DEF SlicesOf

\* A chain that ends at u goes on with one empty part there.
LEMMA EndIsChain ==
    ASSUME NEW f \in Nat, NEW u \in Nat, NEW d \in Nat \ {0},
           NEW cut, SlicesOf(cut, f, u, TRUE, d),
           NEW x \in Parts, x.from = u, x.upto = u, x.hasMore = FALSE,
           NEW s, s = Append(cut, x), NEW q, q = Len(cut)
    PROVE  SlicesOf(s, f, u, FALSE, d)
  <1>1. cut \in Seq(Parts) /\ cut # <<>> /\ q \in Nat \ {0}
    BY DEF SlicesOf
  <1>2. /\ \A i \in 1..q : /\ cut[i].from <= cut[i].upto /\ cut[i].hasMore
                           /\ cut[i].upto - cut[i].from <= d
        /\ \A i \in 1 .. q - 1 : cut[i].upto = cut[i + 1].from
        /\ cut[1].from = f /\ cut[q].upto = u
    <2>1. \A i \in 1..q : i \in 1 .. q - 1 \/ i = q
      BY <1>1
    <2>. QED  BY <1>1, <2>1 DEF SlicesOf, Chain
  <1>4. /\ s \in Seq(Parts) /\ Len(s) = q + 1 /\ s # <<>>
        /\ \A i \in 1..q : s[i] = cut[i]
        /\ s[q + 1] = x
        /\ \A i \in 1 .. q + 1 : i \in 1..q \/ i = q + 1
    BY <1>1, AppendExtends
  <1>5. 1 \in 1..q /\ q \in 1..q
    BY <1>1
  <1>6. s[1].from = f /\ s[q + 1].upto = u /\ s[q + 1].hasMore = FALSE
    BY <1>2, <1>4, <1>5
  <1>7. \A i \in 1 .. q + 1 : s[i].from <= s[i].upto /\ s[i].upto - s[i].from <= d
    BY <1>2, <1>4
  <1>8. ASSUME NEW i \in 1 .. q PROVE s[i].upto = s[i + 1].from /\ s[i].hasMore
    <2>1. CASE i = q
      BY <1>2, <1>4, <1>5, <2>1
    <2>2. CASE i # q
      <3>1. i \in 1 .. q - 1 /\ i + 1 \in 1..q
        BY <1>1, <2>2
      <3>. QED  BY <1>2, <1>4, <3>1
    <2>. QED  BY <2>1, <2>2
  <1>9. Len(s) = q + 1 /\ Len(s) - 1 = q
    BY <1>1, <1>4
  <1>. QED  BY <1>4, <1>6, <1>7, <1>8, <1>9 DEF SlicesOf, Chain

LEMMA SlicesExact ==
    ASSUME NEW f \in Nat, NEW u \in Nat, NEW more \in BOOLEAN, f <= u
    PROVE  SlicesOf(Slices(Part(f, u, more)), f, u, more, DesiredBatch)
  <1>1. CASE u - f <= DesiredBatch
    <2>1. Slices(Part(f, u, more)) = <<Part(f, u, more)>>
      BY <1>1, PartFields DEF Slices
    <2>. QED  BY SMTT(30), <1>1, <2>1, PartFields, Sizes DEF SlicesOf, Chain
  <1>2. CASE ~(u - f <= DesiredBatch)
    <2>. DEFINE q == (u - f + DesiredBatch - 1) \div DesiredBatch
                cut == [i \in 1..q |-> Part(Begin(f, DesiredBatch, i),
                                            End(f, u, DesiredBatch, i), TRUE)]
    <2>1. Slices(Part(f, u, more)) = cut \o IF more THEN <<>> ELSE <<Part(u, u, FALSE)>>
      BY <1>2, PartFields DEF Slices, Begin, End
    <2>2. u - f > DesiredBatch
      BY <1>2, Sizes
    <2>3. q \in Nat /\ Cut(f, u, DesiredBatch, q)
      BY <2>2, Sizes, Quotient
    <2>. HIDE DEF q
    <2>4. SlicesOf(cut, f, u, TRUE, DesiredBatch)
      <3>. DEFINE d == DesiredBatch
      <3>1. d \in Nat \ {0} /\ Cut(f, u, d, q) /\ q \in Nat
        BY <2>3, Sizes
      <3>2. cut = [i \in 1..q |-> Part(Begin(f, d, i), End(f, u, d, i), TRUE)]
        OBVIOUS
      <3>. HIDE DEF d, cut
      <3>3. SlicesOf(cut, f, u, TRUE, d)
        BY <3>1, <3>2, CutIsChain
      <3>. QED  BY <3>3 DEF d
    <2>. HIDE DEF cut
    <2>5. CASE more
      <3>1. Slices(Part(f, u, more)) = cut
        BY <2>1, <2>4, <2>5 DEF SlicesOf
      <3>. QED  BY <2>4, <2>5, <3>1
    <2>6. CASE ~more
      <3>. DEFINE x == Part(u, u, FALSE)
      <3>1. Slices(Part(f, u, more)) = cut \o <<x>> /\ more = FALSE
        BY <2>1, <2>6
      <3>2. x \in Parts /\ x.from = u /\ x.upto = u /\ x.hasMore = FALSE
        BY PartFields
      <3>. HIDE DEF x
      <3>3. cut \in Seq(Parts)
        BY <2>4 DEF SlicesOf
      <3>4. cut \o <<x>> = Append(cut, x)
        BY <3>2, <3>3
      <3>. DEFINE d == DesiredBatch
      <3>5. d \in Nat \ {0} /\ SlicesOf(cut, f, u, TRUE, d)
        BY <2>4, Sizes
      <3>. HIDE DEF d
      <3>6. SlicesOf(Append(cut, x), f, u, FALSE, d)
        BY <3>2, <3>5, EndIsChain
      <3>. QED  BY <3>1, <3>4, <3>6 DEF d
    <2>. QED  BY <2>5, <2>6
  <1>. QED  BY <1>1, <1>2

\* What was handed over of a listing that goes on, and the slices of its next batch.
LEMMA SlicesJoin ==
    ASSUME NEW h, NEW a \in Nat, NEW u \in Nat, NEW d \in Nat \ {0}, NEW more \in BOOLEAN,
           \/ h = <<>> /\ a = 0
           \/ SlicesOf(h, 0, a, TRUE, d),
           NEW t, SlicesOf(t, a, u, more, d),
           NEW s, s = h \o t
    PROVE  SlicesOf(s, 0, u, more, d)
  <1>1. CASE h = <<>> /\ a = 0
    <2>1. t \in Seq(Parts)
      BY DEF SlicesOf
    <2>2. s = t
      BY <1>1, <2>1
    <2>. QED  BY <1>1, <2>2
  <1>2. CASE SlicesOf(h, 0, a, TRUE, d)
    <2>. DEFINE q == Len(h)
                p == Len(t)
    <2>1. h \in Seq(Parts) /\ t \in Seq(Parts) /\ h # <<>> /\ t # <<>>
          /\ q \in Nat \ {0} /\ p \in Nat \ {0}
      BY <1>2 DEF SlicesOf
    <2>2. /\ \A i \in 1..q : h[i].from <= h[i].upto /\ h[i].upto - h[i].from <= d
          /\ \A i \in 1..q : h[i].hasMore
          /\ \A i \in 1 .. q - 1 : h[i].upto = h[i + 1].from
          /\ h[1].from = 0 /\ h[q].upto = a
      <3>1. \A i \in 1..q : i \in 1 .. q - 1 \/ i = q
        BY <2>1
      <3>. QED  BY <1>2, <2>1, <3>1 DEF SlicesOf, Chain
    <2>3. /\ \A i \in 1..p : t[i].from <= t[i].upto /\ t[i].upto - t[i].from <= d
          /\ \A i \in 1 .. p - 1 : t[i].upto = t[i + 1].from /\ t[i].hasMore
          /\ t[1].from = a /\ t[p].upto = u /\ t[p].hasMore = more
      BY <2>1 DEF SlicesOf, Chain
    <2>4. /\ s \in Seq(Parts) /\ Len(s) = q + p
          /\ \A i \in 1..q : s[i] = h[i]
          /\ \A i \in 1..p : s[q + i] = t[i]
          /\ \A i \in 1 .. q + p : i \in 1..q \/ i - q \in 1..p
      BY <2>1, ConcatJoins
    <2>. HIDE DEF q, p
    <2>5. s # <<>> /\ 1 \in 1..q /\ q \in 1..q /\ 1 \in 1..p /\ p \in 1..p
      BY <2>1, <2>4
    <2>6. s[1].from = 0 /\ s[q + p].upto = u /\ s[q + p].hasMore = more
      BY <2>2, <2>3, <2>4, <2>5
    <2>7. ASSUME NEW i \in 1 .. q + p
          PROVE  s[i].from <= s[i].upto /\ s[i].upto - s[i].from <= d
      <3>1. CASE i \in 1..q
        BY <2>2, <2>4, <3>1
      <3>2. CASE i - q \in 1..p
        <4>1. s[i] = t[i - q]
          <5>1. i = q + (i - q)
            BY <2>1
          <5>. QED  BY <2>4, <3>2, <5>1
        <4>. QED  BY <2>3, <3>2, <4>1
      <3>. QED  BY <2>4, <3>1, <3>2
    <2>8. ASSUME NEW i \in 1 .. q + p - 1
          PROVE  s[i].upto = s[i + 1].from /\ s[i].hasMore
      <3>1. CASE i < q
        <4>1. i \in 1..q /\ i \in 1 .. q - 1 /\ i + 1 \in 1..q
          BY <2>1, <3>1
        <4>. QED  BY <2>2, <2>4, <4>1
      <3>2. CASE i = q
        BY <2>2, <2>3, <2>4, <2>5, <3>2
      <3>3. CASE i > q
        <4>1. i - q \in 1 .. p - 1 /\ i - q \in 1..p /\ i - q + 1 \in 1..p
              /\ i = q + (i - q) /\ i + 1 = q + (i - q + 1)
          BY <2>1, <3>3
        <4>2. s[i] = t[i - q] /\ s[i + 1] = t[i - q + 1]
          BY <2>4, <4>1
        <4>. QED  BY <2>3, <4>1, <4>2
      <3>4. i < q \/ i = q \/ i > q
        BY <2>1
      <3>. QED  BY <3>1, <3>2, <3>3, <3>4
    <2>9. Len(s) = q + p /\ Len(s) - 1 = q + p - 1
      BY <2>1, <2>4
    <2>. QED  BY <2>4, <2>5, <2>6, <2>7, <2>8, <2>9 DEF SlicesOf, Chain
  <1>. QED  BY <1>1, <1>2

LEMMA BatchBounds ==
    ASSUME NEW from \in Nat, NEW n \in Nat, from <= n, from < n \/ from = 0
    PROVE  LET upto == BatchEnd(from, n)
           IN /\ upto \in Nat /\ from <= upto /\ upto <= n
              /\ n # 0 /\ upto # n => upto # 0 /\ upto < n
              /\ HasMore(from, upto, n) = (upto # n)
  BY Sizes DEF BatchEnd, Lesser, HasMore

-----------------------------------------------------------------------------
(* The invariant.  The replies on their way are read from the oldest on.   *)

Waiting(r) == outcome[r] = "waiting"

\* A request in the queue of NaCl waits, once, and nothing of it was handed over.
Queued ==
    \A k \in 1..Len(toNacl) :
        /\ Waiting(toNacl[k]) /\ handed[toNacl[k]] = <<>> /\ toNacl[k] # busy
        /\ \A j \in 1 .. k - 1 : toNacl[j] # toNacl[k]

\* So does the one that is served, and until it is streamed no reply is on its way.
Serving ==
    /\ busy = Nobody => start = 0
    /\ busy # Nobody => Waiting(busy)
    /\ busy # Nobody /\ start = 0 =>
          handed[busy] = <<>> /\ \A i \in 1..Len(toJs) : toJs[i].id # busy

\* A listing is streamed while its last batch said that there is more; the next one
\* starts where that one ended.
Streaming ==
    /\ start # 0 => busy # Nobody /\ kind[busy] = "listing" /\ start < size[busy]
    /\ start # 0 /\ toJs = <<>> => HandedUpto(busy) = start
    /\ start # 0 /\ toJs # <<>> => /\ toJs[Len(toJs)].id = busy
                                   /\ toJs[Len(toJs)].part.hasMore
                                   /\ toJs[Len(toJs)].part.upto = start
    /\ toJs # <<>> /\ toJs[Len(toJs)].part.hasMore => start # 0

ReplyOk(m) ==
    /\ Waiting(m.id)
    /\ \A k \in 1..Len(toNacl) : toNacl[k] # m.id
    /\ m.part.from <= m.part.upto
    /\ m.part.hasMore => m.error = NoError /\ kind[m.id] = "listing"
    /\ ~m.part.hasMore => m.id # busy
    /\ m.error # NoError => handed[m.id] = <<>>
    /\ m.error = NoError /\ kind[m.id] = "listing" /\ ~m.part.hasMore =>
          m.part.upto = size[m.id]

Replies == \A i \in 1..Len(toJs) : ReplyOk(toJs[i])

\* Nothing of a request comes after its last reply, and no error after a batch.
Order ==
    \A i, j \in 1..Len(toJs) :
        i < j /\ toJs[i].id = toJs[j].id => toJs[i].part.hasMore /\ toJs[j].error = NoError

\* A batch that is not the last is followed by the next one of its listing.
Links ==
    \A i \in 1 .. Len(toJs) - 1 :
        toJs[i].part.hasMore => /\ toJs[i + 1].id = toJs[i].id
                                /\ toJs[i + 1].part.from = toJs[i].part.upto

\* The first batch of a listing on its way starts where what was handed over ends.
Starts ==
    \A i \in 1..Len(toJs) :
        (/\ toJs[i].error = NoError
         /\ kind[toJs[i].id] = "listing"
         /\ \A j \in 1 .. i - 1 : toJs[j].id # toJs[i].id)
            => toJs[i].part.from = HandedUpto(toJs[i].id)

\* What was handed over of a listing is its beginning, and all of it once it ended.
Handing ==
    \A r \in Requests :
        /\ handed[r] # <<>> =>
              /\ kind[r] = "listing"
              /\ SlicesOf(handed[r], 0, HandedUpto(r), outcome[r] # "ok", DesiredBatch)
        /\ outcome[r] \in Errors => handed[r] = <<>>
        /\ outcome[r] = "ok" /\ kind[r] = "listing" =>
              handed[r] # <<>> /\ HandedUpto(r) = size[r]

Unasked == \A r \in Requests : kind[r] = "unasked" => outcome[r] = "none" /\ handed[r] = <<>>

IInv ==
    /\ StreamTypeOK /\ Queued /\ Serving /\ Streaming /\ Replies
    /\ Order /\ Links /\ Starts /\ Handing /\ Unasked

Message == [id: Requests, error: NaclErrors \cup {NoError}, part: Parts]

LEMMA InitInv == StreamInit => IInv
  <1>. SUFFICES ASSUME StreamInit PROVE IInv
    OBVIOUS
  <1>. USE DEF StreamInit
  <1>1. StreamTypeOK
    BY Sizes DEF StreamTypeOK
  <1>2. Len(toNacl) = 0 /\ Len(toJs) = 0
    OBVIOUS
  <1>3. Queued /\ Serving /\ Streaming /\ Replies /\ Order /\ Links /\ Starts
    BY <1>2 DEF Queued, Serving, Streaming, Replies, Order, Links, Starts
  <1>4. Handing /\ Unasked
    BY DEF Handing, Unasked, Errors
  <1>. QED  BY <1>1, <1>3, <1>4 DEF IInv

-----------------------------------------------------------------------------
(* The steps of the native module: taking a request, and a reply m to it.  *)

LEMMA TakeKeeps ==
    ASSUME IInv, Take
    PROVE  IInv'
  <1>. USE DEF Take
  <1>1. StreamTypeOK'
    BY TailShifts DEF IInv, StreamTypeOK, naclVars
  <1>2. /\ busy' = toNacl[1] /\ busy' \in Requests /\ busy' # Nobody /\ 1 \in 1..Len(toNacl)
        /\ Len(toNacl') = Len(toNacl) - 1 /\ Len(toNacl) \in Nat
        /\ \A k \in 1..Len(toNacl') : k + 1 \in 1..Len(toNacl) /\ toNacl'[k] = toNacl[k + 1]
    <2>1. toNacl \in Seq(Requests) /\ toNacl # <<>> /\ toNacl' = Tail(toNacl)
      BY DEF IInv, StreamTypeOK
    <2>2. /\ Len(toNacl') = Len(toNacl) - 1 /\ Len(toNacl) \in Nat \ {0}
          /\ \A k \in 1..Len(toNacl') : k + 1 \in 1..Len(toNacl) /\ toNacl'[k] = toNacl[k + 1]
          /\ Head(toNacl) = toNacl[1] /\ Head(toNacl) \in Requests
      BY <2>1, TailShifts
    <2>. QED  BY <2>2, Sizes
  <1>3. start = 0 /\ (toJs # <<>> => ~toJs[Len(toJs)].part.hasMore)
    BY DEF IInv, Serving, Streaming
  <1>4. Waiting(busy') /\ handed[busy'] = <<>>
    BY <1>2 DEF IInv, Queued
  <1>5. \A i \in 1..Len(toJs) : toJs[i].id # busy'
    BY <1>2 DEF IInv, Replies, ReplyOk
  <1>6. Queued'
    <2>. SUFFICES ASSUME NEW k \in 1..Len(toNacl')
                  PROVE  /\ Waiting(toNacl'[k]) /\ handed[toNacl'[k]] = <<>>
                         /\ toNacl'[k] # busy'
                         /\ \A j \in 1 .. k - 1 : toNacl'[j] # toNacl'[k]
      BY DEF Queued, Waiting
    <2>1. k + 1 \in 1..Len(toNacl) /\ toNacl'[k] = toNacl[k + 1] /\ 1 \in 1 .. (k + 1) - 1
      BY <1>2
    <2>2. /\ Waiting(toNacl[k + 1]) /\ handed[toNacl[k + 1]] = <<>>
          /\ \A j \in 1 .. (k + 1) - 1 : toNacl[j] # toNacl[k + 1]
      BY <2>1 DEF IInv, Queued
    <2>3. ASSUME NEW j \in 1 .. k - 1 PROVE toNacl'[j] # toNacl'[k]
      <3>1. j \in 1..Len(toNacl') /\ j + 1 \in 1 .. (k + 1) - 1
        BY <1>2
      <3>. QED  BY <1>2, <2>1, <2>2, <3>1
    <2>. QED  BY <1>2, <2>1, <2>2, <2>3 DEF Waiting
  <1>7. Serving'
    BY <1>2, <1>3, <1>4, <1>5 DEF Serving, Waiting
  <1>8. Streaming'
    BY <1>2, <1>3 DEF Streaming
  <1>9. Replies'
    <2>. SUFFICES ASSUME NEW i \in 1..Len(toJs) PROVE ReplyOk(toJs[i])'
      BY DEF Replies
    <2>1. ReplyOk(toJs[i])
      BY DEF IInv, Replies
    <2>. QED  BY <1>2, <1>5, <2>1 DEF ReplyOk, Waiting
  <1>10. Order' /\ Links' /\ Starts'
    BY DEF IInv, Order, Links, Starts, HandedUpto
  <1>11. Handing' /\ Unasked'
    BY DEF IInv, Handing, Unasked, HandedUpto
  <1>. QED  BY <1>1, <1>6, <1>7, <1>8, <1>9, <1>10, <1>11 DEF IInv

\* What all replies have in common: they begin where the streaming is, and only a
\* batch that is not the last leaves the request with the module.
Answer(m) ==
    /\ busy # Nobody /\ m.id = busy /\ m.part.from = start /\ start <= m.part.upto
    /\ toJs' = Append(toJs, m)
    /\ m.error # NoError => start = 0 /\ ~m.part.hasMore
    /\ m.part.hasMore => /\ kind[busy] = "listing" /\ m.part.upto # 0
                         /\ m.part.upto < size'[busy]
                         /\ busy' = busy /\ start' = m.part.upto
    /\ ~m.part.hasMore => busy' = Nobody /\ start' = 0
    /\ ~m.part.hasMore /\ m.error = NoError /\ kind[busy] = "listing" =>
          m.part.upto = size'[busy]
    /\ size' \in [Requests -> Nat]
    /\ \A r \in Requests : r # busy => size'[r] = size[r]
    /\ UNCHANGED <<kind, needsStat, toNacl, handed, attempts, outcome>>

LEMMA AnswerKeeps ==
    ASSUME IInv, NEW m \in Message, Answer(m)
    PROVE  IInv'
  <1>. USE DEF Answer
  <1>. DEFINE n == Len(toJs)
  <1>1. /\ toJs' \in Seq(Message) /\ Len(toJs') = n + 1 /\ n \in Nat /\ toJs' # <<>>
        /\ \A i \in 1..n : toJs'[i] = toJs[i]
        /\ toJs'[n + 1] = m
        /\ \A i \in 1 .. n + 1 : i \in 1..n \/ i = n + 1
        /\ toJs \in Seq(Message)
    <2>1. toJs \in Seq(Message) /\ toJs' = Append(toJs, m)
      BY DEF IInv, StreamTypeOK, Message
    <2>. QED  BY <2>1, AppendExtends
  <1>. HIDE DEF n
  <1>2. /\ m.part.from \in Nat /\ m.part.upto \in Nat /\ m.part.hasMore \in BOOLEAN
        /\ start \in Nat /\ busy \in Requests /\ m.error \in NaclErrors \cup {NoError}
    BY DEF Message, Parts, IInv, StreamTypeOK
  <1>3. StreamTypeOK'
    BY <1>1, <1>2 DEF IInv, StreamTypeOK, Message
  <1>4. Waiting(busy) /\ \A k \in 1..Len(toNacl) : toNacl[k] # busy
    BY DEF IInv, Serving, Queued
  <1>5. start = 0 => handed[busy] = <<>> /\ \A i \in 1..n : toJs[i].id # busy
    BY DEF IInv, Serving, n
  <1>6. /\ start # 0 => kind[busy] = "listing"
        /\ start # 0 /\ toJs = <<>> => HandedUpto(busy) = start
        /\ start # 0 /\ toJs # <<>> =>
              toJs[n].id = busy /\ toJs[n].part.hasMore /\ toJs[n].part.upto = start
        /\ toJs # <<>> /\ toJs[n].part.hasMore => start # 0
    BY DEF IInv, Streaming, n
  <1>7. \A i \in 1..n : ReplyOk(toJs[i]) /\ toJs[i] \in Message /\ toJs[i].id \in Requests
    <2>. SUFFICES ASSUME NEW i \in 1..n
                  PROVE  ReplyOk(toJs[i]) /\ toJs[i] \in Message /\ toJs[i].id \in Requests
      OBVIOUS
    <2>1. ReplyOk(toJs[i])
      BY DEF IInv, Replies, n
    <2>2. toJs[i] \in Message
      BY <1>1 DEF n
    <2>. QED  BY <2>1, <2>2 DEF Message
  <1>8. toJs # <<>> => n \in 1..n
    BY <1>1 DEF n
  <1>9. busy' \in {busy, Nobody} /\ \A r \in Requests : r # busy => r # busy'
    BY <1>2, Sizes
  <1>10. Queued'
    <2>. SUFFICES ASSUME NEW k \in 1..Len(toNacl)
                  PROVE  /\ Waiting(toNacl[k]) /\ handed[toNacl[k]] = <<>>
                         /\ toNacl[k] # busy'
                         /\ \A j \in 1 .. k - 1 : toNacl[j] # toNacl[k]
      BY DEF Queued, Waiting
    <2>1. toNacl[k] \in Requests
      BY DEF IInv, StreamTypeOK
    <2>. QED  BY <1>4, <1>9, <2>1 DEF IInv, Queued
  <1>11. Serving'
    BY <1>4, <1>9 DEF Serving, Waiting
  <1>12. Streaming'
    <2>1. toJs'[Len(toJs')] = m /\ toJs' # <<>>
      BY <1>1
    <2>. QED  BY <1>2, <2>1 DEF Streaming
  <1>13. Replies'
    <2>1. ASSUME NEW i \in 1..n PROVE ReplyOk(toJs[i])'
      <3>1. toJs'[i] = toJs[i] /\ ReplyOk(toJs[i]) /\ toJs[i].id \in Requests
        BY <1>1, <1>7
      <3>. QED  BY <1>9, <3>1 DEF ReplyOk, Waiting
    <2>2. ReplyOk(toJs[Len(toJs)])'
      <3>1. toJs'[Len(toJs')] = m /\ m.id = busy
        BY <1>1
      <3>2. /\ m.part.from <= m.part.upto
            /\ m.part.hasMore => m.error = NoError /\ kind[m.id] = "listing"
            /\ ~m.part.hasMore => m.id # busy'
            /\ m.error # NoError => handed[m.id] = <<>>
            /\ m.error = NoError /\ kind[m.id] = "listing" /\ ~m.part.hasMore =>
                  m.part.upto = size'[m.id]
        BY <1>2, <1>5, Sizes
      <3>. QED  BY <1>4, <3>1, <3>2 DEF ReplyOk, Waiting
    <2>3. \A i \in 1 .. Len(toJs') : i \in 1..n \/ i = Len(toJs')
      BY <1>1
    <2>. QED  BY <2>1, <2>2, <2>3 DEF Replies, ReplyOk
  <1>14. Order'
    <2>. SUFFICES ASSUME NEW i \in 1 .. n + 1, NEW j \in 1 .. n + 1, i < j,
                         toJs'[i].id = toJs'[j].id
                  PROVE  toJs'[i].part.hasMore /\ toJs'[j].error = NoError
      BY <1>1 DEF Order
    <2>1. i \in 1..n /\ toJs'[i] = toJs[i]
      BY <1>1
    <2>2. CASE j \in 1..n
      BY <1>1, <2>1, <2>2 DEF IInv, Order, n
    <2>3. CASE j = n + 1
      <3>1. toJs[i].id = busy /\ toJs'[j] = m
        BY <1>1, <2>1, <2>3
      <3>2. toJs[i].part.hasMore
        BY <1>7, <2>1, <3>1 DEF ReplyOk
      <3>3. m.error = NoError
        BY <1>5, <2>1, <3>1
      <3>. QED  BY <2>1, <3>1, <3>2, <3>3
    <2>. QED  BY <1>1, <2>2, <2>3
  <1>15. Links'
    <2>. SUFFICES ASSUME NEW i \in 1..n, toJs'[i].part.hasMore
                  PROVE  /\ toJs'[i + 1].id = toJs'[i].id
                         /\ toJs'[i + 1].part.from = toJs'[i].part.upto
      BY <1>1 DEF Links
    <2>1. toJs'[i] = toJs[i]
      BY <1>1
    <2>2. CASE i = n
      <3>1. toJs # <<>>
        BY <1>1, <2>2 DEF n
      <3>2. start # 0 /\ toJs'[i + 1] = m
        BY <1>1, <1>6, <2>1, <2>2, <3>1
      <3>. QED  BY <1>6, <2>1, <2>2, <3>1, <3>2
    <2>3. CASE i # n
      <3>1. i \in 1 .. n - 1 /\ i + 1 \in 1..n
        BY <1>1, <2>3
      <3>. QED  BY <1>1, <2>1, <3>1 DEF IInv, Links, n
    <2>. QED  BY <2>2, <2>3
  <1>16. Starts'
    <2>. SUFFICES ASSUME NEW i \in 1 .. n + 1, toJs'[i].error = NoError,
                         kind[toJs'[i].id] = "listing",
                         \A j \in 1 .. i - 1 : toJs'[j].id # toJs'[i].id
                  PROVE  toJs'[i].part.from = HandedUpto(toJs'[i].id)
      BY <1>1 DEF Starts, HandedUpto
    <2>1. CASE i \in 1..n
      <3>1. toJs'[i] = toJs[i] /\ \A j \in 1 .. i - 1 : toJs'[j] = toJs[j]
        BY <1>1, <2>1
      <3>. QED  BY <2>1, <3>1 DEF IInv, Starts, n
    <2>2. CASE i = n + 1
      <3>1. toJs'[i] = m /\ \A j \in 1..n : toJs[j].id # busy
        BY <1>1, <2>2
      <3>2. CASE start = 0
        BY <1>5, <3>1, <3>2 DEF HandedUpto
      <3>3. CASE start # 0
        <4>1. toJs = <<>>
          BY <1>6, <1>8, <3>1, <3>3
        <4>. QED  BY <1>6, <3>1, <3>3, <4>1
      <3>. QED  BY <3>2, <3>3
    <2>. QED  BY <1>1, <2>1, <2>2
  <1>17. Handing'
    <2>. SUFFICES ASSUME NEW r \in Requests,
                         outcome[r] = "ok" /\ kind[r] = "listing"
                  PROVE  HandedUpto(r) = size'[r]
      BY DEF IInv, Handing, HandedUpto
    <2>1. r # busy
      BY <1>4 DEF Waiting
    <2>. QED  BY <2>1 DEF IInv, Handing
  <1>18. Unasked'
    BY DEF IInv, Unasked
  <1>. QED  BY <1>3, <1>10, <1>11, <1>12, <1>13, <1>14, <1>15, <1>16, <1>17, <1>18 DEF IInv

LEMMA ReplyFields ==
    ASSUME NEW r \in Requests, NEW error \in NaclErrors \cup {NoError}, NEW part \in Parts
    PROVE  /\ Reply(r, error, part) \in Message /\ Reply(r, error, part).id = r
           /\ Reply(r, error, part).error = error /\ Reply(r, error, part).part = part
  BY DEF Reply, Message

LEMMA NothingFields ==
    Nothing \in Parts /\ Nothing.from = 0 /\ Nothing.upto = 0 /\ Nothing.hasMore = FALSE
  BY PartFields DEF Nothing

\* A batch, which is a reply like the others.
LEMMA BatchAnswers ==
    ASSUME IInv, busy # Nobody, kind[busy] = "listing", NEW n \in Nat, n # 0,
           start <= n, start < n \/ start = 0,
           size' \in [Requests -> Nat], size'[busy] = n,
           \A r \in Requests : r # busy => size'[r] = size[r],
           SendBatch(n)
    PROVE  \E m \in Message : Answer(m)
  <1>. DEFINE upto == BatchEnd(start, n)
              part == Part(start, upto, HasMore(start, upto, n))
              m == Reply(busy, NoError, part)
  <1>1. start \in Nat /\ busy \in Requests
    BY DEF IInv, StreamTypeOK
  <1>2. /\ upto \in Nat /\ start <= upto /\ upto <= n
        /\ upto # n => upto # 0 /\ upto < n
        /\ HasMore(start, upto, n) = (upto # n)
    BY <1>1, BatchBounds
  <1>3. toJs' = Append(toJs, m)
        /\ IF upto # n THEN start' = upto /\ busy' = busy ELSE start' = 0 /\ busy' = Nobody
    BY DEF SendBatch
  <1>. HIDE DEF upto
  <1>4. /\ part \in Parts /\ part.from = start /\ part.upto = upto
        /\ part.hasMore = (upto # n)
    BY <1>1, <1>2 DEF Part, Parts, HasMore
  <1>. HIDE DEF part
  <1>5. m \in Message /\ m.id = busy /\ m.error = NoError /\ m.part = part
    BY <1>1, <1>4, ReplyFields
  <1>. HIDE DEF m
  <1>6. UNCHANGED <<kind, needsStat, toNacl, handed, attempts, outcome>>
    BY DEF SendBatch
  <1>7. Answer(m)
    BY <1>2, <1>3, <1>4, <1>5, <1>6 DEF Answer
  <1>. QED  BY <1>5, <1>7

LEMMA NaclAnswers ==
    ASSUME IInv,
           \/ \E error \in NaclErrors : Fail(error)
           \/ Succeed
           \/ \E n \in Nat : AnswerAtOnce(n) \/ StreamFirst(n)
           \/ StreamNext
    PROVE  \E m \in Message : Answer(m)
  <1>1. start \in Nat /\ busy # Nobody /\ busy \in Requests /\ size \in [Requests -> Nat]
    BY DEF IInv, StreamTypeOK, Fail, Succeed, AnswerAtOnce, StreamFirst, StreamNext
  <1>2. ASSUME NEW error \in NaclErrors, Fail(error) PROVE Answer(Reply(busy, error, Nothing))
    <2>. DEFINE m == Reply(busy, error, Nothing)
    <2>1. m.id = busy /\ m.error = error /\ m.part = Nothing
      BY <1>1, ReplyFields, NothingFields
    <2>2. toJs' = Append(toJs, m) /\ start = 0 /\ start' = 0 /\ busy' = Nobody /\ size' = size
      BY <1>2 DEF Fail
    <2>3. error # NoError
      BY DEF NaclErrors, NoError
    <2>. HIDE DEF m
    <2>4. Answer(m)
      BY <1>1, <1>2, <2>1, <2>2, <2>3, NothingFields DEF Answer, Fail
    <2>. QED  BY <2>4 DEF m
  <1>3. ASSUME Succeed PROVE Answer(Reply(busy, NoError, Nothing))
    <2>. DEFINE m == Reply(busy, NoError, Nothing)
    <2>1. m.id = busy /\ m.error = NoError /\ m.part = Nothing
      BY <1>1, ReplyFields, NothingFields
    <2>2. start = 0
      BY <1>3 DEF IInv, Streaming, Succeed
    <2>3. toJs' = Append(toJs, m) /\ start' = 0 /\ busy' = Nobody /\ size' = size
      BY <1>3, <2>2 DEF Succeed
    <2>. HIDE DEF m
    <2>4. Answer(m)
      BY <1>1, <1>3, <2>1, <2>2, <2>3, NothingFields DEF Answer, Succeed
    <2>. QED  BY <2>4 DEF m
  <1>4. ASSUME NEW n \in Nat, AnswerAtOnce(n)
        PROVE  Answer(Reply(busy, NoError, Part(0, n, FALSE)))
    <2>. DEFINE part == Part(0, n, FALSE)
                m == Reply(busy, NoError, part)
    <2>1. part \in Parts /\ part.from = 0 /\ part.upto = n /\ part.hasMore = FALSE
      BY PartFields
    <2>2. toJs' = Append(toJs, m) /\ start = 0 /\ start' = 0 /\ busy' = Nobody
          /\ size' = [size EXCEPT ![busy] = n]
      BY <1>4 DEF AnswerAtOnce
    <2>. HIDE DEF part
    <2>3. m.id = busy /\ m.error = NoError /\ m.part = part
      BY <1>1, <2>1, ReplyFields
    <2>. HIDE DEF m
    <2>4. size' \in [Requests -> Nat] /\ size'[busy] = n
          /\ \A r \in Requests : r # busy => size'[r] = size[r]
      BY <1>1, <2>2
    <2>5. /\ m.part.from = start /\ m.part.upto = size'[busy] /\ start <= m.part.upto
          /\ ~m.part.hasMore /\ m.error = NoError
      BY <2>1, <2>2, <2>3, <2>4
    <2>6. UNCHANGED <<kind, needsStat, toNacl, handed, attempts, outcome>>
      BY <1>4 DEF AnswerAtOnce
    <2>7. Answer(m)
      BY <1>1, <2>2, <2>3, <2>4, <2>5, <2>6 DEF Answer
    <2>. QED  BY <2>7 DEF m, part
  <1>5. ASSUME NEW n \in Nat, StreamFirst(n) PROVE \E m \in Message : Answer(m)
    <2>1. /\ size' \in [Requests -> Nat] /\ size'[busy] = n
          /\ \A r \in Requests : r # busy => size'[r] = size[r]
      BY <1>1, <1>5 DEF StreamFirst
    <2>2. start = 0 /\ start <= n /\ n # 0 /\ kind[busy] = "listing" /\ SendBatch(n)
      BY <1>5 DEF StreamFirst
    <2>. QED  BY <1>1, <2>1, <2>2, BatchAnswers
  <1>6. ASSUME StreamNext PROVE \E m \in Message : Answer(m)
    <2>. DEFINE n == size[busy]
    <2>1. start # 0 /\ kind[busy] = "listing" /\ start < n /\ n \in Nat /\ size' = size
          /\ SendBatch(n)
      BY <1>1, <1>6 DEF StreamNext, IInv, Streaming
    <2>2. n # 0 /\ start <= n /\ size' \in [Requests -> Nat] /\ size'[busy] = n
          /\ \A r \in Requests : r # busy => size'[r] = size[r]
      BY <1>1, <2>1
    <2>. HIDE DEF n
    <2>. QED  BY <1>1, <2>1, <2>2, BatchAnswers
  <1>. QED
    <2>1. /\ \A error \in NaclErrors : Reply(busy, error, Nothing) \in Message
          /\ Reply(busy, NoError, Nothing) \in Message
          /\ \A n \in Nat : Reply(busy, NoError, Part(0, n, FALSE)) \in Message
      BY <1>1, ReplyFields, NothingFields, PartFields
    <2>. QED  BY <1>2, <1>3, <1>4, <1>5, <1>6, <2>1

-----------------------------------------------------------------------------
(* The steps of the page.                                                  *)

LEMMA PostKeeps ==
    ASSUME IInv, NEW r \in Requests, NEW k \in {"listing", "other"}, NEW stat \in BOOLEAN,
           Post(r, k, stat)
    PROVE  IInv'
  <1>. DEFINE n == Len(toNacl)
  <1>. USE DEF naclVars
  <1>1. StreamTypeOK'
    BY AppendExtends DEF IInv, StreamTypeOK, Post
  <1>2. /\ kind[r] = "unasked" /\ outcome[r] = "none" /\ handed[r] = <<>>
        /\ kind' = [kind EXCEPT ![r] = k] /\ outcome' = [outcome EXCEPT ![r] = "waiting"]
        /\ toNacl' = Append(toNacl, r)
        /\ UNCHANGED <<busy, start, toJs, size, handed, attempts>>
        /\ kind \in [Requests -> {"unasked", "listing", "other"}]
        /\ outcome \in [Requests -> {"none", "waiting", "ok"} \cup Errors]
    BY DEF IInv, Unasked, Post, StreamTypeOK
  <1>3. \A s \in Requests : s # r => kind'[s] = kind[s] /\ outcome'[s] = outcome[s]
    BY <1>2
  <1>4. kind'[r] = k /\ outcome'[r] = "waiting"
    BY <1>2
  <1>5. \A s \in Requests : Waiting(s) => s # r
    BY <1>2 DEF Waiting
  <1>6. /\ n \in Nat /\ Len(toNacl') = n + 1 /\ toNacl'[n + 1] = r
        /\ \A i \in 1..n : toNacl'[i] = toNacl[i] /\ toNacl[i] \in Requests
        /\ \A i \in 1 .. n + 1 : i \in 1..n \/ i = n + 1
    <2>1. toNacl \in Seq(Requests) /\ toNacl' = Append(toNacl, r)
      BY <1>2 DEF IInv, StreamTypeOK
    <2>. QED  BY <2>1, AppendExtends
  <1>. HIDE DEF n
  <1>7. busy # Nobody => busy \in Requests /\ Waiting(busy) /\ busy # r
    BY <1>5 DEF IInv, StreamTypeOK, Serving
  <1>8. \A i \in 1..Len(toJs) : toJs[i].id \in Requests /\ ReplyOk(toJs[i]) /\ toJs[i].id # r
    <2>. SUFFICES ASSUME NEW i \in 1..Len(toJs)
                  PROVE  toJs[i].id \in Requests /\ ReplyOk(toJs[i]) /\ toJs[i].id # r
      OBVIOUS
    <2>1. toJs \in Seq(Message)
      BY DEF IInv, StreamTypeOK, Message
    <2>2. toJs[i] \in Message
      BY <2>1
    <2>3. toJs[i].id \in Requests
      BY <2>2 DEF Message
    <2>4. ReplyOk(toJs[i])
      BY DEF IInv, Replies
    <2>. QED  BY <1>5, <2>3, <2>4 DEF ReplyOk
  <1>9. Queued'
    <2>. SUFFICES ASSUME NEW i \in 1 .. n + 1
                  PROVE  /\ outcome'[toNacl'[i]] = "waiting" /\ handed[toNacl'[i]] = <<>>
                         /\ toNacl'[i] # busy
                         /\ \A j \in 1 .. i - 1 : toNacl'[j] # toNacl'[i]
      BY <1>2, <1>6 DEF Queued, Waiting
    <2>1. CASE i \in 1..n
      <3>1. /\ Waiting(toNacl[i]) /\ handed[toNacl[i]] = <<>> /\ toNacl[i] # busy
            /\ \A j \in 1 .. i - 1 : toNacl[j] # toNacl[i]
        BY <2>1 DEF IInv, Queued, n
      <3>2. \A j \in 1 .. i - 1 : j \in 1..n
        BY <1>6, <2>1
      <3>. QED  BY <1>3, <1>5, <1>6, <2>1, <3>1, <3>2 DEF Waiting
    <2>2. CASE i = n + 1
      <3>1. \A j \in 1..n : Waiting(toNacl[j])
        BY DEF IInv, Queued, n
      <3>2. \A j \in 1 .. i - 1 : j \in 1..n
        BY <1>6, <2>2
      <3>3. r # busy
        BY <1>7, Sizes
      <3>. QED  BY <1>2, <1>4, <1>5, <1>6, <2>2, <3>1, <3>2, <3>3
    <2>. QED  BY <1>6, <2>1, <2>2
  <1>10. Serving'
    BY <1>2, <1>3, <1>7 DEF IInv, Serving, Waiting
  <1>11. Streaming'
    BY <1>2, <1>3, <1>7 DEF IInv, Streaming, HandedUpto
  <1>12. Replies'
    <2>. SUFFICES ASSUME NEW i \in 1..Len(toJs) PROVE ReplyOk(toJs[i])'
      BY <1>2 DEF Replies
    <2>1. ReplyOk(toJs[i]) /\ toJs[i].id \in Requests /\ toJs[i].id # r
      BY <1>8
    <2>2. \A j \in 1..Len(toNacl') : toNacl'[j] # toJs[i].id
      BY <1>6, <2>1 DEF ReplyOk, n
    <2>. QED  BY <1>2, <1>3, <2>1, <2>2 DEF ReplyOk, Waiting
  <1>13. Order' /\ Links'
    BY <1>2 DEF IInv, Order, Links
  <1>14. Starts'
    BY <1>2, <1>3, <1>8 DEF IInv, Starts, HandedUpto
  <1>15. Handing'
    <2>. SUFFICES ASSUME NEW s \in Requests PROVE
             /\ handed[s] # <<>> =>
                   /\ kind'[s] = "listing"
                   /\ SlicesOf(handed[s], 0, HandedUpto(s), outcome'[s] # "ok", DesiredBatch)
             /\ outcome'[s] \in Errors => handed[s] = <<>>
             /\ outcome'[s] = "ok" /\ kind'[s] = "listing" =>
                   handed[s] # <<>> /\ HandedUpto(s) = size[s]
      BY <1>2 DEF Handing, HandedUpto
    <2>1. CASE s = r
      BY <1>2, <1>4, <2>1 DEF Errors
    <2>2. CASE s # r
      BY <1>3, <2>2 DEF IInv, Handing
    <2>. QED  BY <2>1, <2>2
  <1>16. Unasked'
    BY <1>2, <1>3, <1>4 DEF IInv, Unasked
  <1>. QED  BY <1>1, <1>9, <1>10, <1>11, <1>12, <1>13, <1>14, <1>15, <1>16 DEF IInv

\* What a step of the page that handles the oldest reply m knows.
LEMMA OldestReply ==
    ASSUME IInv, toJs # <<>>, toJs' = Tail(toJs),
           NEW m, m = Head(toJs), NEW n, n = Len(toJs)
    PROVE  /\ m \in Message /\ m.id \in Requests /\ m.part \in Parts /\ m = toJs[1]
           /\ n \in Nat \ {0} /\ 1 \in 1..n /\ n \in 1..n
           /\ toJs' \in Seq(Message) /\ Len(toJs') = n - 1
           /\ toJs' # <<>> <=> n # 1
           /\ \A i \in 1 .. n - 1 : i + 1 \in 1..n /\ toJs'[i] = toJs[i + 1]
           /\ \A i \in 1..n : toJs[i].id \in Requests /\ ReplyOk(toJs[i])
           /\ \A i \in 1 .. n - 1 : toJs'[i].id = m.id =>
                 m.part.hasMore /\ toJs'[i].error = NoError
           /\ Order' /\ Links'
  <1>1. toJs \in Seq(Message)
    BY DEF IInv, StreamTypeOK, Message
  <1>2. /\ m \in Message /\ m = toJs[1] /\ n \in Nat \ {0}
        /\ toJs' \in Seq(Message) /\ Len(toJs') = n - 1
        /\ \A i \in 1 .. n - 1 : i + 1 \in 1..n /\ toJs'[i] = toJs[i + 1]
    BY <1>1, TailShifts
  <1>3. 1 \in 1..n /\ n \in 1..n /\ (toJs' # <<>> <=> n # 1)
    BY <1>2
  <1>4. m.id \in Requests /\ m.part \in Parts
    BY <1>2 DEF Message
  <1>5. ASSUME NEW i \in 1..n PROVE toJs[i].id \in Requests /\ ReplyOk(toJs[i])
    <2>1. toJs[i] \in Message
      BY <1>1
    <2>. QED  BY <2>1 DEF Message, IInv, Replies
  <1>6. ASSUME NEW i \in 1 .. n - 1, toJs'[i].id = m.id
        PROVE  m.part.hasMore /\ toJs'[i].error = NoError
    <2>1. i + 1 \in 1..n /\ toJs'[i] = toJs[i + 1] /\ 1 < i + 1
      BY <1>2
    <2>. QED  BY <1>2, <1>3, <1>6, <2>1 DEF IInv, Order
  <1>7. Order'
    <2>. SUFFICES ASSUME NEW i \in 1 .. n - 1, NEW j \in 1 .. n - 1, i < j,
                         toJs'[i].id = toJs'[j].id
                  PROVE  toJs'[i].part.hasMore /\ toJs'[j].error = NoError
      BY <1>2 DEF Order
    <2>1. /\ i + 1 \in 1..n /\ j + 1 \in 1..n /\ i + 1 < j + 1
          /\ toJs'[i] = toJs[i + 1] /\ toJs'[j] = toJs[j + 1]
      BY <1>2
    <2>. QED  BY <2>1 DEF IInv, Order
  <1>8. Links'
    <2>. SUFFICES ASSUME NEW i \in 1 .. n - 1 - 1, toJs'[i].part.hasMore
                  PROVE  /\ toJs'[i + 1].id = toJs'[i].id
                         /\ toJs'[i + 1].part.from = toJs'[i].part.upto
      BY <1>2 DEF Links
    <2>1. /\ i \in 1 .. n - 1 /\ i + 1 \in 1 .. n - 1
          /\ toJs'[i] = toJs[i + 1] /\ toJs'[i + 1] = toJs[i + 1 + 1]
      BY <1>2
    <2>. QED  BY <2>1 DEF IInv, Links
  <1>. QED  BY <1>2, <1>3, <1>4, <1>5, <1>6, <1>7, <1>8

LEMMA ErrorKeeps ==
    ASSUME IInv, HandleError
    PROVE  IInv'
  <1>. DEFINE m == Head(toJs)
              n == Len(toJs)
              k == Len(toNacl)
              again == m.error = "SHOULD_RETRY" /\ attempts[m.id] + 1 < AttemptCount
  <1>1. /\ toJs # <<>> /\ toJs' = Tail(toJs) /\ m.error # NoError
        /\ attempts' = [attempts EXCEPT ![m.id] = @ + 1]
        /\ \/ toNacl' = Append(toNacl, m.id) /\ outcome' = outcome
           \/ /\ toNacl' = toNacl
              /\ outcome' = [outcome EXCEPT ![m.id] = ErrorTold(m.id, m.error)]
        /\ UNCHANGED <<kind, needsStat, busy, start, size, handed>>
    BY DEF HandleError, naclVars
  <1>2. /\ m \in Message /\ m.id \in Requests /\ m = toJs[1]
        /\ n \in Nat \ {0} /\ 1 \in 1..n /\ n \in 1..n
        /\ toJs' \in Seq(Message) /\ Len(toJs') = n - 1
        /\ toJs' # <<>> <=> n # 1
        /\ \A i \in 1 .. n - 1 : i + 1 \in 1..n /\ toJs'[i] = toJs[i + 1]
        /\ \A i \in 1..n : toJs[i].id \in Requests /\ ReplyOk(toJs[i])
        /\ \A i \in 1 .. n - 1 : toJs'[i].id = m.id => m.part.hasMore
        /\ Order' /\ Links'
    BY <1>1, OldestReply
  <1>. HIDE DEF m, n
  <1>3. /\ ~m.part.hasMore /\ m.id # busy /\ handed[m.id] = <<>> /\ Waiting(m.id)
        /\ \A i \in 1 .. Len(toNacl) : toNacl[i] # m.id
    BY <1>1, <1>2 DEF ReplyOk
  <1>4. /\ toNacl \in Seq(Requests) /\ k \in Nat
        /\ \A i \in 1..k : toNacl[i] \in Requests
        /\ outcome \in [Requests -> {"none", "waiting", "ok"} \cup Errors]
        /\ attempts \in [Requests -> Nat]
    BY DEF IInv, StreamTypeOK, k
  <1>5. m.error \in NaclErrors /\ ErrorTold(m.id, m.error) \in Errors
    BY <1>1, <1>2 DEF Message, NaclErrors, Errors, ErrorTold
  <1>6. /\ toNacl' \in Seq(Requests) /\ Len(toNacl') \in Nat
        /\ \A i \in 1 .. Len(toNacl') :
              \/ i \in 1..k /\ toNacl'[i] = toNacl[i]
              \/ i = k + 1 /\ toNacl'[i] = m.id /\ outcome' = outcome
    <2>1. CASE toNacl' = Append(toNacl, m.id) /\ outcome' = outcome
      BY <1>2, <1>4, <2>1, AppendExtends DEF k
    <2>2. CASE toNacl' = toNacl
      BY <1>4, <2>2 DEF k
    <2>. QED  BY <1>1, <2>1, <2>2
  <1>7. /\ \A s \in Requests : s # m.id => outcome'[s] = outcome[s]
        /\ outcome'[m.id] = "waiting" \/ outcome'[m.id] \in Errors
        /\ outcome' \in [Requests -> {"none", "waiting", "ok"} \cup Errors]
    BY <1>1, <1>2, <1>3, <1>4, <1>5 DEF Waiting
  <1>8. StreamTypeOK'
    <2>1. attempts' \in [Requests -> Nat]
      BY <1>1, <1>2, <1>4
    <2>. QED  BY <1>1, <1>2, <1>6, <1>7, <2>1 DEF IInv, StreamTypeOK, Message
  <1>9. busy # Nobody => busy \in Requests /\ Waiting(busy) /\ outcome'[busy] = "waiting"
    BY <1>3, <1>7 DEF IInv, StreamTypeOK, Serving, Waiting
  <1>10. Queued'
    <2>. SUFFICES ASSUME NEW i \in 1 .. Len(toNacl')
                  PROVE  /\ outcome'[toNacl'[i]] = "waiting" /\ handed[toNacl'[i]] = <<>>
                         /\ toNacl'[i] # busy
                         /\ \A j \in 1 .. i - 1 : toNacl'[j] # toNacl'[i]
      BY <1>1 DEF Queued, Waiting
    <2>1. \A j \in 1 .. i - 1 : j \in 1 .. Len(toNacl')
      BY <1>6
    <2>2. \A j \in 1 .. i - 1 : j \in 1..k /\ toNacl'[j] = toNacl[j]
      BY <1>4, <1>6, <2>1
    <2>3. CASE i \in 1..k /\ toNacl'[i] = toNacl[i]
      <3>1. /\ Waiting(toNacl[i]) /\ handed[toNacl[i]] = <<>> /\ toNacl[i] # busy
            /\ \A j \in 1 .. i - 1 : toNacl[j] # toNacl[i]
        BY <2>3 DEF IInv, Queued, k
      <3>2. toNacl[i] \in Requests /\ toNacl[i] # m.id
        BY <1>3, <1>4, <2>3 DEF k
      <3>. QED  BY <1>7, <2>2, <2>3, <3>1, <3>2 DEF Waiting
    <2>4. CASE i = k + 1 /\ toNacl'[i] = m.id /\ outcome' = outcome
      BY <1>3, <2>2, <2>4 DEF Waiting, k
    <2>. QED  BY <1>6, <2>3, <2>4
  <1>11. Serving'
    <2>1. busy # Nobody /\ start = 0 => /\ handed[busy] = <<>>
                                        /\ \A i \in 1 .. n - 1 : toJs'[i].id # busy
      BY <1>2 DEF IInv, Serving, n
    <2>. QED  BY <1>1, <1>2, <1>9, <2>1 DEF IInv, Serving, Waiting
  <1>12. Streaming'
    <2>1. n # 1 => toJs'[n - 1] = toJs[n] /\ n - 1 = Len(toJs')
      BY <1>2
    <2>2. start # 0 => n # 1
      BY <1>1, <1>2, <1>3 DEF IInv, Streaming, n
    <2>. QED  BY <1>1, <1>2, <2>1, <2>2 DEF IInv, Streaming, HandedUpto, n
  <1>13. Replies'
    <2>. SUFFICES ASSUME NEW i \in 1 .. Len(toJs') PROVE ReplyOk(toJs[i])'
      BY DEF Replies
    <2>1. i \in 1 .. n - 1 /\ i + 1 \in 1..n /\ toJs'[i] = toJs[i + 1]
      BY <1>2
    <2>2. ReplyOk(toJs[i + 1]) /\ toJs[i + 1].id \in Requests /\ toJs[i + 1].id # m.id
      BY <1>2, <1>3, <2>1
    <2>3. \A j \in 1 .. Len(toNacl') : toNacl'[j] # toJs[i + 1].id
      BY <1>6, <2>2 DEF ReplyOk, k
    <2>. QED  BY <1>1, <1>7, <2>1, <2>2, <2>3 DEF ReplyOk, Waiting
  <1>14. Starts'
    <2>. SUFFICES ASSUME NEW i \in 1 .. n - 1, toJs'[i].error = NoError,
                         kind[toJs'[i].id] = "listing",
                         \A j \in 1 .. i - 1 : toJs'[j].id # toJs'[i].id
                  PROVE  toJs'[i].part.from = HandedUpto(toJs'[i].id)
      BY <1>1, <1>2 DEF Starts, HandedUpto
    <2>1. i + 1 \in 1..n /\ toJs'[i] = toJs[i + 1] /\ toJs[i + 1].id # m.id
      BY <1>2, <1>3
    <2>2. ASSUME NEW j \in 1 .. (i + 1) - 1 PROVE toJs[j].id # toJs[i + 1].id
      <3>1. CASE j = 1
        BY <1>2, <2>1, <3>1
      <3>2. CASE j # 1
        <4>1. j - 1 \in 1 .. i - 1 /\ j - 1 \in 1 .. n - 1 /\ j = (j - 1) + 1
          BY <1>2, <3>2
        <4>. QED  BY <1>2, <2>1, <4>1
      <3>. QED  BY <3>1, <3>2
    <2>. QED  BY <2>1, <2>2 DEF IInv, Starts, n
  <1>15. Handing'
    <2>. SUFFICES ASSUME NEW s \in Requests PROVE
             /\ handed[s] # <<>> =>
                   /\ kind[s] = "listing"
                   /\ SlicesOf(handed[s], 0, HandedUpto(s), outcome'[s] # "ok", DesiredBatch)
             /\ outcome'[s] \in Errors => handed[s] = <<>>
             /\ outcome'[s] = "ok" /\ kind[s] = "listing" =>
                   handed[s] # <<>> /\ HandedUpto(s) = size[s]
      BY <1>1 DEF Handing, HandedUpto
    <2>1. CASE s = m.id
      BY <1>3, <1>7, <2>1 DEF Errors
    <2>2. CASE s # m.id
      BY <1>7, <2>2 DEF IInv, Handing
    <2>. QED  BY <2>1, <2>2
  <1>16. Unasked'
    BY <1>1, <1>3, <1>7 DEF IInv, Unasked, Waiting
  <1>. QED  BY <1>2, <1>8, <1>10, <1>11, <1>12, <1>13, <1>14, <1>15, <1>16 DEF IInv

LEMMA PartEquals ==
    ASSUME NEW p \in Parts
    PROVE  /\ p.from \in Nat /\ p.upto \in Nat /\ p.hasMore \in BOOLEAN
           /\ p = Part(p.from, p.upto, p.hasMore)
  BY DEF Part, Parts

\* A batch p of r that goes on where what was handed over of it ends.
LEMMA HandOver ==
    ASSUME IInv, NEW r \in Requests, Waiting(r), NEW p \in Parts, p.from <= p.upto,
           p.from = HandedUpto(r), NEW s, s = handed[r] \o Slices(p)
    PROVE  SlicesOf(s, 0, p.upto, p.hasMore, DesiredBatch)
  <1>. DEFINE t == Slices(p)
              a == p.from
              u == p.upto
              more == p.hasMore
              d == DesiredBatch
              h == handed[r]
  <1>1. a \in Nat /\ u \in Nat /\ more \in BOOLEAN /\ a <= u /\ p = Part(a, u, more)
        /\ d \in Nat \ {0}
    BY PartEquals, Sizes
  <1>2. SlicesOf(t, a, u, more, d)
    BY <1>1, SlicesExact
  <1>3. (h = <<>> /\ a = 0) \/ SlicesOf(h, 0, a, TRUE, d)
    <2>1. CASE h = <<>>
      BY <2>1 DEF HandedUpto
    <2>2. CASE h # <<>>
      <3>1. (outcome[r] # "ok") = TRUE
        BY DEF Waiting
      <3>2. SlicesOf(handed[r], 0, HandedUpto(r), outcome[r] # "ok", DesiredBatch)
        BY <2>2 DEF IInv, Handing
      <3>. QED  BY <3>1, <3>2
    <2>. QED  BY <2>1, <2>2
  <1>4. s = h \o t
    OBVIOUS
  <1>. HIDE DEF t, a, u, more, d, h
  <1>5. SlicesOf(s, 0, u, more, d)
    BY <1>1, <1>2, <1>3, <1>4, SlicesJoin
  <1>. QED  BY <1>5 DEF u, more, d

LEMMA ReplyKeeps ==
    ASSUME IInv, HandleReply
    PROVE  IInv'
  <1>. DEFINE m == Head(toJs)
              n == Len(toJs)
              p == m.part
              x == m.id
  <1>1. /\ toJs # <<>> /\ toJs' = Tail(toJs) /\ m.error = NoError
        /\ handed' = IF kind[x] = "listing"
                       THEN [handed EXCEPT ![x] = @ \o Slices(p)] ELSE handed
        /\ outcome' = IF p.hasMore THEN outcome ELSE [outcome EXCEPT ![x] = "ok"]
        /\ UNCHANGED <<kind, needsStat, toNacl, busy, start, size, attempts>>
    BY DEF HandleReply, naclVars
  <1>2. /\ m \in Message /\ x \in Requests /\ p \in Parts /\ m = toJs[1]
        /\ n \in Nat \ {0} /\ 1 \in 1..n /\ n \in 1..n
        /\ toJs' \in Seq(Message) /\ Len(toJs') = n - 1
        /\ toJs' # <<>> <=> n # 1
        /\ \A i \in 1 .. n - 1 : i + 1 \in 1..n /\ toJs'[i] = toJs[i + 1]
        /\ \A i \in 1..n : toJs[i].id \in Requests /\ ReplyOk(toJs[i])
        /\ \A i \in 1 .. n - 1 : toJs'[i].id = x => p.hasMore /\ toJs'[i].error = NoError
        /\ Order' /\ Links'
    BY <1>1, OldestReply
  <1>3. /\ Waiting(x) /\ p.from <= p.upto /\ p.from \in Nat /\ p.upto \in Nat
        /\ p.hasMore \in BOOLEAN
        /\ p.hasMore => kind[x] = "listing"
        /\ ~p.hasMore => x # busy
        /\ kind[x] = "listing" /\ ~p.hasMore => p.upto = size[x]
        /\ \A i \in 1 .. Len(toNacl) : toNacl[i] # x
    BY <1>1, <1>2, PartEquals DEF ReplyOk
  <1>4. kind[x] = "listing" => p.from = HandedUpto(x)
    <2>1. \A j \in 1 .. 1 - 1 : toJs[j].id # toJs[1].id
      OBVIOUS
    <2>. QED  BY <1>1, <1>2, <2>1 DEF IInv, Starts, n
  <1>5. /\ handed \in [Requests -> Seq(Parts)]
        /\ outcome \in [Requests -> {"none", "waiting", "ok"} \cup Errors]
    BY DEF IInv, StreamTypeOK
  <1>. HIDE DEF m, n, p, x
  <1>6. kind[x] = "listing" => handed'[x] = handed[x] \o Slices(p)
    BY <1>1, <1>2, <1>5
  <1>7. kind[x] = "listing" => SlicesOf(handed'[x], 0, p.upto, p.hasMore, DesiredBatch)
    BY <1>2, <1>3, <1>4, <1>6, HandOver
  <1>8. kind[x] = "listing" => /\ handed'[x] # <<>> /\ handed'[x] \in Seq(Parts)
                               /\ handed'[x][Len(handed'[x])].upto = p.upto
    BY <1>7 DEF SlicesOf, Chain
  <1>9. /\ kind[x] # "listing" => handed' = handed
        /\ \A s \in Requests : s # x => handed'[s] = handed[s] /\ outcome'[s] = outcome[s]
        /\ outcome'[x] = IF p.hasMore THEN "waiting" ELSE "ok"
    BY <1>1, <1>2, <1>3, <1>5 DEF Waiting
  <1>10. StreamTypeOK'
    <2>1. handed' \in [Requests -> Seq(Parts)]
      BY <1>1, <1>2, <1>5, <1>6, <1>8
    <2>2. outcome' \in [Requests -> {"none", "waiting", "ok"} \cup Errors]
      BY <1>1, <1>2, <1>5
    <2>. QED  BY <1>1, <1>2, <2>1, <2>2 DEF IInv, StreamTypeOK, Message
  <1>11. Queued'
    <2>. SUFFICES ASSUME NEW i \in 1 .. Len(toNacl)
                  PROVE  /\ outcome'[toNacl[i]] = "waiting" /\ handed'[toNacl[i]] = <<>>
                         /\ toNacl[i] # busy
                         /\ \A j \in 1 .. i - 1 : toNacl[j] # toNacl[i]
      BY <1>1 DEF Queued, Waiting
    <2>1. toNacl[i] \in Requests
      BY DEF IInv, StreamTypeOK
    <2>. QED  BY <1>3, <1>9, <2>1 DEF IInv, Queued, Waiting
  <1>12. busy # Nobody => /\ busy \in Requests /\ outcome'[busy] = "waiting"
                          /\ start = 0 => busy # x /\ handed'[busy] = <<>>
    <2>1. busy # Nobody => busy \in Requests /\ Waiting(busy)
      BY DEF IInv, StreamTypeOK, Serving
    <2>2. busy # Nobody /\ start = 0 => handed[busy] = <<>> /\ toJs[1].id # busy
      BY <1>2 DEF IInv, Serving, n
    <2>. QED  BY <1>2, <1>3, <1>9, <2>1, <2>2 DEF Waiting, x
  <1>13. Serving'
    <2>1. busy # Nobody /\ start = 0 => \A i \in 1 .. n - 1 : toJs'[i].id # busy
      BY <1>2 DEF IInv, Serving, n
    <2>. QED  BY <1>1, <1>2, <1>12, <2>1 DEF IInv, Serving, Waiting
  <1>14. Streaming'
    <2>1. n # 1 => toJs'[n - 1] = toJs[n] /\ n - 1 = Len(toJs')
      BY <1>2
    <2>2. start # 0 /\ n = 1 => x = busy /\ p.upto = start /\ kind[x] = "listing"
      BY <1>1, <1>2 DEF IInv, Streaming, n, x, p
    <2>3. start # 0 /\ toJs' = <<>> => HandedUpto(busy)' = start
      BY <1>1, <1>2, <1>8, <2>2 DEF HandedUpto
    <2>. QED  BY <1>1, <1>2, <2>1, <2>3 DEF IInv, Streaming, n
  <1>15. Replies'
    <2>. SUFFICES ASSUME NEW i \in 1 .. Len(toJs') PROVE ReplyOk(toJs[i])'
      BY DEF Replies
    <2>1. i \in 1 .. n - 1 /\ i + 1 \in 1..n /\ toJs'[i] = toJs[i + 1]
      BY <1>2
    <2>2. ReplyOk(toJs[i + 1]) /\ toJs[i + 1].id \in Requests
      BY <1>2, <2>1
    <2>3. CASE toJs[i + 1].id = x
      <3>1. p.hasMore /\ toJs[i + 1].error = NoError
        BY <1>2, <2>1, <2>3
      <3>2. outcome'[x] = "waiting"
        BY <1>9, <3>1
      <3>. QED  BY <1>1, <2>1, <2>2, <2>3, <3>1, <3>2 DEF ReplyOk, Waiting
    <2>4. CASE toJs[i + 1].id # x
      BY <1>1, <1>9, <2>1, <2>2, <2>4 DEF ReplyOk, Waiting
    <2>. QED  BY <2>3, <2>4
  <1>16. Starts'
    <2>. SUFFICES ASSUME NEW i \in 1 .. n - 1, toJs'[i].error = NoError,
                         kind[toJs'[i].id] = "listing",
                         \A j \in 1 .. i - 1 : toJs'[j].id # toJs'[i].id
                  PROVE  toJs'[i].part.from = HandedUpto(toJs[i].id)'
      BY <1>1, <1>2 DEF Starts, HandedUpto
    <2>1. i + 1 \in 1..n /\ toJs'[i] = toJs[i + 1] /\ toJs[i + 1].id \in Requests
      BY <1>2
    <2>2. CASE toJs[i + 1].id = x
      <3>1. p.hasMore
        BY <1>2, <2>1, <2>2
      <3>2. i = 1
        <4>1. SUFFICES ASSUME i # 1 PROVE FALSE
          OBVIOUS
        <4>2. 1 \in 1 .. i - 1 /\ 1 \in 1 .. n - 1 /\ 1 + 1 \in 1..n /\ 1 \in 1 .. Len(toJs) - 1
          BY <1>2, <4>1 DEF n
        <4>3. toJs'[1] = toJs[1 + 1] /\ toJs[1 + 1].id = toJs[1].id
          BY <1>2, <3>1, <4>2 DEF IInv, Links, p
        <4>. QED  BY <1>2, <2>1, <2>2, <4>2, <4>3 DEF x
      <3>3. 1 \in 1 .. Len(toJs) - 1
        BY <1>2, <3>2 DEF n
      <3>4. toJs[1 + 1].part.from = toJs[1].part.upto
        BY <1>2, <3>1, <3>3 DEF IInv, Links, p
      <3>5. toJs'[i].part.from = p.upto
        BY <1>2, <2>1, <3>2, <3>4 DEF p
      <3>. QED  BY <1>8, <2>1, <2>2, <3>5 DEF HandedUpto
    <2>3. CASE toJs[i + 1].id # x
      <3>1. ASSUME NEW j \in 1 .. (i + 1) - 1 PROVE toJs[j].id # toJs[i + 1].id
        <4>1. CASE j = 1
          BY <1>2, <2>3, <4>1 DEF x
        <4>2. CASE j # 1
          <5>1. j - 1 \in 1 .. i - 1 /\ j - 1 \in 1 .. n - 1 /\ j = (j - 1) + 1
            BY <1>2, <4>2
          <5>2. toJs'[j - 1] = toJs[j]
            BY <1>2, <5>1
          <5>3. toJs'[j - 1].id # toJs'[i].id
            BY <5>1
          <5>. QED  BY <2>1, <5>2, <5>3
        <4>. QED  BY <4>1, <4>2
      <3>2. toJs[i + 1].part.from = HandedUpto(toJs[i + 1].id)
        BY <2>1, <3>1 DEF IInv, Starts, n
      <3>. QED  BY <1>9, <2>1, <2>3, <3>2 DEF HandedUpto
    <2>. QED  BY <2>2, <2>3
  <1>17. Handing'
    <2>. SUFFICES ASSUME NEW s \in Requests PROVE
             /\ handed'[s] # <<>> =>
                   /\ kind[s] = "listing"
                   /\ SlicesOf(handed'[s], 0, HandedUpto(s)', outcome'[s] # "ok", DesiredBatch)
             /\ outcome'[s] \in Errors => handed'[s] = <<>>
             /\ outcome'[s] = "ok" /\ kind[s] = "listing" =>
                   handed'[s] # <<>> /\ HandedUpto(s)' = size[s]
      BY <1>1 DEF Handing, HandedUpto
    <2>1. CASE s # x
      BY <1>9, <2>1 DEF IInv, Handing, HandedUpto
    <2>2. CASE s = x /\ kind[x] # "listing"
      BY <1>9, <2>2 DEF IInv, Handing, Errors
    <2>3. CASE s = x /\ kind[x] = "listing"
      <3>1. HandedUpto(s)' = p.upto
        BY <1>8, <2>3 DEF HandedUpto
      <3>2. (outcome'[s] # "ok") = p.hasMore
        BY <1>3, <1>9, <2>3
      <3>3. outcome'[s] \notin Errors
        BY <1>9, <2>3 DEF Errors
      <3>4. outcome'[s] = "ok" => HandedUpto(s)' = size[s]
        BY <1>3, <1>9, <2>3, <3>1
      <3>. QED  BY <1>7, <1>8, <2>3, <3>1, <3>2, <3>3, <3>4
    <2>. QED  BY <2>1, <2>2, <2>3
  <1>18. Unasked'
    <2>1. kind[x] # "unasked"
      BY <1>2, <1>3 DEF IInv, Unasked, Waiting
    <2>. QED  BY <1>1, <1>9, <2>1 DEF IInv, Unasked
  <1>. QED  BY <1>2, <1>10, <1>11, <1>13, <1>14, <1>15, <1>16, <1>17, <1>18 DEF IInv

-----------------------------------------------------------------------------
(* The theorems.                                                           *)

\* The invariant holds of the stream alone, whose listings have any length.
THEOREM Invariance == StreamSpec => []IInv
  <1>1. ASSUME IInv, [NextOfStream]_streamVars PROVE IInv'
    <2>1. CASE \E r \in Requests, k \in {"listing", "other"}, stat \in BOOLEAN : Post(r, k, stat)
      BY <1>1, <2>1, PostKeeps
    <2>2. CASE HandleReply
      BY <1>1, <2>2, ReplyKeeps
    <2>3. CASE HandleError
      BY <1>1, <2>3, ErrorKeeps
    <2>4. CASE Take
      BY <1>1, <2>4, TakeKeeps
    <2>5. CASE \/ \E error \in NaclErrors : Fail(error)
               \/ Succeed
               \/ \E n \in Nat : AnswerAtOnce(n) \/ StreamFirst(n)
               \/ StreamNext
      <3>1. PICK m \in Message : Answer(m)
        BY <1>1, <2>5, NaclAnswers
      <3>. QED  BY <1>1, <3>1, AnswerKeeps
    <2>6. CASE UNCHANGED streamVars
      BY <1>1, <2>6 DEF streamVars, naclVars, IInv, StreamTypeOK, Queued, Serving, Streaming,
         Replies, ReplyOk, Waiting, Order, Links, Starts, HandedUpto, Handing, Unasked
    <2>. QED  BY <1>1, <2>1, <2>2, <2>3, <2>4, <2>5, <2>6 DEF NextOfStream
  <1>. QED  BY InitInv, <1>1, PTL DEF StreamSpec

\* Every variable of the stream keeps its type.
THEOREM StreamTypeCorrect == StreamSpec => []StreamTypeOK
  BY Invariance, PTL DEF IInv

LEMMA InvExact == IInv => ListingExact
  <1>. SUFFICES ASSUME IInv, NEW r \in Requests, kind[r] = "listing" PROVE
           /\ Chain(handed[r], 0, HandedUpto(r))
           /\ \A i \in 1 .. Len(handed[r]) - 1 : handed[r][i].hasMore
           /\ \A i \in 1 .. Len(handed[r]) :
                 handed[r][i].upto - handed[r][i].from <= DesiredBatch
           /\ outcome[r] = "ok" <=> handed[r] # <<>> /\ ~handed[r][Len(handed[r])].hasMore
           /\ outcome[r] = "ok" => HandedUpto(r) = size[r]
           /\ outcome[r] \in Errors => handed[r] = <<>>
    BY DEF ListingExact
  <1>1. CASE handed[r] = <<>>
    BY <1>1 DEF IInv, Handing, Chain, HandedUpto
  <1>2. CASE handed[r] # <<>>
    BY <1>2 DEF IInv, Handing, SlicesOf
  <1>. QED  BY <1>1, <1>2

\* Whatever the sizes of the batches, of the slices and of the directories, and
\* however often a reading is retried, the Files app is handed the entries of a
\* directory in order, each once, all of them if the listing succeeds, and none if
\* it fails.
THEOREM ListingsExact == StreamSpec => []ListingExact
  BY Invariance, InvExact, PTL

\* No reply goes beyond what the last reading of its listing found.
RepliesWithin ==
    \A i \in 1..Len(toJs) :
        toJs[i].error = NoError /\ kind[toJs[i].id] = "listing" =>
            toJs[i].part.upto <= size[toJs[i].id]

LEMMA RepliesNamed ==
    ASSUME IInv, NEW i \in 1..Len(toJs)
    PROVE  toJs[i] \in Message /\ toJs[i].id \in Requests
  <1>1. toJs \in Seq(Message)
    BY DEF IInv, StreamTypeOK, Message
  <1>2. toJs[i] \in Message
    BY <1>1
  <1>. QED
    BY <1>2 DEF Message

LEMMA AnswerWithin ==
    ASSUME IInv, RepliesWithin, NEW m \in Message, Answer(m), size' = size \/ start = 0
    PROVE  RepliesWithin'
  <1>1. /\ toJs \in Seq(Message) /\ toJs' = Append(toJs, m) /\ kind' = kind /\ m.id = busy
        /\ busy \in Requests
    BY StreamAssumption DEF IInv, StreamTypeOK, Message, Answer
  <1>2. m.error = NoError /\ kind[busy] = "listing" => m.part.upto <= size'[busy]
    <2>1. m.part.upto \in Nat /\ m.part.hasMore \in BOOLEAN /\ size'[busy] \in Nat
      BY <1>1 DEF Message, Parts, Answer
    <2>. QED
      BY <2>1 DEF Answer
  <1>3. ASSUME NEW i \in 1..Len(toJs)
        PROVE  toJs[i].id \in Requests /\ size'[toJs[i].id] = size[toJs[i].id]
    <2>1. toJs[i].id \in Requests
      BY RepliesNamed
    <2>2. CASE size' = size
      BY <2>1, <2>2
    <2>3. CASE start = 0
      BY <2>1, <2>3 DEF IInv, Serving, Answer
    <2>. QED
      BY <2>1, <2>2, <2>3
  <1>4. ASSUME NEW i \in 1..Len(toJs'), toJs'[i].error = NoError, kind'[toJs'[i].id] = "listing"
        PROVE  toJs'[i].part.upto <= size'[toJs'[i].id]
    <2>1. (i \in 1..Len(toJs) /\ toJs'[i] = toJs[i]) \/ toJs'[i] = m
      BY <1>1, AppendExtends
    <2>. QED
      BY <1>1, <1>2, <1>3, <1>4, <2>1 DEF RepliesWithin
  <1>. QED
    BY <1>4 DEF RepliesWithin

\* A batch ends within the listing it is one of, also while later ones are read.
LEMMA BatchesWithin == StreamSpec => []RepliesWithin
  <1>1. StreamInit => RepliesWithin
    BY DEF StreamInit, RepliesWithin
  <1>2. ASSUME IInv, RepliesWithin, [NextOfStream]_streamVars  PROVE RepliesWithin'
    <2>1. ASSUME NEW r \in Requests, NEW k \in {"listing", "other"}, NEW stat \in BOOLEAN,
                 Post(r, k, stat)
          PROVE  RepliesWithin'
      <3>1. toJs' = toJs /\ size' = size /\ kind[r] = "unasked" /\ kind' = [kind EXCEPT ![r] = k]
        BY <2>1 DEF Post
      <3>2. \A i \in 1..Len(toJs) : toJs[i].id # r
        <4>1. outcome[r] # "waiting"
          BY <1>2, <3>1 DEF IInv, Unasked
        <4>. QED
          BY <1>2, <4>1 DEF IInv, Replies, ReplyOk, Waiting
      <3>3. \A i \in 1..Len(toJs) : kind'[toJs[i].id] = kind[toJs[i].id]
        <4>1. \A i \in 1..Len(toJs) : toJs[i].id \in Requests
          BY <1>2, RepliesNamed
        <4>. QED
          BY <1>2, <3>1, <3>2, <4>1 DEF IInv, StreamTypeOK
      <3>. QED
        BY <1>2, <3>1, <3>3 DEF RepliesWithin
    <2>2. CASE HandleReply \/ HandleError
      <3>1. toJs # <<>> /\ toJs' = Tail(toJs) /\ kind' = kind /\ size' = size
        BY <2>2 DEF HandleReply, HandleError
      <3>2. \A i \in 1..Len(toJs') : i + 1 \in 1..Len(toJs) /\ toJs'[i] = toJs[i + 1]
        BY <1>2, <3>1, TailShifts DEF IInv, StreamTypeOK
      <3>. QED
        BY <1>2, <3>1, <3>2 DEF RepliesWithin
    <2>3. CASE \/ \E error \in NaclErrors : Fail(error)
               \/ Succeed
               \/ \E n \in Nat : AnswerAtOnce(n) \/ StreamFirst(n)
               \/ StreamNext
      <3>1. size' = size \/ start = 0
        BY <2>3 DEF Fail, Succeed, AnswerAtOnce, StreamFirst, StreamNext
      <3>. QED
        BY <1>2, <2>3, <3>1, NaclAnswers, AnswerWithin
    <2>4. CASE Take \/ UNCHANGED streamVars
      BY <1>2, <2>4 DEF Take, streamVars, RepliesWithin
    <2>. QED
      BY <1>2, <2>1, <2>2, <2>3, <2>4 DEF NextOfStream
  <1>. QED
    BY <1>1, <1>2, Invariance, PTL DEF StreamSpec
=============================================================================
