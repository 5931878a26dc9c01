------------------------------- MODULE Queues -------------------------------
(***************************************************************************)
(* Facts about FIFO queues that the proofs share.  The messages, calls and *)
(* replies of this system all wait in queues that are read at the head and *)
(* written at the end.                                                     *)
(***************************************************************************)
EXTENDS Integers, Sequences, TLAPS

-----------------------------------------------------------------------------
(* Positions.                                                              *)

LEMMA TailShifts ==
    ASSUME NEW S, NEW q \in Seq(S), q # <<>>
    PROVE  /\ Head(q) \in S /\ Head(q) = q[1] /\ Len(q) \in Nat \ {0}
           /\ Tail(q) \in Seq(S) /\ Len(Tail(q)) = Len(q) - 1
           /\ \A i \in 1..Len(Tail(q)) : i + 1 \in 1..Len(q) /\ Tail(q)[i] = q[i + 1]
  OBVIOUS

LEMMA AppendExtends ==
    ASSUME NEW S, NEW q \in Seq(S), NEW x \in S
    PROVE  /\ Append(q, x) \in Seq(S) /\ Len(Append(q, x)) = Len(q) + 1 /\ Len(q) \in Nat
           /\ Append(q, x) # <<>>
           /\ \A i \in 1..Len(q) : Append(q, x)[i] = q[i]
           /\ Append(q, x)[Len(q) + 1] = x
           /\ \A i \in 1..Len(Append(q, x)) : i \in 1..Len(q) \/ i = Len(q) + 1
  OBVIOUS

LEMMA ConcatJoins ==
    ASSUME NEW S, NEW q \in Seq(S), NEW t \in Seq(S)
    PROVE  /\ q \o t \in Seq(S) /\ Len(q \o t) = Len(q) + Len(t)
           /\ Len(q) \in Nat /\ Len(t) \in Nat
           /\ \A i \in 1..Len(q) : (q \o t)[i] = q[i]
           /\ \A i \in 1..Len(t) : (q \o t)[Len(q) + i] = t[i]
           /\ \A i \in 1..Len(q \o t) : i \in 1..Len(q) \/ i - Len(q) \in 1..Len(t)
  OBVIOUS

-----------------------------------------------------------------------------
(* What a queue holds.                                                     *)

Elements(q) == {q[i] : i \in 1..Len(q)}

LEMMA ElementsTail ==
    ASSUME NEW S, NEW q \in Seq(S), q # <<>>
    PROVE  /\ Head(q) \in Elements(q) /\ Elements(q) \subseteq S
           /\ Elements(q) = Elements(Tail(q)) \cup {Head(q)}
  <1>1. ASSUME NEW i \in 1..Len(q)
        PROVE  q[i] \in Elements(Tail(q)) \cup {Head(q)}
    <2>1. CASE i = 1
      BY <2>1, TailShifts
    <2>2. CASE i # 1
      <3>1. i - 1 \in 1..Len(Tail(q)) /\ (i - 1) + 1 = i
        BY <2>2, TailShifts
      <3>2. Tail(q)[i - 1] = q[i]
        BY <3>1, TailShifts
      <3>. QED
        BY <3>1, <3>2 DEF Elements
    <2>. QED
      BY <2>1, <2>2
  <1>2. Elements(q) \subseteq Elements(Tail(q)) \cup {Head(q)}
    BY <1>1 DEF Elements
  <1>3. Elements(Tail(q)) \cup {Head(q)} \subseteq Elements(q)
    BY TailShifts DEF Elements
  <1>. QED
    BY <1>2, <1>3 DEF Elements

LEMMA ElementsAppend ==
    ASSUME NEW S, NEW q \in Seq(S), NEW x \in S
    PROVE  Elements(Append(q, x)) = Elements(q) \cup {x}
  <1>1. Elements(Append(q, x)) \subseteq Elements(q) \cup {x}
    BY AppendExtends DEF Elements
  <1>2. Elements(q) \cup {x} \subseteq Elements(Append(q, x))
    BY AppendExtends DEF Elements
  <1>. QED
    BY <1>1, <1>2

LEMMA ElementsConcat ==
    ASSUME NEW S, NEW q \in Seq(S), NEW t \in Seq(S)
    PROVE  Elements(q \o t) = Elements(q) \cup Elements(t)
  <1>1. Elements(q \o t) \subseteq Elements(q) \cup Elements(t)
    <2>1. \A i \in 1..Len(q \o t) : i \in 1..Len(q) \/ (i - Len(q) \in 1..Len(t) /\ (q \o t)[i] = t[i - Len(q)])
      BY ConcatJoins
    <2>. QED
      BY <2>1, ConcatJoins DEF Elements
  <1>2. \A i \in 1..Len(q) : i \in 1..Len(q \o t)
    BY ConcatJoins
  <1>3. \A i \in 1..Len(t) : Len(q) + i \in 1..Len(q \o t)
    BY ConcatJoins
  <1>4. Elements(q) \subseteq Elements(q \o t)
    BY <1>2, ConcatJoins DEF Elements
  <1>5. Elements(t) \subseteq Elements(q \o t)
    BY <1>3, ConcatJoins DEF Elements
  <1>. QED
    BY <1>1, <1>4, <1>5

LEMMA ElementsEmpty == Elements(<<>>) = {}
  BY DEF Elements

-----------------------------------------------------------------------------
(* No two elements of a queue have the same key.                           *)

Distinct(q, key) == \A i, j \in 1..Len(q) : key[q[i]] = key[q[j]] => i = j

LEMMA DistinctTail ==
    ASSUME NEW S, NEW q \in Seq(S), q # <<>>, NEW key, Distinct(q, key)
    PROVE  Distinct(Tail(q), key) /\ \A x \in Elements(Tail(q)) : key[x] # key[Head(q)]
  <1>0. /\ Head(q) = q[1] /\ Len(q) \in Nat \ {0}
        /\ \A i \in 1..Len(Tail(q)) : i + 1 \in 1..Len(q) /\ Tail(q)[i] = q[i + 1]
    BY TailShifts
  <1>1. ASSUME NEW i \in 1..Len(Tail(q)), NEW j \in 1..Len(Tail(q)),
               key[Tail(q)[i]] = key[Tail(q)[j]]
        PROVE  i = j
    <2>1. i + 1 = j + 1
      BY <1>0, <1>1 DEF Distinct
    <2>. QED
      BY <2>1
  <1>2. ASSUME NEW i \in 1..Len(Tail(q)), key[Tail(q)[i]] = key[Head(q)]
        PROVE  FALSE
    <2>1. i + 1 = 1
      BY <1>0, <1>2 DEF Distinct
    <2>. QED
      BY <2>1
  <1>. QED
    BY <1>1, <1>2 DEF Distinct, Elements

LEMMA DistinctAppend ==
    ASSUME NEW S, NEW q \in Seq(S), NEW x \in S, NEW key, Distinct(q, key),
           \A y \in Elements(q) : key[y] # key[x]
    PROVE  Distinct(Append(q, x), key)
  <1>. SUFFICES ASSUME NEW i \in 1..Len(Append(q, x)), NEW j \in 1..Len(Append(q, x)),
                       key[Append(q, x)[i]] = key[Append(q, x)[j]]
                PROVE  i = j
    BY DEF Distinct
  <1>1. CASE i \in 1..Len(q) /\ j \in 1..Len(q)
    BY <1>1, AppendExtends DEF Distinct
  <1>2. CASE i = Len(q) + 1 /\ j \in 1..Len(q)
    BY <1>2, AppendExtends DEF Elements
  <1>3. CASE i \in 1..Len(q) /\ j = Len(q) + 1
    BY <1>3, AppendExtends DEF Elements
  <1>. QED
    BY <1>1, <1>2, <1>3, AppendExtends

-----------------------------------------------------------------------------
(* No element of A comes before one of B.                                  *)

NeverBefore(q, A, B) == \A i, j \in 1..Len(q) : i < j /\ q[i] \in A => q[j] \notin B

LEMMA NeverBeforeTail ==
    ASSUME NEW S, NEW q \in Seq(S), q # <<>>, NEW A, NEW B, NeverBefore(q, A, B)
    PROVE  /\ NeverBefore(Tail(q), A, B)
           /\ Head(q) \in A => \A x \in Elements(Tail(q)) : x \notin B
  <1>0. /\ Head(q) = q[1] /\ Len(q) \in Nat \ {0}
        /\ \A i \in 1..Len(Tail(q)) : i + 1 \in 1..Len(q) /\ Tail(q)[i] = q[i + 1]
    BY TailShifts
  <1>1. ASSUME NEW i \in 1..Len(Tail(q)), NEW j \in 1..Len(Tail(q)), i < j, Tail(q)[i] \in A
        PROVE  Tail(q)[j] \notin B
    <2>1. i + 1 < j + 1
      BY <1>1
    <2>. QED
      BY <1>0, <1>1, <2>1 DEF NeverBefore
  <1>2. ASSUME Head(q) \in A, NEW i \in 1..Len(Tail(q))
        PROVE  Tail(q)[i] \notin B
    <2>1. 1 \in 1..Len(q) /\ 1 < i + 1
      BY <1>0
    <2>. QED
      BY <1>0, <1>2, <2>1 DEF NeverBefore
  <1>. QED
    BY <1>1, <1>2 DEF NeverBefore, Elements

LEMMA NeverBeforeAppend ==
    ASSUME NEW S, NEW q \in Seq(S), NEW x \in S, NEW A, NEW B, NeverBefore(q, A, B),
           x \in B => \A y \in Elements(q) : y \notin A
    PROVE  NeverBefore(Append(q, x), A, B)
  <1>. SUFFICES ASSUME NEW i \in 1..Len(Append(q, x)), NEW j \in 1..Len(Append(q, x)),
                       i < j, Append(q, x)[i] \in A
                PROVE  Append(q, x)[j] \notin B
    BY DEF NeverBefore
  <1>1. CASE j \in 1..Len(q)
    <2>1. i \in 1..Len(q)
      BY <1>1, AppendExtends
    <2>. QED
      BY <1>1, <2>1, AppendExtends DEF NeverBefore
  <1>2. CASE j = Len(q) + 1
    <2>1. i \in 1..Len(q) /\ Append(q, x)[j] = x /\ Append(q, x)[i] = q[i]
      BY <1>2, AppendExtends
    <2>. QED
      BY <2>1 DEF Elements
  <1>. QED
    BY <1>1, <1>2, AppendExtends
=============================================================================
