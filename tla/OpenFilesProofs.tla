-------------------------- MODULE OpenFilesProofs --------------------------
(***************************************************************************)
(* Proofs about OpenFiles for any number of open files, any lengths and    *)
(* offsets and any size of a chunk.                                        *)
(*                                                                         *)
(* ForwardAccessIsExact is not inductive: it says nothing of the offsets.  *)
(* What makes a skipped seek redundant on a file accessed forward only is  *)
(* that the module never believes in an offset beyond what was reached, and*)
(* believes in the end of the last access only if the descriptor is there. *)
(* ReadsAreWhole rests on the length that was kept at open: it is the      *)
(* file's for as long as the file is not resized.                          *)
(***************************************************************************)
EXTENDS OpenFiles, TLAPS

Forward(h) == h \notin retreated /\ h \notin shortened

Believes(h) == /\ offset[h] <= reach[h]
               /\ offset[h] = reach[h] => position[h] = reach[h]

BeliefIsSafe == \A h \in Opens : Forward(h) => Believes(h)

IInv == TypeOK /\ BeliefIsSafe /\ ForwardAccessIsExact

LengthKnown == \A h \in Opens : phase[h] = "open" /\ h \notin resized
                                  => lengthAtOpen[h] = length

CurtailedWereOpened == \A h \in curtailed : phase[h] # "unopened"

ExtentIInv == LengthKnown /\ CurtailedWereOpened /\ ReadsAreWhole

-----------------------------------------------------------------------------
LEMMA Assumptions ==
    /\ MaxOffset \in Nat /\ MaxLength \in Nat /\ MaxInt \in Nat /\ ChunkSize \in Nat \ {0}
    /\ Offsets \subseteq Nat /\ Lengths \subseteq Nat
    /\ \A o \in Offsets : o \in Int /\ 0 <= o
  BY MaxOffsetAssumption, MaxLengthAssumption, MaxIntAssumption, ChunkSizeAssumption
  DEF Offsets, Lengths

\* An access of h begins at o, or where a descriptor is that is believed to be at o.
LEMMA StartTyped ==
    ASSUME TypeOK, NEW h \in Opens, NEW o \in Offsets
    PROVE  Start(h, o) \in Nat /\ (Start(h, o) = o \/ (offset[h] = o /\ Start(h, o) = position[h]))
  BY Assumptions DEF Start, NeedsSeek, TypeOK

\* An access that does not begin before the reach of a forward file begins at
\* the offset it asks for, and the belief after it is at most the reach.
LEMMA ForwardStart ==
    ASSUME IInv, NEW h \in Opens, NEW o \in Offsets, Forward(h), reach[h] <= o
    PROVE  Start(h, o) = o /\ offset[h] <= o /\ offset[h] \in Int /\ o \in Int
           /\ (offset[h] = o => position[h] = o)
  BY Assumptions DEF IInv, TypeOK, BeliefIsSafe, Believes, Start, NeedsSeek, Unsure

LEMMA TotalTyped ==
    ASSUME TypeOK, NEW h \in Opens, NEW o \in Offsets, NEW len \in Offsets,
           NEW total \in TotalBytesToRead(h, o, len)
    PROVE  total \in Nat
  BY Assumptions DEF TotalBytesToRead, Lesser, TypeOK

\* An access of h is a step that gives h a belief, a position and a history, and
\* leaves every other file alone.
Access(h, o, believed, at, end, touches) ==
    /\ offset' = [offset EXCEPT ![h] = believed]
    /\ position' = [position EXCEPT ![h] = at]
    /\ Accessed(h, o, end, Start(h, o), touches)

\* An access of h keeps the invariant if, from a forward file, the belief it
\* leaves is safe.
LEMMA AccessIInv ==
    ASSUME IInv, NEW h \in Opens, NEW o \in Offsets, NEW believed \in Nat \cup {Unsure},
           NEW at \in Nat, NEW end \in Nat, NEW touches \in BOOLEAN,
           Access(h, o, believed, at, end, touches),
           UNCHANGED infoVars, length' \in Nat,
           shortened' \in {shortened, shortened \cup {h}},
           resized' \subseteq Opens, curtailed' \subseteq Opens,
           Forward(h)' /\ reach[h] <= o => believed <= end /\ (believed = end => at = end)
    PROVE  IInv'
  <1>. USE Assumptions
  <1>1. /\ offset' = [offset EXCEPT ![h] = believed]
        /\ position' = [position EXCEPT ![h] = at]
        /\ reach' = [reach EXCEPT ![h] = end]
        /\ retreated' = IF o < reach[h] THEN retreated \cup {h} ELSE retreated
        /\ misplaced' = IF touches /\ Start(h, o) # o THEN misplaced \cup {h} ELSE misplaced
    BY DEF Access, Accessed
  <1>2. TypeOK'
    BY <1>1 DEF IInv, TypeOK, infoVars
  <1>3. BeliefIsSafe'
    <2>. SUFFICES ASSUME NEW k \in Opens, Forward(k)'
                  PROVE  Believes(k)'
      BY DEF BeliefIsSafe
    <2>1. Forward(k)
      BY <1>1 DEF Forward
    <2>2. CASE k = h
      <3>1. reach[h] <= o
        BY <1>1, <2>2 DEF Forward, IInv, TypeOK
      <3>2. offset'[h] = believed /\ position'[h] = at /\ reach'[h] = end
        BY <1>1 DEF IInv, TypeOK
      <3>. QED  BY <2>2, <3>1, <3>2 DEF Believes
    <2>3. CASE k # h
      <3>1. offset'[k] = offset[k] /\ position'[k] = position[k] /\ reach'[k] = reach[k]
        BY <1>1, <2>3 DEF IInv, TypeOK
      <3>. QED  BY <2>1, <3>1 DEF IInv, BeliefIsSafe, Believes
    <2>. QED  BY <2>2, <2>3
  <1>4. ForwardAccessIsExact'
    <2>1. misplaced \subseteq retreated' \cup shortened'
      BY <1>1 DEF IInv, ForwardAccessIsExact
    <2>2. ASSUME Start(h, o) # o PROVE h \in retreated' \cup shortened'
      <3>1. CASE Forward(h)
        <4>1. ~(reach[h] <= o)
          BY <2>2, <3>1, ForwardStart
        <4>2. o < reach[h]
          BY <4>1 DEF IInv, TypeOK
        <4>. QED  BY <1>1, <4>2
      <3>2. CASE ~Forward(h)
        BY <1>1, <3>2 DEF Forward
      <3>. QED  BY <3>1, <3>2
    <2>. QED  BY <1>1, <2>1, <2>2 DEF ForwardAccessIsExact
  <1>. QED  BY <1>2, <1>3, <1>4 DEF IInv

-----------------------------------------------------------------------------
(* Each action preserves the invariant.                                    *)

LEMMA InitIInv ==
    ASSUME Init PROVE IInv
  BY Assumptions
  DEF Init, IInv, TypeOK, BeliefIsSafe, Believes, ForwardAccessIsExact, Modes

\* Opening, closing and truncating touch no belief.
LEMMA QuietIInv ==
    ASSUME IInv, TypeOK', UNCHANGED <<offset, position, historyVars>>
    PROVE  IInv'
  BY DEF IInv, BeliefIsSafe, Believes, Forward, ForwardAccessIsExact, historyVars

LEMMA ReadSeekFailsIInv ==
    ASSUME IInv, NEW h \in Opens, NEW o \in Offsets, ReadSeekFails(h, o)
    PROVE  IInv'
  <1>. USE Assumptions
  <1>1. PICK target \in Nat : position' = [position EXCEPT ![h] = target]
    BY DEF ReadSeekFails, IInv, TypeOK
  <1>2. offset' = [offset EXCEPT ![h] = offset[h]] /\ offset[h] \in Nat \cup {Unsure}
    BY DEF ReadSeekFails, IInv, TypeOK
  <1>3. Start(h, o) = o
    BY DEF ReadSeekFails, Start
  <1>4. Access(h, o, offset[h], target, o, FALSE)
    BY <1>1, <1>2, <1>3 DEF ReadSeekFails, Access
  <1>5. Forward(h)' /\ reach[h] <= o => offset[h] <= o /\ offset[h] # o
    <2>1. Forward(h)' => Forward(h)
      BY DEF ReadSeekFails, Accessed, Forward
    <2>2. offset[h] # o
      BY DEF ReadSeekFails, NeedsSeek, Unsure
    <2>. QED  BY <2>1, <2>2, ForwardStart
  <1>6. /\ UNCHANGED <<length, infoVars, shortened, extentVars>> /\ length' \in Nat
        /\ resized' \subseteq Opens /\ curtailed' \subseteq Opens
    BY DEF ReadSeekFails, IInv, TypeOK, extentVars
  <1>. QED  BY <1>1, <1>2, <1>4, <1>5, <1>6, AccessIInv

LEMMA ReadFileIInv ==
    ASSUME IInv, NEW h \in Opens, NEW o \in Offsets, NEW len \in Offsets, ReadFile(h, o, len)
    PROVE  IInv'
  <1>. USE Assumptions
  <1>1. PICK total \in TotalBytesToRead(h, o, len) :
           /\ offset' = [offset EXCEPT ![h] = offset[h] + total]
           /\ position' = [position EXCEPT ![h] = Start(h, o) + total]
           /\ Accessed(h, o, o + total, Start(h, o), total > 0)
    BY DEF ReadFile
  <1>2. total \in Nat /\ Start(h, o) \in Nat
    BY StartTyped, TotalTyped DEF IInv
  <1>. DEFINE believed == offset[h] + total
  <1>3. believed \in Nat \cup {Unsure}
    BY <1>2 DEF IInv, TypeOK, Unsure
  <1>4. Start(h, o) + total \in Nat /\ o + total \in Nat /\ (total > 0) \in BOOLEAN
    BY <1>2
  <1>5. Access(h, o, believed, Start(h, o) + total, o + total, total > 0)
    BY <1>1 DEF Access
  <1>6. Forward(h)' /\ reach[h] <= o
          => believed <= o + total
             /\ (believed = o + total => Start(h, o) + total = o + total)
    <2>1. Forward(h)' => Forward(h)
      BY <1>1 DEF ReadFile, Accessed, Forward
    <2>. QED  BY <1>2, <2>1, ForwardStart
  <1>7. /\ UNCHANGED <<length, infoVars, shortened>> /\ length' \in Nat
        /\ resized' \subseteq Opens /\ curtailed' \subseteq Opens
    BY DEF ReadFile, IInv, TypeOK
  <1>. QED  BY ZenonT(30), <1>3, <1>4, <1>5, <1>6, <1>7, AccessIInv

LEMMA ReadFailsIInv ==
    ASSUME IInv, NEW h \in Opens, NEW o \in Offsets, NEW len \in Offsets, ReadFails(h, o, len)
    PROVE  IInv'
  <1>. USE Assumptions
  <1>1. PICK total \in TotalBytesToRead(h, o, len) :
           \E done \in ChunksOf(total) \ {total}, extra \in 0..(ChunkSize - 1) :
              /\ offset' = [offset EXCEPT ![h] = BelievedAfterFailure(h, done)]
              /\ position' = [position EXCEPT ![h] = Start(h, o) + done + extra]
              /\ Accessed(h, o, o, Start(h, o), done > 0)
    BY DEF ReadFails
  <1>2. PICK done \in ChunksOf(total) \ {total}, extra \in 0..(ChunkSize - 1) :
              /\ offset' = [offset EXCEPT ![h] = BelievedAfterFailure(h, done)]
              /\ position' = [position EXCEPT ![h] = Start(h, o) + done + extra]
              /\ Accessed(h, o, o, Start(h, o), done > 0)
    BY <1>1
  <1>3. done \in Nat /\ extra \in Nat /\ Start(h, o) \in Nat
    BY StartTyped, TotalTyped DEF IInv, ChunksOf
  <1>4. Start(h, o) + done + extra \in Nat /\ (done > 0) \in BOOLEAN /\ o \in Nat
    BY <1>3
  <1>5. Access(h, o, Unsure, Start(h, o) + done + extra, o, done > 0)
    BY <1>2 DEF Access, BelievedAfterFailure
  <1>6. Unsure <= o /\ Unsure # o
    BY DEF Unsure
  <1>7. /\ UNCHANGED <<length, infoVars, shortened, extentVars>> /\ length' \in Nat
        /\ resized' \subseteq Opens /\ curtailed' \subseteq Opens
    BY DEF ReadFails, IInv, TypeOK, extentVars
  <1>. QED  BY <1>4, <1>5, <1>6, <1>7, AccessIInv

LEMMA ExtendedTyped ==
    ASSUME TypeOK, NEW start \in Nat, NEW bytes \in Offsets
    PROVE  Extended(start, bytes) \in Nat
  BY Assumptions DEF TypeOK, Extended, Greater

LEMMA WriteFileIInv ==
    ASSUME IInv, NEW h \in Opens, NEW o \in Offsets, NEW len \in Offsets,
           NEW written \in Offsets, WriteFile(h, o, len, written)
    PROVE  IInv'
  <1>. USE Assumptions
  <1>1. /\ offset' = [offset EXCEPT ![h] = offset[h] + len]
        /\ position' = [position EXCEPT ![h] = Start(h, o) + written]
        /\ Accessed(h, o, o + len, Start(h, o), len > 0)
        /\ length' = Extended(Start(h, o), written)
        /\ shortened' = IF written < len THEN shortened \cup {h} ELSE shortened
        /\ UNCHANGED infoVars
        /\ resized' \subseteq Opens /\ curtailed' \subseteq Opens
    BY DEF WriteFile, Resize, IInv, TypeOK
  <1>2. Start(h, o) \in Nat /\ length' \in Nat
    BY <1>1, StartTyped, ExtendedTyped DEF IInv
  <1>. DEFINE believed == offset[h] + len
              at == Start(h, o) + written
              end == o + len
              touches == len > 0
  <1>3. believed \in Nat \cup {Unsure}
    BY DEF IInv, TypeOK, Unsure
  <1>4. at \in Nat /\ end \in Nat /\ touches \in BOOLEAN
    BY <1>2
  <1>5. Access(h, o, believed, at, end, touches)
    BY <1>1 DEF Access
  <1>6. Forward(h)' /\ reach[h] <= o
          => believed <= end /\ (believed = end => at = end)
    <2>1. Forward(h)' => Forward(h)
      BY <1>1 DEF Accessed, Forward
    <2>2. Forward(h)' => written = len
      BY <1>1 DEF Forward, WriteFile
    <2>. QED  BY <2>1, <2>2, ForwardStart
  <1>7. /\ shortened' \in {shortened, shortened \cup {h}} /\ UNCHANGED infoVars
        /\ resized' \subseteq Opens /\ curtailed' \subseteq Opens
    BY <1>1
  <1>. HIDE DEF believed, at, end, touches
  <1>. QED  BY <1>2, <1>3, <1>4, <1>5, <1>6, <1>7, AccessIInv

LEMMA WriteSeekFailsIInv ==
    ASSUME IInv, NEW h \in Opens, NEW o \in Offsets, WriteSeekFails(h, o)
    PROVE  IInv'
  <1>. USE Assumptions
  <1>1. position' = [position EXCEPT ![h] = position[h]] /\ position[h] \in Nat
    BY DEF WriteSeekFails, IInv, TypeOK
  <1>2. Start(h, o) = o
    BY DEF WriteSeekFails, Start
  <1>3. Access(h, o, Unsure, position[h], o, FALSE)
    BY <1>1, <1>2 DEF WriteSeekFails, Access, BelievedAfterFailure
  <1>4. Unsure <= o /\ Unsure # o
    BY DEF Unsure
  <1>5. /\ UNCHANGED <<infoVars, shortened>> /\ length' \in Nat
        /\ resized' \subseteq Opens /\ curtailed' \subseteq Opens
    BY DEF WriteSeekFails, IInv, TypeOK, extentVars
  <1>. QED  BY <1>1, <1>3, <1>4, <1>5, AccessIInv

LEMMA WriteFailsIInv ==
    ASSUME IInv, NEW h \in Opens, NEW o \in Offsets, NEW len \in Offsets,
           NEW bytes \in Offsets, WriteFails(h, o, len, bytes)
    PROVE  IInv'
  <1>. USE Assumptions
  <1>1. /\ length' = Extended(Start(h, o), bytes)
        /\ position' = [position EXCEPT ![h] = Start(h, o)]
        /\ Accessed(h, o, o, Start(h, o), bytes > 0)
        /\ offset' = [offset EXCEPT ![h] = BelievedAfterFailure(h, 0)]
        /\ UNCHANGED <<infoVars, shortened>>
        /\ resized' \subseteq Opens /\ curtailed' \subseteq Opens
    BY DEF WriteFails, Resize, IInv, TypeOK
  <1>2. Start(h, o) \in Nat /\ length' \in Nat /\ (bytes > 0) \in BOOLEAN
    BY <1>1, StartTyped, ExtendedTyped DEF IInv
  <1>3. Access(h, o, Unsure, Start(h, o), o, bytes > 0)
    BY <1>1 DEF Access, BelievedAfterFailure
  <1>4. Unsure <= o /\ Unsure # o
    BY DEF Unsure
  <1>. QED  BY <1>1, <1>2, <1>3, <1>4, AccessIInv

-----------------------------------------------------------------------------
(* The lengths the module keeps.                                           *)

LEMMA InitExtent ==
    ASSUME Init PROVE ExtentIInv
  BY DEF Init, ExtentIInv, LengthKnown, CurtailedWereOpened, ReadsAreWhole

\* A step that opens nothing and curtails no read keeps it, if all that are open
\* see a change of the length.
LEMMA ResizeExtent ==
    ASSUME ExtentIInv, NEW n, Resize(n), UNCHANGED <<infoVars, curtailed>>
    PROVE  ExtentIInv'
  BY DEF ExtentIInv, LengthKnown, CurtailedWereOpened, ReadsAreWhole, Resize, infoVars

LEMMA UnchangedExtent ==
    ASSUME ExtentIInv, UNCHANGED <<length, infoVars, extentVars>>
    PROVE  ExtentIInv'
  BY DEF ExtentIInv, LengthKnown, CurtailedWereOpened, ReadsAreWhole, extentVars, infoVars

LEMMA OpenExtent ==
    ASSUME TypeOK, ExtentIInv, NEW h \in Opens, NEW m \in Modes, OpenFile(h, m)
    PROVE  ExtentIInv'
  <1>1. /\ phase' = [phase EXCEPT ![h] = "open"]
        /\ lengthAtOpen' = [lengthAtOpen EXCEPT ![h] = length]
        /\ UNCHANGED <<length, resized, curtailed>>
    BY DEF OpenFile, extentVars
  <1>2. h \notin curtailed
    BY DEF OpenFile, ExtentIInv, CurtailedWereOpened
  <1>3. LengthKnown'
    BY <1>1 DEF TypeOK, ExtentIInv, LengthKnown
  <1>4. CurtailedWereOpened' /\ ReadsAreWhole'
    BY <1>1, <1>2 DEF TypeOK, ExtentIInv, CurtailedWereOpened, ReadsAreWhole
  <1>. QED  BY <1>3, <1>4 DEF ExtentIInv

LEMMA CloseExtent ==
    ASSUME TypeOK, ExtentIInv, NEW h \in Opens, CloseFile(h)
    PROVE  ExtentIInv'
  <1>1. /\ phase' = [phase EXCEPT ![h] = "closed"]
        /\ UNCHANGED <<length, lengthAtOpen, resized, curtailed>>
    BY DEF CloseFile, extentVars
  <1>. QED  BY <1>1 DEF TypeOK, ExtentIInv, LengthKnown, CurtailedWereOpened, ReadsAreWhole

\* The bytes to read of a file whose length is known are all those it has.
LEMMA TotalIsWhole ==
    ASSUME TypeOK, NEW h \in Opens, NEW o \in Offsets, NEW len \in Offsets,
           lengthAtOpen[h] = length, length <= MaxInt,
           NEW total \in TotalBytesToRead(h, o, len)
    PROVE  ~(total < Lesser(len, Remaining(o)))
  <1>. USE Assumptions DEF Lesser, Greater, Remaining
  <1>1. length \in Nat /\ total \in Nat /\ o \in Nat /\ len \in Nat
    BY TotalTyped DEF TypeOK
  <1>2. CASE o <= length
    <2>1. total = Lesser(length - o, len)
      BY <1>2 DEF TotalBytesToRead
    <2>. QED  BY <1>1, <1>2, <2>1
  <1>3. CASE ~(o <= length)
    BY <1>1, <1>3
  <1>. QED  BY <1>2, <1>3

LEMMA ReadFileExtent ==
    ASSUME TypeOK, ExtentIInv, NEW h \in Opens, NEW o \in Offsets, NEW len \in Offsets,
           ReadFile(h, o, len)
    PROVE  ExtentIInv'
  <1>1. PICK total \in TotalBytesToRead(h, o, len) :
           curtailed' = IF total < Lesser(len, Remaining(o)) THEN curtailed \cup {h}
                                                             ELSE curtailed
    BY DEF ReadFile
  <1>2. UNCHANGED <<length, phase, lengthAtOpen, resized>> /\ phase[h] = "open"
    BY DEF ReadFile, infoVars
  <1>3. total < Lesser(len, Remaining(o)) => h \in resized \/ lengthAtOpen[h] > MaxInt
    BY <1>2, TotalIsWhole, Assumptions DEF ExtentIInv, LengthKnown, TypeOK
  <1>4. LengthKnown'
    BY <1>2 DEF ExtentIInv, LengthKnown
  <1>5. CurtailedWereOpened' /\ ReadsAreWhole'
    BY <1>1, <1>2, <1>3 DEF ExtentIInv, CurtailedWereOpened, ReadsAreWhole
  <1>. QED  BY <1>4, <1>5 DEF ExtentIInv

LEMMA NextExtent ==
    ASSUME TypeOK, ExtentIInv, [Next]_vars
    PROVE  ExtentIInv'
  <1>1. ASSUME NEW n \in Lengths, Truncate(n) PROVE ExtentIInv'
    BY <1>1, ResizeExtent DEF Truncate
  <1>2. ASSUME NEW h \in Opens, NEW o \in Offsets, Read(h, o) PROVE ExtentIInv'
    BY <1>2, ReadFileExtent, UnchangedExtent DEF Read, ReadSeekFails, ReadFails
  <1>3. ASSUME NEW h \in Opens, NEW o \in Offsets, Write(h, o) PROVE ExtentIInv'
    <2>1. CASE WriteSeekFails(h, o)
      BY <2>1, UnchangedExtent DEF WriteSeekFails
    <2>2. ASSUME NEW len \in Offsets, NEW bytes \in Offsets, WriteFile(h, o, len, bytes)
          PROVE  ExtentIInv'
      BY <2>2, ResizeExtent DEF WriteFile
    <2>3. ASSUME NEW len \in Offsets, NEW bytes \in Offsets, WriteFails(h, o, len, bytes)
          PROVE  ExtentIInv'
      BY <2>3, ResizeExtent DEF WriteFails
    <2>. QED  BY <1>3, <2>1, <2>2, <2>3 DEF Write
  <1>4. CASE UNCHANGED vars
    BY <1>4, UnchangedExtent DEF vars
  <1>. QED  BY <1>1, <1>2, <1>3, <1>4, OpenExtent, CloseExtent DEF Next

-----------------------------------------------------------------------------
(* The theorems.                                                           *)

\* IInv is an invariant of the open files.
THEOREM Invariance == Spec => []IInv
  <1>1. Init => IInv
    BY InitIInv
  <1>2. IInv /\ [Next]_vars => IInv'
    <2>. SUFFICES ASSUME IInv, [Next]_vars PROVE IInv'
      OBVIOUS
    <2>1. ASSUME NEW h \in Opens, NEW m \in Modes, OpenFile(h, m) PROVE IInv'
      <3>1. TypeOK'
        BY <2>1 DEF IInv, TypeOK, OpenFile, historyVars, extentVars
      <3>. QED  BY <2>1, <3>1, QuietIInv DEF OpenFile
    <2>2. ASSUME NEW h \in Opens, CloseFile(h) PROVE IInv'
      <3>1. TypeOK'
        BY <2>2 DEF IInv, TypeOK, CloseFile, historyVars, extentVars
      <3>. QED  BY <2>2, <3>1, QuietIInv DEF CloseFile
    <2>3. ASSUME NEW n \in Lengths, Truncate(n) PROVE IInv'
      <3>1. TypeOK'
        BY <2>3, Assumptions DEF IInv, TypeOK, Truncate, Resize, infoVars, historyVars
      <3>. QED  BY <2>3, <3>1, QuietIInv DEF Truncate
    <2>4. ASSUME NEW h \in Opens, NEW o \in Offsets, Read(h, o) PROVE IInv'
      BY <2>4, ReadSeekFailsIInv, ReadFileIInv, ReadFailsIInv DEF Read
    <2>5. ASSUME NEW h \in Opens, NEW o \in Offsets, Write(h, o) PROVE IInv'
      BY <2>5, WriteSeekFailsIInv, WriteFileIInv, WriteFailsIInv DEF Write
    <2>6. CASE UNCHANGED vars
      <3>1. TypeOK'
        BY <2>6 DEF IInv, TypeOK, vars, infoVars, historyVars, extentVars
      <3>. QED  BY <2>6, <3>1, QuietIInv DEF vars
    <2>. QED  BY <2>1, <2>2, <2>3, <2>4, <2>5, <2>6 DEF Next
  <1>. QED  BY <1>1, <1>2, PTL DEF Spec

\* What the module remembers of its open files keeps its types.
THEOREM TypeCorrect == Spec => []TypeOK
  <1>1. IInv => TypeOK
    BY DEF IInv
  <1>. QED  BY <1>1, Invariance, PTL

\* A file that is read and written forward only is read and written at the
\* offsets the Files app asks for, whatever fails in between.
THEOREM ForwardIsExact == Spec => []ForwardAccessIsExact
  <1>1. IInv => ForwardAccessIsExact
    BY DEF IInv
  <1>. QED  BY <1>1, Invariance, PTL

\* A read that succeeds gives all that was asked for and the file has, unless the
\* file was resized since it was opened or its length is one that no int holds.
THEOREM ReadsWhole == Spec => []ReadsAreWhole
  <1>1. Init => ExtentIInv
    BY InitExtent
  <1>2. TypeOK /\ ExtentIInv /\ [Next]_vars => ExtentIInv'
    BY NextExtent
  <1>3. ExtentIInv => ReadsAreWhole
    BY DEF ExtentIInv
  <1>. QED  BY <1>1, <1>2, <1>3, TypeCorrect, PTL DEF Spec
=============================================================================
