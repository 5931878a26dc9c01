----------------------------- MODULE OpenFiles -----------------------------
(***************************************************************************)
(* The files the native module holds open: SambaFsp::openFile, readFile,   *)
(* writeFile, closeFile and truncate.  For every open request the module   *)
(* remembers the offset it believes libsmbclient's descriptor is at, and   *)
(* skips smbc_lseek when a request starts there.  The descriptor's real    *)
(* position is libsmbclient's.  The module serves one message at a time,   *)
(* so each handler is one step; all the descriptors here are of one file   *)
(* on the server.                                                          *)
(***************************************************************************)
EXTENDS Integers

CONSTANTS Opens,      \* request ids of the openFile requests
          MaxOffset,  \* bound: offsets and lengths the Files app asks for
          MaxLength,  \* bound: lengths of the file
          ChunkSize,  \* MAX_BYTES_PER_READ; the code's is 32 KiB
          MaxInt,     \* the largest int, to which readFile casts the seek target
          MaxBelief   \* bound: the offset the module may believe in

ASSUME MaxOffsetAssumption == MaxOffset \in Nat
ASSUME MaxLengthAssumption == MaxLength \in Nat
ASSUME ChunkSizeAssumption == ChunkSize \in Nat \ {0}
ASSUME MaxIntAssumption == MaxInt \in Nat
ASSUME MaxBeliefAssumption == MaxBelief \in Nat

Offsets == 0..MaxOffset
Lengths == 0..MaxLength
Unsure == -1   \* OpenFileInfo::offset after an error: seek before the next use
Modes == {"READ", "WRITE"}

VARIABLES
    length,        \* the file's length on the server
    phase,         \* of each open request: "unopened", "open" or "closed"
    mode,          \* OpenFileInfo::mode
    lengthAtOpen,  \* OpenFileInfo::lengthAtOpen
    offset,        \* OpenFileInfo::offset, what the module believes
    position,      \* where libsmbclient's descriptor is
    reach,         \* history: where the last access ended, or began if it failed
    retreated,     \* history: opens with an access that began before reach
    shortened,     \* history: opens with a write that smbc_write cut short
    misplaced,     \* history: opens with data read from or written to another
                   \* offset than the request's
    resized,       \* history: opens during which the file's length has changed
    curtailed      \* history: opens with a read that succeeded and gave less than
                   \* was asked for and the file has

infoVars == <<phase, mode, lengthAtOpen>>
historyVars == <<reach, retreated, shortened, misplaced>>
extentVars == <<resized, curtailed>>
vars == <<length, infoVars, offset, position, historyVars, extentVars>>

Lesser(a, b) == IF a < b THEN a ELSE b
Greater(a, b) == IF a > b THEN a ELSE b

Init ==
    /\ length \in Lengths
    /\ phase = [h \in Opens |-> "unopened"]
    /\ mode = [h \in Opens |-> "READ"]
    /\ lengthAtOpen = [h \in Opens |-> 0]
    /\ offset = [h \in Opens |-> 0]
    /\ position = [h \in Opens |-> 0]
    /\ reach = [h \in Opens |-> 0]
    /\ retreated = {}
    /\ shortened = {}
    /\ misplaced = {}
    /\ resized = {}
    /\ curtailed = {}

\* The length of the file becomes n while files are open.
Resize(n) ==
    /\ length' = n
    /\ resized' = IF n = length THEN resized
                  ELSE resized \cup {k \in Opens : phase[k] = "open"}

-----------------------------------------------------------------------------
\* smbc_open and smbc_fstat succeed; when one fails nothing is remembered.
OpenFile(h, m) ==
    /\ phase[h] = "unopened"
    /\ phase' = [phase EXCEPT ![h] = "open"]
    /\ mode' = [mode EXCEPT ![h] = m]
    /\ lengthAtOpen' = [lengthAtOpen EXCEPT ![h] = length]
    /\ UNCHANGED <<length, offset, position, historyVars, extentVars>>

CloseFile(h) ==
    /\ phase[h] = "open"
    /\ phase' = [phase EXCEPT ![h] = "closed"]
    /\ UNCHANGED <<length, mode, lengthAtOpen, offset, position, historyVars, extentVars>>

\* truncate opens the file by its path and leaves the open files alone.
Truncate(n) ==
    /\ Resize(n)
    /\ UNCHANGED <<infoVars, offset, position, historyVars, curtailed>>

-----------------------------------------------------------------------------
(* An access of h that the Files app asks to begin at o.                   *)

NeedsSeek(h, o) == offset[h] < 0 \/ offset[h] # o

\* Where smbc_read or smbc_write begins, once a seek that was needed has worked.
Start(h, o) == IF NeedsSeek(h, o) THEN o ELSE position[h]

\* The history of an access that begins at o and reaches up to end.
Accessed(h, o, end, start, touches) ==
    /\ reach' = [reach EXCEPT ![h] = end]
    /\ retreated' = IF o < reach[h] THEN retreated \cup {h} ELSE retreated
    /\ misplaced' = IF touches /\ start # o THEN misplaced \cup {h} ELSE misplaced

\* Mutants: the last byte of the file is taken for its end; the remaining length is
\* computed as a signed number.
TotalBytesToReadOneLess(h, o, len) ==
    IF o < lengthAtOpen[h] THEN {Lesser(lengthAtOpen[h] - o - 1, len)} ELSE {0}

TotalBytesToReadSigned(h, o, len) == {Lesser(lengthAtOpen[h] - o, len)}

\* totalBytesToRead.  An offset past the length, or a length that no int holds,
\* makes remainingFileLength of a negative double, which is undefined.
TotalBytesToRead(h, o, len) ==
    IF o <= lengthAtOpen[h] /\ lengthAtOpen[h] <= MaxInt
      THEN {Lesser(lengthAtOpen[h] - o, len)}
      ELSE 0..len

\* What of total bytes the loop may have read: whole chunks, then the rest.
ChunksOf(total) == {done \in 0..total : done = total \/ done % ChunkSize = 0}

\* What the file has from start on.
Remaining(start) == Greater(length - start, 0)

\* smbc_lseek fails, or returns another offset than it was asked: the cast of
\* an offset above MaxInt is undefined.  The believed offset stays as it was.
ReadSeekFails(h, o) ==
    /\ phase[h] = "open"
    /\ NeedsSeek(h, o)
    /\ \E target \in {position[h]} \cup (IF o > MaxInt THEN Offsets \ {o} ELSE {}) :
          position' = [position EXCEPT ![h] = target]
    /\ Accessed(h, o, o, o, FALSE)
    /\ UNCHANGED <<length, infoVars, offset, shortened, extentVars>>

SeekWorks(h, o) == NeedsSeek(h, o) => o <= MaxInt

\* Every chunk is read and sent, or there is nothing to read.
ReadFile(h, o, len) ==
    /\ phase[h] = "open"
    /\ SeekWorks(h, o)
    /\ \E total \in TotalBytesToRead(h, o, len) :
          LET start == Start(h, o)
          IN /\ total <= Remaining(start)
             /\ offset[h] + total <= MaxBelief
             /\ offset' = [offset EXCEPT ![h] = @ + total]
             /\ position' = [position EXCEPT ![h] = start + total]
             /\ Accessed(h, o, o + total, start, total > 0)
             /\ curtailed' = IF total < Lesser(len, Remaining(o)) THEN curtailed \cup {h}
                                                                 ELSE curtailed
    /\ UNCHANGED <<length, infoVars, shortened, resized>>

\* Mutant: a read that fails leaves the bytes it has counted.
BelievedAfterFailureCounted(h, done) == offset[h] + done

\* The offset that is believed in after done bytes were read or written and the
\* next call failed.
BelievedAfterFailure(h, done) == Unsure

\* smbc_read fails after done bytes in whole chunks, or is short: it returns
\* fewer bytes, extra, than the next chunk has.
ReadFails(h, o, len) ==
    /\ phase[h] = "open"
    /\ SeekWorks(h, o)
    /\ \E total \in TotalBytesToRead(h, o, len) :
          LET start == Start(h, o)
          IN \E done \in ChunksOf(total) \ {total}, extra \in 0..(ChunkSize - 1) :
                /\ done + extra < total
                /\ done + extra <= Remaining(start)
                /\ extra > 0 => done + extra = Remaining(start)
                /\ offset' = [offset EXCEPT ![h] = BelievedAfterFailure(h, done)]
                /\ position' = [position EXCEPT ![h] = start + done + extra]
                /\ Accessed(h, o, o, start, done > 0)
    /\ UNCHANGED <<length, infoVars, shortened, extentVars>>

\* The length of the file once bytes are written from start on.
Extended(start, bytes) == IF bytes = 0 THEN length ELSE Greater(length, start + bytes)

\* smbc_write takes written of the len bytes; the module takes any count that is
\* not negative for all of them.
WriteFile(h, o, len, written) ==
    /\ phase[h] = "open"
    /\ mode[h] = "WRITE" \/ len = 0
    /\ written = len \/ (0 < written /\ written < len)
    /\ LET start == Start(h, o)
       IN /\ Extended(start, written) <= MaxLength
          /\ offset[h] + len <= MaxBelief
          /\ Resize(Extended(start, written))
          /\ offset' = [offset EXCEPT ![h] = @ + len]
          /\ position' = [position EXCEPT ![h] = start + written]
          /\ Accessed(h, o, o + len, start, len > 0)
    /\ shortened' = IF written < len THEN shortened \cup {h} ELSE shortened
    /\ UNCHANGED <<infoVars, curtailed>>

WriteSeekFails(h, o) ==
    /\ phase[h] = "open"
    /\ NeedsSeek(h, o)
    /\ offset' = [offset EXCEPT ![h] = BelievedAfterFailure(h, 0)]
    /\ Accessed(h, o, o, o, FALSE)
    /\ UNCHANGED <<length, infoVars, position, shortened, extentVars>>

\* smbc_write fails; bytes of the data may have reached the server.
WriteFails(h, o, len, bytes) ==
    /\ phase[h] = "open"
    /\ len > 0
    /\ mode[h] = "WRITE" \/ bytes = 0
    /\ bytes <= len
    /\ LET start == Start(h, o)
       IN /\ Extended(start, bytes) <= MaxLength
          /\ Resize(Extended(start, bytes))
          /\ position' = [position EXCEPT ![h] = start]
          /\ Accessed(h, o, o, start, bytes > 0)
    /\ offset' = [offset EXCEPT ![h] = BelievedAfterFailure(h, 0)]
    /\ UNCHANGED <<infoVars, shortened, curtailed>>

-----------------------------------------------------------------------------
Read(h, o) == \/ ReadSeekFails(h, o)
              \/ \E len \in Offsets : ReadFile(h, o, len) \/ ReadFails(h, o, len)

Write(h, o) == \/ WriteSeekFails(h, o)
               \/ \E len \in Offsets, bytes \in Offsets :
                     WriteFile(h, o, len, bytes) \/ WriteFails(h, o, len, bytes)

Next == \/ \E h \in Opens : \/ \E m \in Modes : OpenFile(h, m)
                            \/ CloseFile(h)
                            \/ \E o \in Offsets : Read(h, o) \/ Write(h, o)
        \/ \E n \in Lengths : Truncate(n)

Spec == Init /\ [][Next]_vars

-----------------------------------------------------------------------------
(* Properties.                                                             *)

\* Every variable has its type; what the module believes is an offset or Unsure.
TypeOK ==
    /\ length \in Nat
    /\ phase \in [Opens -> {"unopened", "open", "closed"}]
    /\ mode \in [Opens -> Modes]
    /\ lengthAtOpen \in [Opens -> Nat]
    /\ offset \in [Opens -> Nat \cup {Unsure}]
    /\ position \in [Opens -> Nat]
    /\ reach \in [Opens -> Nat]
    /\ retreated \subseteq Opens /\ shortened \subseteq Opens /\ misplaced \subseteq Opens
    /\ resized \subseteq Opens /\ curtailed \subseteq Opens

\* A file that is read and written forward only has each access served at the
\* offset it asks for: whatever fails, is sought in vain, is retried from the
\* same offset, is truncated or ends early in between, a seek is skipped only
\* where the descriptor is.  A write that smbc_write cut short is the exception.
ForwardAccessIsExact == misplaced \subseteq retreated \cup shortened

\* A read that succeeds gives all that was asked for and the file has.  The
\* exceptions are a file whose length has changed since it was opened, by this open
\* or another or by truncate, for the length at open is never renewed: what was
\* written behind it cannot be read back; and a length that no int holds.
ReadsAreWhole == curtailed \subseteq resized \cup {h \in Opens : lengthAtOpen[h] > MaxInt}

\* A seek that readFile or writeFile skips was redundant: whatever the order of
\* the offsets, data is read from and written to where the request says.
SkippedSeeksAreRedundant == misplaced \subseteq shortened
=============================================================================
