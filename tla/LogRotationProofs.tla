------------------------ MODULE LogRotationProofs ------------------------
(***************************************************************************)
(* Proofs about LogRotation, for every cap, number of backups and failures. *)
(***************************************************************************)
EXTENDS LogRotation, LeastNatural, FiniteSetTheorems, TLAPS

(***************************************************************************)
(* Arithmetic of caps, and the number of bytes in a file.                  *)
(***************************************************************************)

\* The bytes of k files: they add up file by file.
LEMMA CapOf ==
  ASSUME NEW n \in Int, NEW f \in Int
  PROVE  /\ Cap(n - f) \in Int
         /\ Cap(n - (f + 1)) = Cap(n - f) - MaxBytes
         /\ Cap((n + 1) - f) = Cap(n - f) + MaxBytes
  BY LogAssumption DEF Cap

\* The first backup is no further back than the log is long; a failure adds to it.
LEMMA CapOfFirst ==
  ASSUME NEW f \in Nat
  PROVE  Cap(1 - f) \in Int /\ Cap(1 - f) <= MaxBytes
  BY LogAssumption DEF Cap

\* A file of bytes that were written is finite and no longer than they are.
LEMMA FileCard ==
  ASSUME NEW w \in Nat, NEW S \in SUBSET (1 .. w)
  PROVE  IsFiniteSet(S) /\ Cardinality(S) \in Nat /\ Cardinality(S) <= w
  <1>1. IsFiniteSet(1 .. w) /\ Cardinality(1 .. w) = w
    BY FS_Interval
  <1> QED BY <1>1, FS_Subset, FS_CardinalityType

\* Two sets without a common member: the members of both.
LEMMA DisjointCard ==
  ASSUME NEW S, IsFiniteSet(S), NEW T, IsFiniteSet(T), S \cap T = {}
  PROVE  Cardinality(S \cup T) = Cardinality(S) + Cardinality(T)
  <1>1. Cardinality(S \cup T) = Cardinality(S) + Cardinality(T) - Cardinality(S \cap T)
    BY FS_Union
  <1>2. Cardinality(S \cap T) = 0
    BY FS_EmptySet
  <1>3. Cardinality(S) \in Nat /\ Cardinality(T) \in Nat
    BY FS_CardinalityType
  <1> QED BY <1>1, <1>2, <1>3

\* Bytes after those that are there lengthen the file by their number.
LEMMA AppendCard ==
  ASSUME NEW w \in Nat, NEW S \in SUBSET (1 .. w), NEW k \in Nat
  PROVE  Cardinality(S \cup (w + 1 .. w + k)) = Cardinality(S) + k
  <1>1. IsFiniteSet(w + 1 .. w + k) /\ Cardinality(w + 1 .. w + k) = k
    BY FS_Interval
  <1>2. IsFiniteSet(S) /\ S \cap (w + 1 .. w + k) = {}
    BY FileCard
  <1> QED BY <1>1, <1>2, DisjointCard

(***************************************************************************)
(* The calls.                                                              *)
(***************************************************************************)

\* The length of each file, whatever the state.
LEMMA Lengths ==
  ASSUME LogTypeOK, HandleInv, NEW n \in Names
  PROVE  /\ file[n] \subseteq 1 .. written
         /\ IsFiniteSet(file[n])
         /\ Cardinality(file[n]) \in 0 .. written
  <1>1. written \in Nat /\ file[n] \in SUBSET (1 .. written)
    BY LogAssumption DEF LogTypeOK, HandleInv
  <1> QED BY <1>1, FileCard

\* Bytes are only ever appended to the log itself, which is there, and no more
\* of them than there is room for.
LEMMA Appends ==
  ASSUME LogTypeOK, HandleInv, at = "write", size < MaxBytes
  PROVE  /\ handle = 0 /\ 0 \in exists /\ 0 \in Names
         /\ Room \in 0 .. todo /\ size + Room <= MaxBytes
         /\ Room = todo \/ size + Room = MaxBytes
  BY LogAssumption DEF LogTypeOK, HandleInv, Room, Names

\* What an append of k bytes makes of the files.
LEMMA Appended ==
  ASSUME LogTypeOK, HandleInv, at = "write", size < MaxBytes,
         NEW k \in 0 .. Room,
         file' = [file EXCEPT ![handle] = @ \cup (written + 1 .. written + k)],
         written' = written + k
  PROVE  /\ file'[0] = file[0] \cup (written + 1 .. written + k)
         /\ Cardinality(file'[0]) = Cardinality(file[0]) + k
         /\ \A n \in Names \ {0} : file'[n] = file[n]
         /\ file' \in [Names -> SUBSET (1 .. Bytes)]
         /\ \A n \in Names : file'[n] \subseteq 1 .. written'
         /\ written' \in 0 .. Bytes
  <1>1. /\ handle = 0 /\ 0 \in Names /\ k \in Nat /\ written \in Nat /\ k <= todo
        /\ file \in [Names -> SUBSET (1 .. Bytes)] /\ Bytes \in Nat
        /\ written + k <= Bytes
    BY Appends, LogAssumption DEF LogTypeOK, HandleInv
  <1>2. file'[0] = file[0] \cup (written + 1 .. written + k)
    BY <1>1
  <1>3. \A n \in Names \ {0} : file'[n] = file[n]
    BY <1>1
  <1>4. \A n \in Names : file[n] \subseteq 1 .. written
    BY DEF HandleInv
  <1>5. \A n \in Names : file'[n] \subseteq 1 .. written'
    BY <1>1, <1>2, <1>3, <1>4
  <1>6. file' \in [Names -> SUBSET (1 .. Bytes)]
    BY <1>1, <1>5
  <1>7. Cardinality(file'[0]) = Cardinality(file[0]) + k
    BY <1>1, <1>2, <1>4, AppendCard
  <1> QED BY <1>1, <1>2, <1>3, <1>5, <1>6, <1>7

\* A rename to a slot that is empty moves the file and leaves its place empty,
\* whether or not the file was there.
LEMMA Renamed ==
  ASSUME LogTypeOK, NEW from \in Names, NEW to \in Names, from # to,
         file[to] = {}, Rename(from, to)
  PROVE  /\ file'[to] = file[from] /\ file'[from] = {}
         /\ \A n \in Names \ {from, to} : file'[n] = file[n]
         /\ file' \in [Names -> SUBSET (1 .. Bytes)]
         /\ exists' \subseteq Names
         /\ \A n \in Names \ exists' : file'[n] = {}
         /\ handle' \in Names
         /\ handle' = handle \/ handle = from
  BY DEF LogTypeOK, Rename

\* Opening the log leaves the files as they are and counts its bytes.
LEMMA Opened ==
  ASSUME LogTypeOK, HandleInv, OpenAppend
  PROVE  /\ file' = file /\ handle' = 0 /\ handle' \in Names
         /\ size' = Cardinality(file[0]) /\ size' \in 0 .. written
         /\ 0 \in exists' /\ exists' \subseteq Names
         /\ \A n \in Names \ exists' : file'[n] = {}
  <1>1. 0 \in Names
    BY LogAssumption DEF Names
  <1>2. Cardinality(file[0]) \in 0 .. written
    BY <1>1, Lengths
  <1> QED BY <1>1, <1>2 DEF OpenAppend, LogTypeOK

\* A rotation's step is a rename to the slot that HandleInv says is empty.
LEMMA Shifted ==
  ASSUME LogTypeOK, HandleInv, Shift, index >= 1
  PROVE  /\ index \in Names /\ index + 1 \in Names
         /\ file'[index + 1] = file[index] /\ file'[index] = {}
         /\ \A n \in Names \ {index, index + 1} : file'[n] = file[n]
         /\ file' \in [Names -> SUBSET (1 .. Bytes)]
         /\ exists' \subseteq Names
         /\ \A n \in Names \ exists' : file'[n] = {}
         /\ handle' \in Names
         /\ index' = index - 1 /\ at' = "shift"
  <1>1. index \in Names /\ index + 1 \in Names /\ index # index + 1
    BY LogAssumption DEF LogTypeOK, Names
  <1>2. file[index + 1] = {} /\ Rename(index, index + 1) /\ index' = index - 1 /\ at' = "shift"
    BY DEF HandleInv, Shift, Rotating
  <1> HIDE DEF Names
  <1> QED BY <1>1, <1>2, Renamed

LEMMA Parked ==
  ASSUME LogTypeOK, HandleInv, Park
  PROVE  /\ 0 \in Names /\ 1 \in Names /\ index = 0
         /\ file'[1] = file[0] /\ file'[0] = {}
         /\ \A n \in Names \ {0, 1} : file'[n] = file[n]
         /\ file' \in [Names -> SUBSET (1 .. Bytes)]
         /\ exists' \subseteq Names
         /\ \A n \in Names \ exists' : file'[n] = {}
         /\ handle' \in Names
  <1>1. 0 \in Names /\ 1 \in Names
    BY LogAssumption DEF Names
  <1>2. index = 0 /\ file[1] = {} /\ Rename(0, 1)
    BY DEF HandleInv, Park, Rotating
  <1> QED BY <1>1, <1>2, Renamed

(***************************************************************************)
(* Types, and where bytes may go.                                          *)
(***************************************************************************)

\* Each of the writer's fields keeps its range.
LEMMA TypeStep ==
  ASSUME LogTypeOK, HandleInv, [LogNext]_lvars
  PROVE  LogTypeOK'
  <1> USE LogAssumption
  <1>1. CASE Open
    BY <1>1, Opened DEF Open, LogTypeOK, HandleInv
  <1>2. CASE \E n \in 1 .. Bytes : Write(n)
    BY <1>2 DEF Write, LogTypeOK
  <1>3. CASE Append
    <2>1. /\ Room \in 0 .. todo /\ Room \in 0 .. Room /\ handle = 0 /\ 0 \in exists
          /\ size < MaxBytes /\ at = "write"
      BY <1>3, Appends DEF Append, LogTypeOK
    <2>2. /\ file' \in [Names -> SUBSET (1 .. Bytes)]
          /\ \A n \in Names \ {0} : file'[n] = file[n]
          /\ written' \in 0 .. Bytes
      BY <1>3, <2>1, Appended DEF Append
    <2>3. size' \in 0 .. Bytes /\ todo' \in 0 .. Bytes
      BY <1>3, <2>1 DEF Append, LogTypeOK, HandleInv
    <2> QED BY <1>3, <2>1, <2>2, <2>3 DEF Append, LogTypeOK
  <1>4. CASE AppendFails
    <2>1. /\ Room \in 0 .. todo /\ handle = 0 /\ 0 \in exists
          /\ size < MaxBytes /\ at = "write"
      BY <1>4, Appends DEF AppendFails
    <2>2. PICK k \in 0 .. Room - 1 :
            /\ file' = [file EXCEPT ![handle] = @ \cup (written + 1 .. written + k)]
            /\ written' = written + k
          /\ torn' \in {torn, torn + k}
      BY <1>4 DEF AppendFails
    <2>3. k \in 0 .. Room /\ torn' \in Nat
      BY <2>1, <2>2 DEF LogTypeOK
    <2>4. /\ file' \in [Names -> SUBSET (1 .. Bytes)]
          /\ \A n \in Names \ {0} : file'[n] = file[n]
          /\ written' \in 0 .. Bytes
      BY <2>1, <2>2, <2>3, Appended
    <2> QED BY <1>4, <2>1, <2>3, <2>4 DEF AppendFails, LogTypeOK, Rested
  <1>5. CASE RemoveOldest
    BY <1>5 DEF RemoveOldest, LogTypeOK, Names
  <1>6. CASE Shift
    <2>1. CASE index >= 1
      BY <1>6, <2>1, Shifted DEF Shift, LogTypeOK
    <2>2. CASE ~(index >= 1)
      BY <1>6, <2>2 DEF Shift, LogTypeOK
    <2> QED BY <2>1, <2>2
  <1>7. CASE Park
    BY <1>7, Parked DEF Park, LogTypeOK
  <1>8. CASE Reopen
    BY <1>8, Opened DEF Reopen, LogTypeOK, HandleInv
  <1>9. CASE RotateFails
    BY <1>9 DEF RotateFails, LogTypeOK, Rested
  <1>10. CASE Closed
    BY <1>10 DEF Closed, LogTypeOK, Names
  <1>11. CASE PumpTakesOver \/ UNCHANGED lvars
    BY <1>11 DEF PumpTakesOver, lvars, LogTypeOK
  <1> QED BY <1>1, <1>2, <1>3, <1>4, <1>5, <1>6, <1>7, <1>8, <1>9, <1>10, <1>11 DEF LogNext

\* Bytes keep going to the log alone, and renames to empty slots alone.
LEMMA HandleStep ==
  ASSUME LogTypeOK, HandleInv, [LogNext]_lvars
  PROVE  HandleInv'
  <1> USE LogAssumption
  <1>0. 0 \in Names /\ Cardinality(file[0]) \in 0 .. written
    <2>1. 0 \in Names
      BY DEF Names
    <2> QED BY <2>1, Lengths
  <1>1. CASE Open
    BY <1>0, <1>1, Opened DEF Open, LogTypeOK, HandleInv, Rotating
  <1>2. CASE \E n \in 1 .. Bytes : Write(n)
    BY <1>0, <1>2 DEF Write, LogTypeOK, HandleInv, Rotating
  <1>3. CASE Append
    <2>1. /\ Room \in 0 .. todo /\ Room \in 0 .. Room /\ handle = 0 /\ 0 \in exists
          /\ size < MaxBytes /\ at = "write"
      BY <1>3, Appends DEF Append, LogTypeOK
    <2>2. /\ Cardinality(file'[0]) = Cardinality(file[0]) + Room
          /\ \A n \in Names : file'[n] \subseteq 1 .. written'
      BY <1>3, <2>1, Appended DEF Append
    <2> QED BY <1>0, <1>3, <2>1, <2>2 DEF Append, LogTypeOK, HandleInv, Rotating
  <1>4. CASE AppendFails
    <2>1. /\ Room \in 0 .. todo /\ handle = 0 /\ 0 \in exists
          /\ size < MaxBytes /\ at = "write"
      BY <1>4, Appends DEF AppendFails
    <2>2. PICK k \in 0 .. Room - 1 :
            /\ file' = [file EXCEPT ![handle] = @ \cup (written + 1 .. written + k)]
            /\ written' = written + k
      BY <1>4 DEF AppendFails
    <2>3. k \in 0 .. Room
      BY <2>1, <2>2 DEF LogTypeOK
    <2>4. /\ Cardinality(file'[0]) = Cardinality(file[0]) + k
          /\ \A n \in Names : file'[n] \subseteq 1 .. written'
      BY <2>1, <2>2, <2>3, Appended
    <2> QED BY <1>0, <1>4, <2>1, <2>2, <2>3, <2>4 DEF AppendFails, LogTypeOK, HandleInv, Rotating, Rested
  <1>5. CASE RemoveOldest
    <2>1. /\ Backups \in Names /\ Backups # 0 /\ Backups - 1 + 1 = Backups
          /\ file'[Backups] = {} /\ file'[0] = file[0]
          /\ \A n \in Names : file'[n] \subseteq file[n]
      BY <1>0, <1>5 DEF RemoveOldest, LogTypeOK, Names
    <2> QED BY <1>0, <1>5, <2>1 DEF RemoveOldest, LogTypeOK, HandleInv, Rotating
  <1>6. CASE Shift
    <2>1. CASE index >= 1
      <3>1. \A n \in Names : file'[n] \subseteq 1 .. written
        BY <1>6, <2>1, Shifted DEF HandleInv
      <3>2. size >= MaxBytes /\ at = "shift"
        BY <1>6 DEF Shift, HandleInv, Rotating
      <3> QED BY <1>6, <2>1, <3>1, <3>2, Shifted DEF Shift, LogTypeOK, HandleInv, Rotating
    <2>2. CASE ~(index >= 1)
      BY <1>0, <1>6, <2>2 DEF Shift, LogTypeOK, HandleInv, Rotating
    <2> QED BY <2>1, <2>2
  <1>7. CASE Park
    <2>1. \A n \in Names : file'[n] \subseteq 1 .. written
      BY <1>7, Parked DEF HandleInv
    <2>2. size >= MaxBytes
      BY <1>7 DEF Park, HandleInv, Rotating
    <2> QED BY <1>7, <2>1, <2>2, Parked DEF Park, LogTypeOK, HandleInv, Rotating
  <1>8. CASE Reopen
    BY <1>0, <1>8, Opened DEF Reopen, LogTypeOK, HandleInv, Rotating
  <1>9. CASE RotateFails
    BY <1>0, <1>9 DEF RotateFails, LogTypeOK, HandleInv, Rotating, Rested
  <1>10. CASE Closed
    BY <1>0, <1>10 DEF Closed, LogTypeOK, HandleInv, Rotating
  <1>11. CASE PumpTakesOver \/ UNCHANGED lvars
    BY <1>11 DEF PumpTakesOver, lvars, HandleInv, Rotating
  <1> QED BY <1>1, <1>2, <1>3, <1>4, <1>5, <1>6, <1>7, <1>8, <1>9, <1>10, <1>11 DEF LogNext

(***************************************************************************)
(* What a step does to the files: it leaves them, adds bytes to the log,   *)
(* removes the oldest backup, or moves a file into the next empty slot.    *)
(***************************************************************************)

Kept == file' = file /\ written' = written

Grown(k) ==
  /\ file'[0] = file[0] \cup (written + 1 .. written + k)
  /\ Cardinality(file'[0]) = Cardinality(file[0]) + k
  /\ \A n \in Names \ {0} : file'[n] = file[n]
  /\ written' = written + k

Moved(from) ==
  /\ from \in Names /\ from + 1 \in Names
  /\ file[from + 1] = {}
  /\ file'[from + 1] = file[from] /\ file'[from] = {}
  /\ \A n \in Names \ {from, from + 1} : file'[n] = file[n]
  /\ written' = written

\* An append, complete or not, adds the next bytes to the log.
LEMMA AppendGrows ==
  ASSUME LogTypeOK, HandleInv, Append
  PROVE  /\ Room \in Nat /\ Room \in 0 .. todo /\ size + Room <= MaxBytes /\ size < MaxBytes
         /\ Grown(Room)
  <1>1. /\ Room \in 0 .. todo /\ Room \in 0 .. Room /\ Room \in Nat
        /\ size < MaxBytes /\ at = "write" /\ size + Room <= MaxBytes
    BY Appends DEF Append, LogTypeOK
  <1> QED BY <1>1, Appended DEF Append, Grown

LEMMA AppendFailsGrows ==
  ASSUME LogTypeOK, HandleInv, AppendFails
  PROVE  \E k \in Nat :
           /\ size + k < MaxBytes /\ size < MaxBytes
           /\ Grown(k)
           /\ torn' = IF Rested = "open" THEN torn + k ELSE torn
  <1>1. /\ Room \in 0 .. todo /\ Room \in Nat
        /\ size < MaxBytes /\ at = "write" /\ size + Room <= MaxBytes
    BY Appends DEF AppendFails, LogTypeOK
  <1>2. PICK k \in 0 .. Room - 1 :
          /\ file' = [file EXCEPT ![handle] = @ \cup (written + 1 .. written + k)]
          /\ written' = written + k
          /\ torn' = IF Rested = "open" THEN torn + k ELSE torn
    BY DEF AppendFails
  <1>3. k \in 0 .. Room /\ k \in Nat /\ size + k < MaxBytes
    BY <1>1, <1>2, LogAssumption DEF LogTypeOK
  <1>4. Grown(k)
    BY <1>1, <1>2, <1>3, Appended DEF Grown
  <1> QED BY <1>1, <1>2, <1>3, <1>4

LEMMA FileSteps ==
  ASSUME LogTypeOK, HandleInv, [LogNext]_lvars
  PROVE  \/ Kept
         \/ (Append \/ AppendFails) /\ \E k \in Nat : Grown(k)
         \/ RemoveOldest
         \/ \E n \in Names : Moved(n)
  <1>1. CASE Open \/ Reopen
    BY <1>1, Opened DEF Open, Reopen, Kept
  <1>2. CASE \/ \E n \in 1 .. Bytes : Write(n)
             \/ PumpTakesOver \/ RotateFails \/ Closed \/ UNCHANGED lvars
    BY <1>2 DEF Write, PumpTakesOver, RotateFails, Closed, lvars, Kept
  <1>3. CASE Append \/ AppendFails
    BY <1>3, AppendGrows, AppendFailsGrows
  <1>4. CASE Shift
    <2>1. CASE index >= 1
      <3>1. file[index + 1] = {} /\ written' = written
        BY <1>4 DEF Shift, HandleInv, Rotating
      <3>2. Moved(index) /\ index \in Names
        BY <1>4, <2>1, <3>1, Shifted DEF Moved
      <3> QED BY <3>2
    <2>2. CASE ~(index >= 1)
      BY <1>4, <2>2 DEF Shift, Kept
    <2> QED BY <2>1, <2>2
  <1>5. CASE Park
    <2>1. file[1] = {} /\ written' = written /\ 0 + 1 = 1
      BY <1>5, Parked DEF Park, HandleInv, Rotating
    <2>2. Moved(0) /\ 0 \in Names
      BY <1>5, <2>1, Parked DEF Moved
    <2> QED BY <2>2
  <1> QED BY <1>1, <1>2, <1>3, <1>4, <1>5 DEF LogNext

(***************************************************************************)
(* The files together: their order, and what is gone.                      *)
(***************************************************************************)

\* The order of the files survives each kind of step.
LEMMA OrderStep ==
  ASSUME LogTypeOK, HandleInv, InOrder, [LogNext]_lvars
  PROVE  InOrder'
  <1> USE DEF InOrder
  <1>0. /\ Names \subseteq Nat /\ Backups \in Names /\ written \in Nat
        /\ \A n \in Names : file[n] \subseteq 1 .. written
    BY LogAssumption DEF Names, LogTypeOK, HandleInv
  <1>1. CASE Kept
    BY <1>1 DEF Kept
  <1>2. ASSUME NEW k \in Nat, Grown(k) PROVE InOrder'
    <2> SUFFICES ASSUME NEW m \in Names, NEW n \in Names, m < n,
                        NEW x \in file'[m], NEW y \in file'[n]
                 PROVE  y < x
      OBVIOUS
    <2>1. n # 0 /\ y \in file[n]
      <3>1. n \in Nat /\ m \in Nat
        BY <1>0
      <3>2. n # 0
        BY <3>1
      <3> QED BY <1>2, <3>2 DEF Grown
    <2>2. CASE x \in file[m]
      BY <2>1, <2>2
    <2>3. CASE x \notin file[m]
      <3>1. x \in written + 1 .. written + k
        BY <1>2, <2>3 DEF Grown
      <3>2. y \in 1 .. written
        BY <1>0, <2>1
      <3> QED BY <1>0, <3>1, <3>2
    <2> QED BY <2>2, <2>3
  <1>3. CASE RemoveOldest
    <2>1. \A n \in Names : file'[n] \subseteq file[n]
      BY <1>0, <1>3 DEF RemoveOldest, LogTypeOK
    <2> QED BY <2>1
  <1>4. ASSUME NEW from \in Names, Moved(from) PROVE InOrder'
    <2> SUFFICES ASSUME NEW m \in Names, NEW n \in Names, m < n,
                        NEW x \in file'[m], NEW y \in file'[n]
                 PROVE  y < x
      OBVIOUS
    <2> DEFINE Was(i) == IF i = from + 1 THEN from ELSE i
    <2>1. \A i \in Names : i # from => file'[i] = file[Was(i)] /\ Was(i) \in Names
      BY <1>4 DEF Moved
    <2>2. m # from /\ n # from /\ Was(m) < Was(n)
      BY <1>0, <1>4 DEF Moved
    <2> HIDE DEF Was
    <2> QED BY <2>1, <2>2
  <1> QED BY <1>1, <1>2, <1>3, <1>4, FileSteps

\* A byte stays in some file but for those of the oldest backup that is removed.
LEMMA BytesStay ==
  ASSUME LogTypeOK, HandleInv, [LogNext]_lvars, ~RemoveOldest,
         NEW n \in Names, NEW x \in file[n]
  PROVE  \E m \in Names : x \in file'[m]
  <1>1. CASE Kept
    BY <1>1 DEF Kept
  <1>2. ASSUME NEW k \in Nat, Grown(k) PROVE \E m \in Names : x \in file'[m]
    BY <1>2 DEF Grown
  <1>3. ASSUME NEW from \in Names, Moved(from) PROVE \E m \in Names : x \in file'[m]
    BY <1>3 DEF Moved
  <1> QED BY <1>1, <1>2, <1>3, FileSteps

\* Nor does a byte appear in a file that was in none, but the ones just written.
LEMMA BytesWereThere ==
  ASSUME LogTypeOK, HandleInv, [LogNext]_lvars, NEW n \in Names, NEW x \in file'[n]
  PROVE  /\ x <= written => \E m \in Names : x \in file[m]
         /\ x \in 1 .. written' /\ written' >= written
  <1>0. written \in Nat /\ \A m \in Names : file[m] \subseteq 1 .. written
    BY LogAssumption DEF LogTypeOK, HandleInv
  <1>1. CASE Kept
    BY <1>0, <1>1 DEF Kept
  <1>2. ASSUME NEW k \in Nat, Grown(k)
        PROVE  /\ x <= written => \E m \in Names : x \in file[m]
               /\ x \in 1 .. written' /\ written' >= written
    BY <1>0, <1>2 DEF Grown
  <1>3. CASE RemoveOldest
    BY <1>0, <1>3 DEF RemoveOldest, LogTypeOK
  <1>4. ASSUME NEW from \in Names, Moved(from)
        PROVE  /\ x <= written => \E m \in Names : x \in file[m]
               /\ x \in 1 .. written' /\ written' >= written
    BY <1>0, <1>4 DEF Moved
  <1> QED BY <1>1, <1>2, <1>3, <1>4, FileSteps

\* The bytes just written are in the log.
LEMMA NewBytesInLog ==
  ASSUME LogTypeOK, HandleInv, [LogNext]_lvars, NEW x \in written + 1 .. written'
  PROVE  \E n \in Names : x \in file'[n]
  <1>0. 0 \in Names /\ written \in Nat
    BY LogAssumption DEF LogTypeOK, Names
  <1> QED BY <1>0, FileSteps DEF Kept, Grown, RemoveOldest, Moved

\* What is gone is older than what is left: only the removal of the oldest backup
\* loses bytes, and by InOrder those are the oldest there are.
LEMMA OldestLostStep ==
  ASSUME LogTypeOK, HandleInv, Contiguous, [LogNext]_lvars
  PROVE  OnlyOldestLost'
  <1> SUFFICES ASSUME NEW n \in Names, NEW x \in file'[n], NEW y \in x .. written'
               PROVE  \E m \in Names : y \in file'[m]
    BY DEF OnlyOldestLost
  <1>0. written \in Nat /\ \A m \in Names : file[m] \subseteq 1 .. written
    BY LogAssumption DEF LogTypeOK, HandleInv
  <1>1. CASE y > written
    BY <1>0, <1>1, BytesWereThere, NewBytesInLog
  <1>2. CASE ~(y > written)
    <2>1. PICK m \in Names : x \in file[m]
      BY <1>0, <1>2, BytesWereThere
    <2>2. PICK l \in Names : y \in file[l]
      BY <1>0, <1>2, <2>1, BytesWereThere DEF Contiguous, OnlyOldestLost
    <2>3. CASE ~RemoveOldest
      BY <2>2, <2>3, BytesStay
    <2>4. CASE RemoveOldest
      <3>1. /\ file'[Backups] = {} /\ Backups \in Names
            /\ \A i \in Names \ {Backups} : file'[i] = file[i]
        BY <2>4, LogAssumption DEF RemoveOldest, LogTypeOK, Names
      <3>2. n < Backups /\ x \in file[n] /\ x <= y
        BY <1>0, <3>1, BytesWereThere, LogAssumption DEF Names
      <3>3. l # Backups
        BY <1>0, <2>2, <3>1, <3>2 DEF Contiguous, InOrder
      <3> QED BY <2>2, <3>1, <3>3
    <2> QED BY <2>3, <2>4
  <1> QED BY <1>1, <1>2

\* The bytes that LossBounded keeps are those of before or new ones, and the
\* backup that is removed is too far back to be among them.
LEMMA LossStep ==
  ASSUME LogTypeOK, HandleInv, BehindInv, LossBounded, [LogNext]_lvars, LogTypeOK'
  PROVE  LossBounded'
  <1> SUFFICES ASSUME NEW x \in written' - Cap(Backups - failed') + 1 .. written', x >= 1
               PROVE  \E n \in Names : x \in file'[n]
    BY DEF LossBounded
  <1>0. /\ written \in Nat /\ written' \in Nat /\ failed \in Nat /\ failed' \in Nat
        /\ Backups \in Nat /\ MaxBytes \in Nat /\ Backups \in Names /\ Backups >= 1
    BY LogAssumption DEF LogTypeOK, Names
  <1>1. CASE x > written
    BY <1>0, <1>1, NewBytesInLog
  <1>2. CASE ~(x > written)
    <2>1. failed' = failed \/ failed' = failed + 1
      BY DEF LogNext, lvars, Open, PumpTakesOver, Write, Append, AppendFails, RemoveOldest, Shift, Park,
             Reopen, RotateFails, Closed
    <2>2. written' >= written
      BY <1>0, FileSteps DEF Kept, Grown, RemoveOldest, Moved
    <2>3. /\ Cap(Backups - failed) \in Int /\ Cap(Backups - failed') \in Int
          /\ Cap(Backups - failed') <= Cap(Backups - failed)
      <3>1. /\ Cap(Backups - failed) \in Int
            /\ Cap(Backups - (failed + 1)) = Cap(Backups - failed) - MaxBytes
        <4>1. Backups \in Int /\ failed \in Int
          BY <1>0
        <4> QED BY <4>1, CapOf
      <3>2. CASE failed' = failed
        BY <3>1, <3>2
      <3>3. CASE failed' = failed + 1
        BY <1>0, <3>1, <3>3
      <3> QED BY <2>1, <3>2, <3>3
    <2>4. x \in written - Cap(Backups - failed) + 1 .. written
      BY <1>0, <1>2, <2>2, <2>3
    <2>5. PICK n \in Names : x \in file[n]
      BY <2>4 DEF LossBounded
    <2>6. CASE ~RemoveOldest
      BY <2>5, <2>6, BytesStay
    <2>7. CASE RemoveOldest
      <3>1. n # Backups
        <4> SUFFICES ASSUME n = Backups PROVE FALSE
          OBVIOUS
        <4>1. Behind(Backups, x) /\ ~Rotating /\ size >= MaxBytes /\ at # "reopen"
          BY <1>0, <2>5, <2>7 DEF BehindInv, RemoveOldest, Rotating
        <4> QED BY <1>0, <2>3, <2>4, <4>1 DEF Behind
      <3>2. file'[n] = file[n]
        BY <2>7, <3>1, <1>0 DEF RemoveOldest, LogTypeOK
      <3> QED BY <2>5, <3>2
    <2> QED BY <2>6, <2>7
  <1> QED BY <1>1, <1>2

\* No step lets a file past the cap by more than what is torn off.
LEMMA CapInvStep ==
  ASSUME LogTypeOK, HandleInv, CapInv, [LogNext]_lvars
  PROVE  CapInv'
  <1>0. /\ MaxBytes \in Nat /\ size \in Nat /\ 0 \in Names /\ torn \in Nat
        /\ \A n \in Names : Cardinality(file[n]) \in Nat
    <2>1. \A n \in Names : Cardinality(file[n]) \in 0 .. written
      BY Lengths
    <2> QED BY <2>1, LogAssumption DEF LogTypeOK, Names
  <1>1. /\ CapHeld
        /\ at \in {"open", "write"} /\ size < MaxBytes => Cardinality(file[0]) <= size + torn
    BY DEF CapInv
  <1>2. CASE Append
    <2>1. at = "write" /\ size < MaxBytes /\ size' = size + Room /\ torn' = torn
      BY <1>2 DEF Append
    <2>2. Room \in Nat /\ size + Room <= MaxBytes /\ Grown(Room)
      BY <1>2, AppendGrows
    <2>3. Cardinality(file'[0]) <= size' + torn'
      BY <1>0, <1>1, <2>1, <2>2 DEF Grown
    <2>4. CapHeld'
      <3>1. Cardinality(file'[0]) <= MaxBytes + torn'
        BY <1>0, <1>1, <2>1, <2>2 DEF Grown
      <3>2. \A n \in Names \ {0} : file'[n] = file[n]
        BY <2>2 DEF Grown
      <3> QED BY <1>1, <2>1, <3>1, <3>2 DEF CapHeld
    <2> QED BY <2>3, <2>4 DEF CapInv
  <1>3. CASE AppendFails
    <2>1. /\ at = "write" /\ size < MaxBytes /\ size' = size
          /\ at' = Rested
      BY <1>3 DEF AppendFails
    <2>2. PICK k \in Nat :
            /\ size + k < MaxBytes
            /\ Grown(k)
            /\ torn' = IF Rested = "open" THEN torn + k ELSE torn
      BY <1>3, AppendFailsGrows
    <2>3. at' \in {"open", "write"} => Cardinality(file'[0]) <= size' + torn'
      BY <1>0, <1>1, <2>1, <2>2 DEF Grown, Rested
    <2>4. CapHeld'
      <3>1. torn' >= torn /\ Cardinality(file'[0]) <= MaxBytes + torn'
        BY <1>0, <1>1, <2>1, <2>2 DEF Grown
      <3>2. \A n \in Names \ {0} : file'[n] = file[n]
        BY <2>2 DEF Grown
      <3>3. torn' \in Nat
        BY <1>0, <2>2
      <3> QED BY <1>0, <1>1, <3>1, <3>2, <3>3 DEF CapHeld
    <2> QED BY <2>3, <2>4 DEF CapInv
  <1>4. CASE ~(Append \/ AppendFails)
    <2>1. torn' = torn
      BY <1>4 DEF LogNext, lvars, Open, PumpTakesOver, Write, RemoveOldest, Shift, Park,
             Reopen, RotateFails, Closed
    <2>2. CapHeld'
      <3>1. \A n \in Names : file'[n] = {} \/ \E m \in Names : file'[n] = file[m]
        <4>1. RemoveOldest => \A n \in Names : file'[n] = {} \/ file'[n] = file[n]
          BY DEF RemoveOldest, LogTypeOK
        <4>2. \A from \in Names : Moved(from) =>
                \A n \in Names : file'[n] = {} \/ \E m \in Names : file'[n] = file[m]
          BY DEF Moved
        <4> QED BY <1>4, <4>1, <4>2, FileSteps DEF Kept
      <3>2. Cardinality({}) = 0
        BY FS_EmptySet
      <3> QED BY <1>0, <1>1, <2>1, <3>1, <3>2 DEF CapHeld
    <2>3. ASSUME at' \in {"open", "write"}, size' < MaxBytes
          PROVE  Cardinality(file'[0]) <= size' + torn'
      <3>1. CASE Open \/ Reopen
        BY <1>0, <2>1, <3>1, Opened DEF Open, Reopen
      <3>2. CASE PumpTakesOver \/ \E n \in 1 .. Bytes : Write(n)
        BY <1>1, <2>1, <2>3, <3>2 DEF PumpTakesOver, Write
      <3>3. CASE RotateFails
        BY <1>0, <1>1, <2>1, <2>3, <3>3 DEF RotateFails, HandleInv, Rotating
      <3>4. CASE RemoveOldest \/ Shift \/ Park \/ Closed
        BY <2>3, <3>4 DEF RemoveOldest, Shift, Park, Closed
      <3>5. CASE UNCHANGED lvars
        BY <1>1, <2>3, <3>5 DEF lvars
      <3> QED BY <1>4, <3>1, <3>2, <3>3, <3>4, <3>5 DEF LogNext
    <2> QED BY <2>2, <2>3 DEF CapInv
  <1> QED BY <1>2, <1>3, <1>4

(***************************************************************************)
(* How far back the backups lie.                                           *)
(***************************************************************************)

\* A failure, which the bound allows for, brings the bound forward by one file.
LEMMA FailedFar ==
  ASSUME LogTypeOK, NEW n \in Int, failed' = failed + 1
  PROVE  Cap(n - failed) \in Int /\ Cap(n - failed') = Cap(n - failed) - MaxBytes
  <1>1. failed \in Int
    BY DEF LogTypeOK
  <1> QED BY <1>1, CapOf

\* No step brings a backup nearer than its place in the line says.
LEMMA BehindStep ==
  ASSUME LogTypeOK, HandleInv, BehindInv, [LogNext]_lvars, LogTypeOK'
  PROVE  BehindInv'
  <1> SUFFICES ASSUME NEW n \in 1 .. Backups, NEW x \in file'[n]
               PROVE  Behind(n, x)'
    BY DEF BehindInv
  <1> DEFINE log == Cardinality(file[0])
             C == Cap(n - failed)
  <1>0. /\ n \in Int /\ n >= 1 /\ n \in Names /\ 0 \in Names /\ n # 0
        /\ Backups \in Nat /\ MaxBytes \in Nat /\ MaxBytes >= 1
        /\ written \in Nat /\ written' \in Nat /\ failed \in Nat /\ index \in Nat /\ size \in Nat
        /\ log \in Nat /\ x \in Int
    <2>1. 0 \in Names /\ n \in Names
      BY LogAssumption DEF Names
    <2>2. log \in 0 .. written
      BY <2>1, Lengths
    <2>3. x \in 1 .. Bytes
      BY <2>1 DEF LogTypeOK
    <2> QED BY <2>1, <2>2, <2>3, LogAssumption DEF LogTypeOK
  <1>a. C \in Int
    BY <1>0, CapOf
  <1>b. x \in file[n] => Behind(n, x)
    BY <1>0 DEF BehindInv
  <1>c. Cardinality({}) = 0
    BY FS_EmptySet
  <1>1. CASE Open
    <2>1. /\ file' = file /\ size' = log /\ at = "closed" /\ at' = "open"
          /\ written' = written /\ failed' = failed
      BY <1>1, Opened DEF Open
    <2> QED BY <1>0, <1>a, <1>b, <2>1 DEF Behind, Rotating
  <1>2. CASE \E k \in 1 .. Bytes : Write(k)
    BY <1>b, <1>2 DEF Write, Behind, Rotating
  <1>3. CASE Append
    <2>1. /\ Room \in Nat /\ file'[n] = file[n] /\ Cardinality(file'[0]) = log + Room
          /\ written' = written + Room /\ size' = size + Room
          /\ failed' = failed /\ size + Room <= MaxBytes /\ size < MaxBytes
      BY <1>0, <1>3, AppendGrows DEF Append, Grown
    <2>2. size <= log /\ at = "write" /\ at' \in {"open", "write"}
      BY <1>0, <1>3, <2>1 DEF HandleInv, Append
    <2> HIDE DEF C, log
    <2>3. x <= written - C + MaxBytes - log
      BY <1>b, <2>1, <2>2 DEF Behind, Rotating, C, log
    <2>4. size' >= MaxBytes => log + Room >= MaxBytes
      BY <1>0, <2>1, <2>2
    <2> QED BY <1>0, <1>a, <2>1, <2>2, <2>3, <2>4 DEF Behind, Rotating, C
  <1>4. CASE AppendFails
    <2>1. PICK k \in Nat : size + k < MaxBytes /\ Grown(k)
      BY <1>4, AppendFailsGrows
    <2>2. /\ file'[n] = file[n] /\ Cardinality(file'[0]) = log + k
          /\ written' = written + k
          /\ size' = size /\ at = "write" /\ at' \in {"open", "muted"} /\ failed' = failed + 1
          /\ ~(size' >= MaxBytes)
      <3>1. /\ size' = size /\ at = "write" /\ at' \in {"open", "muted"} /\ failed' = failed + 1
        BY <1>4 DEF AppendFails, Rested
      <3> QED BY <1>0, <2>1, <3>1 DEF Grown
    <2>3. Cap(n - failed') = C - MaxBytes
      BY <1>0, <2>2, FailedFar
    <2> HIDE DEF C, log
    <2>4. x <= written - C + MaxBytes - log
      BY <1>b, <2>2 DEF Behind, Rotating, C, log
    <2> QED BY <1>0, <1>a, <2>1, <2>2, <2>3, <2>4 DEF Behind, Rotating
  <1>5. CASE RemoveOldest
    <2>1. /\ at = "write" /\ at' = "shift" /\ index' = Backups - 1 /\ size >= MaxBytes
          /\ size' = size /\ written' = written /\ failed' = failed
      BY <1>5 DEF RemoveOldest
    <2>2. n # Backups /\ file'[n] = file[n] /\ file'[0] = file[0]
      BY <1>0, <1>5 DEF RemoveOldest, LogTypeOK, Names
    <2> QED BY <1>0, <1>a, <1>b, <2>1, <2>2 DEF Behind, Rotating
  <1>6. CASE Shift
    <2>0. /\ at = "shift" /\ size >= MaxBytes /\ size' = size /\ written' = written
          /\ failed' = failed
      BY <1>6 DEF Shift, HandleInv, Rotating
    <2>1. CASE index >= 1
      <3>1. /\ index' = index - 1 /\ at' = "shift" /\ file'[0] = file[0] /\ n # index
            /\ index \in 1 .. Backups
        <4>1. /\ index' = index - 1 /\ at' = "shift" /\ file'[index] = {}
              /\ \A i \in Names \ {index, index + 1} : file'[i] = file[i]
          BY <1>6, <2>1, Shifted
        <4>2. index \in 1 .. Backups
          BY <1>0, <2>1 DEF LogTypeOK
        <4> QED BY <1>0, <4>1, <4>2
      <3>2. CASE n = index + 1
        <4>1. x \in file[index]
          BY <1>6, <2>1, <3>2, Shifted
        <4>2. Behind(index, x)
          BY <3>1, <4>1 DEF BehindInv
        <4>3. C = Cap(index - failed) + MaxBytes /\ Cap(index - failed) \in Int
          <5>1. index \in Int /\ failed \in Int
            BY <1>0
          <5> QED BY <3>2, <5>1, CapOf
        <4> HIDE DEF C
        <4>4. /\ x <= written - Cap(index - failed) + MaxBytes - log
              /\ x <= written - Cap(index - failed)
          BY <2>0, <4>2, <1>0 DEF Behind, Rotating
        <4>5. /\ x <= written - C + MaxBytes
              /\ x <= written - C + 2 * MaxBytes - log
          BY <1>0, <1>a, <4>3, <4>4
        <4> QED BY <1>0, <2>0, <3>1, <3>2, <4>5 DEF Behind, Rotating, C
      <3>3. CASE n # index + 1
        <4>1. file'[n] = file[n] /\ (n > index' <=> n > index)
          BY <1>0, <1>6, <2>1, <3>1, <3>3, Shifted
        <4> QED BY <1>0, <1>b, <2>0, <3>1, <4>1 DEF Behind, Rotating
      <3> QED BY <3>2, <3>3
    <2>2. CASE ~(index >= 1)
      BY <1>b, <1>6, <2>0, <2>2 DEF Shift, Behind, Rotating
    <2> QED BY <2>1, <2>2
  <1>7. CASE Park
    <2>1. /\ index = 0 /\ file'[1] = file[0] /\ file'[0] = {} /\ 1 \in Names
          /\ at = "park" /\ at' = "reopen" /\ written' = written /\ failed' = failed
      BY <1>7, Parked DEF Park
    <2>2. CASE n = 1
      <3>1. x <= written
        BY <1>0, <2>1, <2>2 DEF HandleInv
      <3>2. C <= MaxBytes
        BY <1>0, <2>2, CapOfFirst
      <3> HIDE DEF C
      <3> QED BY <1>0, <1>a, <1>c, <2>1, <3>1, <3>2 DEF Behind, Rotating, C
    <2>3. CASE n # 1
      <3>1. file'[n] = file[n]
        BY <1>0, <1>7, <2>3, Parked
      <3> QED BY <1>0, <1>a, <1>b, <1>c, <2>1, <3>1 DEF Behind, Rotating
    <2> QED BY <2>2, <2>3
  <1>8. CASE Reopen
    <2>1. /\ file' = file /\ size' = log /\ log = 0 /\ at = "reopen" /\ at' = "write"
          /\ written' = written /\ failed' = failed
      BY <1>c, <1>8, Opened DEF Reopen, HandleInv
    <2> QED BY <1>0, <1>a, <1>b, <2>1 DEF Behind, Rotating
  <1>9. CASE RotateFails
    <2>1. /\ file' = file /\ size' = size /\ written' = written /\ failed' = failed + 1
          /\ at' \in {"open", "muted"} /\ size >= MaxBytes
      BY <1>9 DEF RotateFails, Rested, HandleInv, Rotating
    <2>2. Cap(n - failed') = C - MaxBytes
      BY <1>0, <2>1, FailedFar
    <2> HIDE DEF C, log
    <2>3. x <= written - C + MaxBytes /\ x <= written - C + 2 * MaxBytes - log
      BY <1>0, <1>a, <1>b, <2>1 DEF Behind, Rotating, C, log
    <2> QED BY <1>0, <1>a, <2>1, <2>2, <2>3 DEF Behind, Rotating, log
  <1>10. CASE Closed
    <2>1. /\ file' = file /\ size' = 0 /\ written' = written /\ at' = "closed"
      BY <1>10 DEF Closed
    <2>2. CASE at \in {"open", "muted"}
      <3>1. failed' = failed
        BY <1>10, <2>2 DEF Closed
      <3> QED BY <1>0, <1>b, <2>1, <2>2, <3>1 DEF Behind, Rotating
    <2>3. CASE at \notin {"open", "muted"}
      <3>1. failed' = failed + 1
        BY <1>10, <2>3 DEF Closed
      <3>2. Cap(n - failed') = C - MaxBytes
        BY <1>0, <3>1, FailedFar
      <3> HIDE DEF C, log
      <3>3. x <= written - C + 2 * MaxBytes - log
        BY <1>0, <1>a, <1>b, <2>1 DEF Behind, C, log
      <3> QED BY <1>0, <1>a, <2>1, <3>2, <3>3 DEF Behind, Rotating, log
    <2> QED BY <2>2, <2>3
  <1>11. CASE PumpTakesOver \/ UNCHANGED lvars
    BY <1>b, <1>11 DEF PumpTakesOver, lvars, Behind, Rotating
  <1> QED BY <1>1, <1>2, <1>3, <1>4, <1>5, <1>6, <1>7, <1>8, <1>9, <1>10, <1>11 DEF LogNext

(***************************************************************************)
(* The theorems.                                                           *)
(***************************************************************************)

\* With no file there is nothing to get wrong.
LEMMA LogInitInv ==
  ASSUME LogInit
  PROVE  LogInv
  <1>1. /\ LogTypeOK
        /\ \A n \in Names : file[n] = {}
        /\ 0 \in Names
    BY LogAssumption DEF LogInit, LogTypeOK, Names
  <1>2. Cardinality({}) = 0
    BY FS_EmptySet
  <1>3. HandleInv
    BY <1>1, <1>2, LogAssumption DEF LogInit, HandleInv, Rotating
  <1>4. CapInv
    BY <1>1, <1>2, LogAssumption DEF LogInit, CapInv, CapHeld
  <1>5. Contiguous
    BY <1>1 DEF Contiguous, InOrder, OnlyOldestLost
  <1>6. BehindInv
    BY <1>1, LogAssumption DEF BehindInv, Names
  <1>7. LossBounded
    <2>1. failed \in Int /\ Backups \in Int /\ written = 0
      BY LogAssumption DEF LogInit
    <2>2. Cap(Backups - failed) \in Int
      BY <2>1, CapOf
    <2> QED BY <2>1, <2>2 DEF LossBounded
  <1> QED BY <1>1, <1>3, <1>4, <1>5, <1>6, <1>7 DEF LogInv

\* Between any two system calls, whatever has failed and whenever the process was
\* killed, bytes go to the log alone, renames to empty slots alone, and each
\* backup lies as far back as its place says.
THEOREM LogInvariance == LogSpec => []LogInv
  <1>1. LogInit => LogInv
    BY LogInitInv
  <1>2. LogInv /\ [LogNext]_lvars => LogInv'
    BY TypeStep, HandleStep, CapInvStep, OrderStep, OldestLostStep, BehindStep, LossStep
       DEF LogInv, Contiguous
  <1> QED BY <1>1, <1>2, PTL DEF LogSpec

\* No file exceeds the cap by more than failed writes, after which the writer went
\* on, have left uncounted; whatever else fails, and whenever the process is killed.
THEOREM NoFileExceedsCap == LogSpec => []CapHeld
  <1>1. LogInv => CapHeld
    BY DEF LogInv, CapInv, CapHeld
  <1> QED BY <1>1, LogInvariance, PTL

\* The files, oldest first, are the unbroken end of what was written.
THEOREM FilesContiguous == LogSpec => []Contiguous
  <1>1. LogInv => Contiguous
    BY DEF LogInv
  <1> QED BY <1>1, LogInvariance, PTL

\* Each failure or kill costs at most the room of one file.
THEOREM LossIsBounded == LogSpec => []LossBounded
  <1>1. LogInv => LossBounded
    BY DEF LogInv
  <1> QED BY <1>1, LogInvariance, PTL

(***************************************************************************)
(* tail_file.                                                              *)
(***************************************************************************)

\* One turn of the loop that reads a file back: whether it goes on, and from where.
Further(p, ends, lines) == p > 0 /\ Cardinality({x \in ends : x > p}) <= lines
Before(p) == IF p < Chunk THEN 0 ELSE p - Chunk
Back(g, p, ends, lines) == IF Further(p, ends, lines) THEN g[Before(p)] ELSE p
IsBack(g, n, ends, lines) == g = [p \in 0 .. n |-> Back(g, p, ends, lines)]

\* The loop comes nearer to the beginning with each turn.
LEMMA BeforeIsBefore == \A p \in Nat : p > 0 => Before(p) \in 0 .. p - 1
  BY LogAssumption DEF Before

\* So its recursion describes a function.
LEMMA BackExists ==
  ASSUME NEW ends, NEW lines
  PROVE  \A n \in Nat : \E g : IsBack(g, n, ends, lines)
  <1> DEFINE Bad == {n \in Nat : ~ \E g : IsBack(g, n, ends, lines)}
  <1> SUFFICES ASSUME Bad # {} PROVE FALSE
    OBVIOUS
  <1>1. PICK m \in Bad : \A k \in Bad : m <= k
    BY Least
  <1>2. m \in Nat /\ ~ \E g : IsBack(g, m, ends, lines)
    BY <1>1
  <1>3. CASE m = 0
    <2> DEFINE h == [p \in 0 .. 0 |-> 0]
    <2>1. IsBack(h, 0, ends, lines)
      BY DEF IsBack, Back, Further
    <2> HIDE DEF h
    <2> QED BY <1>2, <1>3, <2>1
  <1>4. CASE m > 0
    <2>1. PICK g : IsBack(g, m - 1, ends, lines)
      BY <1>1, <1>2, <1>4
    <2> DEFINE h == [p \in 0 .. m |-> IF p = m THEN Back(g, m, ends, lines) ELSE g[p]]
    <2>2. \A p \in 0 .. m - 1 : h[p] = g[p] /\ g[p] = Back(g, p, ends, lines)
      BY <1>2, <2>1 DEF IsBack
    <2>3. h[m] = Back(g, m, ends, lines) /\ DOMAIN h = 0 .. m
      BY <1>2
    <2>4. h = [p \in 0 .. m |-> h[p]]
      OBVIOUS
    <2> HIDE DEF h
    <2>5. \A p \in 0 .. m : Further(p, ends, lines) => h[Before(p)] = g[Before(p)]
      BY <1>2, <2>2, BeforeIsBefore DEF Further
    <2>6. \A p \in 0 .. m : Back(h, p, ends, lines) = Back(g, p, ends, lines)
      BY <2>5 DEF Back
    <2>7. \A p \in 0 .. m : h[p] = Back(h, p, ends, lines)
      BY <1>2, <2>2, <2>3, <2>6
    <2>8. IsBack(h, m, ends, lines)
      BY <2>4, <2>7 DEF IsBack
    <2> QED BY <1>2, <2>8
  <1> QED BY <1>2, <1>3, <1>4

\* ReadBack is that function.
LEMMA ReadBackIs ==
  ASSUME NEW n \in Nat, NEW ends, NEW lines
  PROVE  \E g : IsBack(g, n, ends, lines) /\ ReadBack(n, ends, lines) = g[n]
  <1> DEFINE back[p \in 0 .. n] ==
               IF p > 0 /\ Cardinality({x \in ends : x > p}) <= lines
               THEN back[IF p < Chunk THEN 0 ELSE p - Chunk] ELSE p
  <1>1. ReadBack(n, ends, lines) = back[n]
    BY DEF ReadBack
  <1>2. \E g : g = [p \in 0 .. n |->
                     IF p > 0 /\ Cardinality({x \in ends : x > p}) <= lines
                     THEN g[IF p < Chunk THEN 0 ELSE p - Chunk] ELSE p]
    <2>1. PICK g : IsBack(g, n, ends, lines)
      BY BackExists
    <2> QED BY <2>1 DEF IsBack, Back, Further, Before
  <1>3. back = [p \in 0 .. n |->
                  IF p > 0 /\ Cardinality({x \in ends : x > p}) <= lines
                  THEN back[IF p < Chunk THEN 0 ELSE p - Chunk] ELSE p]
    BY <1>2
  <1> HIDE DEF back
  <1>4. IsBack(back, n, ends, lines)
    BY <1>3 DEF IsBack, Back, Further, Before
  <1> QED BY <1>1, <1>4

\* The loop ends at the beginning of the file or with more ends of lines in the
\* buffer than lines are asked for.
LEMMA BackStops ==
  ASSUME NEW n \in Nat, NEW ends \in SUBSET (1 .. n), NEW lines \in Nat,
         NEW g, IsBack(g, n, ends, lines)
  PROVE  \A p \in 0 .. n : g[p] \in 0 .. n /\ ~Further(g[p], ends, lines)
  <1> DEFINE Right(p) == g[p] \in 0 .. n /\ ~Further(g[p], ends, lines)
             Bad == {p \in 0 .. n : ~Right(p)}
  <1>0. \A p \in 0 .. n : g[p] = Back(g, p, ends, lines)
    BY DEF IsBack
  <1> SUFFICES ASSUME Bad # {} PROVE FALSE
    OBVIOUS
  <1>1. PICK m \in Bad : \A k \in Bad : m <= k
    <2>1. Bad \in SUBSET Nat
      OBVIOUS
    <2> HIDE DEF Bad
    <2> QED BY <2>1, Least
  <1>2. m \in 0 .. n /\ ~Right(m)
    BY <1>1
  <1>3. CASE Further(m, ends, lines)
    <2>1. Before(m) \in 0 .. m - 1
      BY <1>2, <1>3, BeforeIsBefore DEF Further
    <2>2. Right(Before(m))
      BY <1>1, <1>2, <2>1
    <2>3. g[m] = g[Before(m)]
      BY <1>0, <1>2, <1>3 DEF Back
    <2> QED BY <1>2, <2>2, <2>3
  <1>4. CASE ~Further(m, ends, lines)
    <2>1. g[m] = m
      BY <1>0, <1>2, <1>4 DEF Back
    <2> QED BY <1>2, <1>4, <2>1
  <1> QED BY <1>3, <1>4

\* A set of naturals and the set of their successors have as many members.
LEMMA SuccessorsCard ==
  ASSUME NEW S \in SUBSET Nat, IsFiniteSet(S)
  PROVE  Cardinality({x + 1 : x \in S}) = Cardinality(S)
  <1> DEFINE T == {x + 1 : x \in S}
             f == [x \in S |-> x + 1]
  <1>1. f \in Bijection(S, T)
    BY DEF Bijection, Injection, Surjection, IsInjective
  <1>2. ExistsBijection(S, T)
    BY <1>1 DEF ExistsBijection
  <1> HIDE DEF T
  <1>3. Cardinality(T) = Cardinality(S)
    BY <1>2, FS_Bijection
  <1> QED BY <1>3 DEF T

\* A byte before the buffer has too many lines after it to be among the last:
\* every end of a line in the buffer but the file's last byte begins another.
LEMMA BeforeBuffer ==
  ASSUME NEW n \in Nat, NEW ends \in SUBSET (1 .. n), NEW lines \in Nat,
         NEW p \in 0 .. n, ~Further(p, ends, lines), NEW x \in 1 .. p
  PROVE  Cardinality({y \in x + 1 .. n : y - 1 \in ends}) >= lines
  <1> DEFINE In == {e \in ends : e > p}
             Inner == In \ {n}
             After == {e + 1 : e \in Inner}
             Starts == {y \in x + 1 .. n : y - 1 \in ends}
  <1>1. In \in SUBSET (1 .. n) /\ Inner \in SUBSET (1 .. n) /\ Inner \in SUBSET Nat
    <2>1. In \in SUBSET (1 .. n)
      OBVIOUS
    <2> HIDE DEF In
    <2>2. \A e \in 1 .. n : e \in Nat
      OBVIOUS
    <2> QED BY <2>1, <2>2
  <1>2. /\ IsFiniteSet(In) /\ Cardinality(In) \in Nat
        /\ IsFiniteSet(Inner) /\ Cardinality(Inner) \in Nat
    BY <1>1, FileCard
  <1>3. Cardinality(In) > lines
    BY <1>2 DEF Further
  <1>4. Cardinality(Inner) >= Cardinality(In) - 1
    <2>1. Cardinality(Inner) = Cardinality(In) - Cardinality(In \cap {n})
      BY <1>2, FS_Difference
    <2>2. Cardinality(In \cap {n}) \in 0 .. 1
      <3>1. In \cap {n} = {} \/ In \cap {n} = {n}
        OBVIOUS
      <3>2. Cardinality({}) = 0 /\ Cardinality({n}) = 1
        BY FS_EmptySet, FS_Singleton
      <3> QED BY <3>1, <3>2
    <2> QED BY <1>2, <2>1, <2>2
  <1>5. Cardinality(After) = Cardinality(Inner)
    BY <1>1, <1>2, SuccessorsCard
  <1>6. Starts \in SUBSET (1 .. n) /\ After \in SUBSET Starts
    OBVIOUS
  <1>7. IsFiniteSet(Starts) /\ Cardinality(Starts) \in Nat
    BY <1>6, FileCard
  <1>8. Cardinality(After) <= Cardinality(Starts)
    BY <1>6, <1>7, FS_Subset
  <1> HIDE DEF In, Inner, After, Starts
  <1>9. Cardinality(Starts) >= lines
    BY <1>2, <1>3, <1>4, <1>5, <1>7, <1>8
  <1> QED BY <1>9 DEF Starts

\* What tail_file gives of any file is what its last lines are.
LEMMA TailIsLastLines ==
  ASSUME NEW n \in Nat, NEW ends \in SUBSET (1 .. n), NEW lines \in Nat
  PROVE  Tail(n, ends, lines) = LastLines(0, n, ends, lines)
  <1>1. CASE lines = 0
    <2>1. \A x \in 1 .. n : Cardinality({y \in x + 1 .. n : y - 1 \in ends}) \in Nat
      BY FileCard
    <2> QED BY <1>1, <2>1 DEF Tail, LastLines
  <1>2. CASE lines # 0
    <2>1. PICK g : IsBack(g, n, ends, lines) /\ ReadBack(n, ends, lines) = g[n]
      BY ReadBackIs
    <2>2. PICK p \in 0 .. n : p = ReadBack(n, ends, lines) /\ ~Further(p, ends, lines)
      BY <2>1, BackStops
    <2>3. Tail(n, ends, lines) = LastLines(p, n, ends, lines)
      BY <1>2, <2>2 DEF Tail
    <2>4. ASSUME NEW x \in 1 .. p,
                 Cardinality({y \in x + 1 .. n : y - 1 \in ends}) < lines
          PROVE  FALSE
      <3>1. Cardinality({y \in x + 1 .. n : y - 1 \in ends}) >= lines
        BY <2>2, BeforeBuffer
      <3>2. Cardinality({y \in x + 1 .. n : y - 1 \in ends}) \in Nat
        BY FileCard
      <3> QED BY <2>4, <3>1, <3>2
    <2>5. LastLines(p, n, ends, lines) = LastLines(0, n, ends, lines)
      BY <2>4 DEF LastLines
    <2> QED BY <2>3, <2>5
  <1> QED BY <1>1, <1>2

\* Wherever the chunks of a log begin and its lines end, tail_file gives the last
\* lines of the whole file (the margin of one more end of a line in its loop).
THEOREM TailIsRight == LogSpec => []TailRight
  <1>1. LogInv => TailRight
    <2> SUFFICES ASSUME LogInv,
                        NEW ends \in SUBSET (1 .. Cardinality(file[0])),
                        NEW lines \in 0 .. Cardinality(file[0])
                 PROVE  Tail(Cardinality(file[0]), ends, lines)
                          = LastLines(0, Cardinality(file[0]), ends, lines)
      BY DEF TailRight
    <2>1. Cardinality(file[0]) \in Nat
      <3>1. 0 \in Names
        BY LogAssumption DEF Names
      <3>2. written \in Nat
        BY LogAssumption DEF LogInv, LogTypeOK
      <3> QED BY <3>1, <3>2, Lengths DEF LogInv
    <2>2. PICK n \in Nat : n = Cardinality(file[0])
      BY <2>1
    <2> QED BY <2>2, TailIsLastLines
  <1> QED BY <1>1, LogInvariance, PTL

=============================================================================
