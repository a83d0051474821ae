---------------------------- MODULE LogRotation ----------------------------
(***************************************************************************)
(* A size-bounded, rename-rotated log (RotatingLogWriter of                *)
(* src/src/log_rotation.rs) and its one writer, one system call at a time, *)
(* any of which may fail and between any two of which the process may be   *)
(* killed.  Index 0 is the log, index i its backup .i; a byte is the       *)
(* number of bytes written up to it, so that a file is the set of its      *)
(* bytes and its order is theirs.                                          *)
(***************************************************************************)
EXTENDS Integers, FiniteSets

CONSTANTS MaxBytes,  \* LogLimits::max_bytes
          Backups,   \* LogLimits::backup_count
          Chunk,     \* what tail_file reads at a time (CHUNK)
          Bytes,     \* bound: bytes written in a behaviour
          Failures   \* bound: failing calls and kills

ASSUME LogAssumption ==
  /\ MaxBytes \in Nat \ {0}
  /\ Backups \in Nat \ {0}
  /\ Chunk \in Nat \ {0}
  /\ Bytes \in Nat
  /\ Failures \in Nat

VARIABLES
  writer,   \* who writes: the manager's SharedLog, or, in a service's log,
            \* first start_locked its header, then the pump
  exists,   \* the files there are
  file,     \* their bytes
  handle,   \* the file that RotatingLogWriter::file is, by its present name
  size,     \* RotatingLogWriter::size
  todo,     \* bytes write_bytes has left to write
  at,       \* closed, open, muted; in write_bytes: write, shift, park, reopen
  index,    \* rotate's loop variable
  written,  \* bytes written so far
  torn,     \* bytes of failed writes after which their writer went on
  failed    \* failures so far

lvars == <<writer, exists, file, handle, size, todo, at, index, written, torn,
           failed>>

Names == 0 .. Backups

\* the bytes that k files hold
Cap(k) == MaxBytes * k

LogTypeOK ==
  /\ writer \in {"shared", "header", "pump"}
  /\ exists \subseteq Names
  /\ file \in [Names -> SUBSET (1 .. Bytes)]
  /\ \A n \in Names \ exists : file[n] = {}
  /\ handle \in Names
  /\ size \in 0 .. Bytes
  /\ todo \in 0 .. Bytes
  /\ at \in {"closed", "open", "muted", "write", "shift", "park", "reopen"}
  /\ index \in 0 .. Backups - 1
  /\ written \in 0 .. Bytes
  /\ torn \in Nat
  /\ failed \in 0 .. Failures

LogInit ==
  /\ writer \in {"shared", "header"}
  /\ exists = {}
  /\ file = [n \in Names |-> {}]
  /\ handle = 0
  /\ size = 0
  /\ todo = 0
  /\ at = "closed"
  /\ index = 0
  /\ written = 0
  /\ torn = 0
  /\ failed = 0

-----------------------------------------------------------------------------
(* System calls.                                                           *)

\* mutant: the size of a file that was there already is not taken into account
OpenAppendFresh ==
  /\ exists' = exists \cup {0}
  /\ handle' = 0
  /\ size' = 0
  /\ UNCHANGED file

\* mutant: the log is truncated when it is opened
OpenTruncate ==
  /\ exists' = exists \cup {0}
  /\ file' = [file EXCEPT ![0] = {}]
  /\ handle' = 0
  /\ size' = 0

\* open_append
OpenAppend ==
  /\ exists' = exists \cup {0}
  /\ handle' = 0
  /\ size' = Cardinality(file[0])
  /\ UNCHANGED file

\* rename, if the source exists; an open file keeps its handle
Rename(from, to) ==
  IF from \in exists
  THEN /\ exists' = (exists \ {from}) \cup {to}
       /\ file' = [file EXCEPT ![to] = file[from], ![from] = {}]
       /\ handle' = IF handle = from THEN to ELSE handle
  ELSE UNCHANGED <<exists, file, handle>>

\* An error of write_bytes stops only a pump for good: SharedLog goes on with the
\* next message, and start_locked ignores what becomes of its header, and of the
\* error line after it, and hands the same RotatingLogWriter to the pump.
Rested == IF writer = "pump" THEN "muted" ELSE "open"

-----------------------------------------------------------------------------
(* The writer.                                                             *)

Open ==
  /\ at = "closed"
  /\ OpenAppend
  /\ at' = "open"
  /\ UNCHANGED <<writer, todo, index, written, torn, failed>>

\* the header is written, or is not; the pump's thread starts
PumpTakesOver ==
  /\ at = "open"
  /\ writer = "header"
  /\ writer' = "pump"
  /\ UNCHANGED <<exists, file, handle, size, todo, at, index, written, torn, failed>>

Write(n) ==
  /\ at = "open"
  /\ n \in 1 .. Bytes - written
  /\ todo' = n
  /\ at' = "write"
  /\ UNCHANGED <<writer, exists, file, handle, size, index, written, torn, failed>>

\* as much of the data as there is room for
Room == IF MaxBytes - size < todo THEN MaxBytes - size ELSE todo

Append ==
  /\ at = "write" /\ size < MaxBytes
  /\ file' = [file EXCEPT ![handle] = @ \cup (written + 1 .. written + Room)]
  /\ size' = size + Room
  /\ written' = written + Room
  /\ todo' = todo - Room
  /\ at' = IF todo = Room THEN "open" ELSE "write"
  /\ UNCHANGED <<writer, exists, handle, index, torn, failed>>

\* write_all fails: nothing was written, or a part that size does not count
AppendFails ==
  /\ at = "write" /\ size < MaxBytes
  /\ failed < Failures
  /\ \E n \in 0 .. Room - 1 :
       /\ file' = [file EXCEPT ![handle] = @ \cup (written + 1 .. written + n)]
       /\ written' = written + n
       /\ torn' = IF Rested = "open" THEN torn + n ELSE torn
  /\ todo' = 0
  /\ at' = Rested
  /\ failed' = failed + 1
  /\ UNCHANGED <<writer, exists, handle, size, index>>

\* mutant: the loop includes the oldest backup
RemoveOldestInclusive ==
  /\ at = "write" /\ size >= MaxBytes
  /\ exists' = exists \ {Backups}
  /\ file' = [file EXCEPT ![Backups] = {}]
  /\ index' = Backups
  /\ at' = "shift"
  /\ UNCHANGED <<writer, handle, size, todo, written, torn, failed>>

\* rotate: remove the oldest backup
RemoveOldest ==
  /\ at = "write" /\ size >= MaxBytes
  /\ exists' = exists \ {Backups}
  /\ file' = [file EXCEPT ![Backups] = {}]
  /\ index' = Backups - 1
  /\ at' = "shift"
  /\ UNCHANGED <<writer, handle, size, todo, written, torn, failed>>

\* mutant: the backups are shifted from the newest on
ShiftUp ==
  /\ at = "shift"
  /\ IF index >= 1
     THEN Rename(Backups - index, Backups - index + 1) /\ index' = index - 1 /\ UNCHANGED at
     ELSE at' = "park" /\ UNCHANGED <<exists, file, handle, index>>
  /\ UNCHANGED <<writer, size, todo, written, torn, failed>>

\* ... shift the others, the oldest first
Shift ==
  /\ at = "shift"
  /\ IF index >= 1
     THEN Rename(index, index + 1) /\ index' = index - 1 /\ UNCHANGED at
     ELSE at' = "park" /\ UNCHANGED <<exists, file, handle, index>>
  /\ UNCHANGED <<writer, size, todo, written, torn, failed>>

\* ... the log becomes the newest
Park ==
  /\ at = "park"
  /\ Rename(0, 1)
  /\ at' = "reopen"
  /\ UNCHANGED <<writer, size, todo, index, written, torn, failed>>

\* ... and a new log takes its place
Reopen ==
  /\ at = "reopen"
  /\ OpenAppend
  /\ at' = "write"
  /\ UNCHANGED <<writer, todo, index, written, torn, failed>>

\* remove_file, rename or open fails
RotateFails ==
  /\ \/ at = "write" /\ size >= MaxBytes
     \/ at = "shift" /\ index \in exists \ {0}
     \/ at = "park" /\ 0 \in exists
     \/ at = "reopen"
  /\ failed < Failures
  /\ todo' = 0
  /\ index' = 0
  /\ at' = Rested
  /\ failed' = failed + 1
  /\ UNCHANGED <<writer, exists, file, handle, size, written, torn>>

\* the process is killed, the command cannot be spawned, or a pump's stream ends;
\* the next launch opens anew and begins with a header
Closed ==
  /\ at # "closed"
  /\ at \in {"open", "muted"} \/ failed < Failures
  /\ failed' = IF at \in {"open", "muted"} THEN failed ELSE failed + 1
  /\ at' = "closed"
  /\ todo' = 0
  /\ index' = 0
  /\ handle' = 0
  /\ size' = 0
  /\ writer' = IF writer = "pump" THEN "header" ELSE writer
  /\ UNCHANGED <<exists, file, written, torn>>

LogNext ==
  \/ Open \/ PumpTakesOver \/ Append \/ AppendFails \/ RemoveOldest \/ Shift \/ Park \/ Reopen
  \/ RotateFails \/ Closed
  \/ \E n \in 1 .. Bytes : Write(n)

LogSpec == LogInit /\ [][LogNext]_lvars

-----------------------------------------------------------------------------
(* tail_file.  A file that is only appended to may be read while it is     *)
(* written or renamed: what the reader finds is the file at its seek.      *)

\* mutant: the end of the last line counts for a line
ReadBackShort(n, ends, lines) ==
  LET back[p \in 0 .. n] ==
        IF p > 0 /\ Cardinality({x \in ends : x > p}) < lines
        THEN back[IF p < Chunk THEN 0 ELSE p - Chunk] ELSE p
  IN back[n]

\* where the buffer begins: the file, of n bytes of which some end a line, is
\* read backwards until the buffer has more ends than lines are asked for
ReadBack(n, ends, lines) ==
  LET back[p \in 0 .. n] ==
        IF p > 0 /\ Cardinality({x \in ends : x > p}) <= lines
        THEN back[IF p < Chunk THEN 0 ELSE p - Chunk] ELSE p
  IN back[n]

\* the last lines of the bytes after p: those with too few beginnings after them
LastLines(p, n, ends, lines) ==
  {x \in p + 1 .. n : Cardinality({y \in x + 1 .. n : y - 1 \in ends}) < lines}

Tail(n, ends, lines) ==
  IF lines = 0 THEN {} ELSE LastLines(ReadBack(n, ends, lines), n, ends, lines)

-----------------------------------------------------------------------------
(* What must hold.                                                         *)

\* "splitting it across files so none exceeds the cap" (src/src/log_rotation.rs:89)
NoneExceedsCap == \A n \in Names : Cardinality(file[n]) <= MaxBytes

\* No file exceeds the cap by more than the bytes that failed writes have left in
\* the log uncounted (write_bytes, rotate): a kill, a failed rotation, a failed
\* open and a pump's torn write, which is its last, add nothing to it.
CapHeld == \A n \in Names : Cardinality(file[n]) <= MaxBytes + torn

\* Older files hold older bytes (".log.1 is the newest backup"), also amid a
\* rotation and after one that was cut short.
InOrder ==
  \A m, n \in Names : m < n => \A x \in file[m], y \in file[n] : y < x

\* "only the oldest backup is ever deleted" (src/src/log_rotation.rs:5): of what
\* was written, what is gone is older than all that is left.
OnlyOldestLost ==
  \A n \in Names : \A x \in file[n] : \A y \in x .. written : \E m \in Names : y \in file[m]

\* Both, so that the files, oldest first, are the unbroken end of the log.
Contiguous == InOrder /\ OnlyOldestLost

\* Each failure or kill costs at most the room of one file: the last bytes that
\* fit into Backups files are all kept, less a file for each failure (a rotation
\* that is cut short is begun anew by the next write, and shifts once more).
LossBounded ==
  \A x \in written - Cap(Backups - failed) + 1 .. written :
    x >= 1 => \E n \in Names : x \in file[n]

-----------------------------------------------------------------------------
(* Why it holds: what is true between any two system calls.                *)

Rotating == at \in {"shift", "park"}

\* The size is honest where it lets bytes through, so bytes go to the log and
\* never to a backup that the handle was renamed to; a rotation under way has
\* reached the cap, and the slot it fills next is empty.
HandleInv ==
  /\ handle = 0 \/ size >= MaxBytes
  /\ at = "closed" => handle = 0 /\ size = 0
  /\ Rotating \/ at = "reopen" => size >= MaxBytes
  /\ size >= MaxBytes \/ size <= Cardinality(file[0])
  /\ at # "closed" /\ size < MaxBytes => 0 \in exists
  /\ at # "write" => at \in {"shift", "park", "reopen"} \/ todo = 0
  /\ size <= written
  /\ written + todo <= Bytes
  /\ \A n \in Names : file[n] \subseteq 1 .. written
  /\ at # "shift" => index = 0
  /\ Rotating => file[index + 1] = {}
  /\ at = "reopen" => file[0] = {}

\* Where bytes are let through, the size counts the log but for those torn off.
CapInv ==
  /\ CapHeld
  /\ at \in {"open", "write"} /\ size < MaxBytes => Cardinality(file[0]) <= size + torn

\* How far back a byte of the n-th backup lies: a file's room for each backup up
\* to it but one, less one for each failure, and the log's bytes; the one too
\* once the log is full; and one less where the rotation has shifted it already.
Behind(n, x) ==
  LET log == Cardinality(file[0])
      far == written - Cap(n - failed)
  IN IF Rotating /\ n > index
     THEN x <= far + MaxBytes /\ x <= far + 2 * MaxBytes - log
     ELSE /\ x <= far + MaxBytes - log
          /\ size >= MaxBytes /\ at # "reopen" => x <= far

BehindInv == \A n \in 1 .. Backups : \A x \in file[n] : Behind(n, x)

\* The inductive invariant of the log: no byte is written past the cap or to a
\* backup, no rename lands on a file that is there, and what a rotation deletes
\* is as far back as LossBounded says (RotatingLogWriter's handle, size and loop).
LogInv ==
  LogTypeOK /\ HandleInv /\ CapInv /\ Contiguous /\ BehindInv /\ LossBounded

-----------------------------------------------------------------------------
(* Reading a log back.                                                     *)

\* Wherever the chunks of a log happen to begin and its lines end, tail_file gives
\* the last lines of the whole file, the last one ended or not.
TailRight ==
  LET n == Cardinality(file[0])
  IN \A ends \in SUBSET (1 .. n) : \A lines \in 0 .. n :
       Tail(n, ends, lines) = LastLines(0, n, ends, lines)

=============================================================================
