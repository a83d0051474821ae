-------------------------- MODULE InstanceProofs --------------------------
(* Proofs about Instance for every number of launches and every timeout:   *)
(* one primary at a time, and requests reach only the one there is.        *)
EXTENDS Instance, LeastNatural, SequenceTheorems, TLAPS

(***************************************************************************)
(* merge_path.  What is merged of the first i entries is Merged's value at *)
(* i, for a function that is what MergePath's recursion describes.         *)
(***************************************************************************)

Add(merged, entry) ==
  IF entry = "" \/ entry \in ToSet(merged) THEN merged ELSE Append(merged, entry)

Merged(g, all) ==
  g = [i \in 0 .. Len(all) |-> IF i = 0 THEN <<>> ELSE Add(g[i - 1], all[i])]

\* The entries of a sequence without the empty one, up to the i-th.
Dirs(seq) == {seq[i] : i \in DOMAIN seq} \ {""}
DirsTo(all, i) == {all[j] : j \in 1 .. i} \ {""}

\* The recursion describes a function.
LEMMA MergedExists ==
  ASSUME NEW all \in Seq(STRING)
  PROVE  \E g : Merged(g, all)
  <1> DEFINE Upto(g, n) == g = [i \in 0 .. n |-> IF i = 0 THEN <<>> ELSE Add(g[i - 1], all[i])]
             Bad == {n \in Nat : ~ \E g : Upto(g, n)}
  <1>1. ASSUME Bad # {} PROVE FALSE
    <2>1. PICK m \in Bad : \A k \in Bad : m <= k
      BY <1>1, Least
    <2>2. m \in Nat /\ ~ \E g : Upto(g, m)
      BY <2>1
    <2>3. CASE m = 0
      <3> DEFINE h == [i \in 0 .. 0 |-> <<>>]
      <3>1. Upto(h, 0)
        OBVIOUS
      <3>2. \E g : Upto(g, 0)
        <4> HIDE DEF h, Upto
        <4> QED BY <3>1
      <3> HIDE DEF Upto
      <3> QED BY <2>2, <2>3, <3>2
    <2>4. CASE m > 0
      <3>1. PICK g : Upto(g, m - 1)
        BY <2>1, <2>2, <2>4
      <3> DEFINE h == [i \in 0 .. m |-> IF i = m THEN Add(g[m - 1], all[m]) ELSE g[i]]
      <3>2. \A i \in 0 .. m - 1 :
              h[i] = g[i] /\ g[i] = IF i = 0 THEN <<>> ELSE Add(g[i - 1], all[i])
        BY <2>2, <3>1
      <3>3. h[m] = Add(g[m - 1], all[m]) /\ h = [i \in 0 .. m |-> h[i]]
        BY <2>2
      <3> HIDE DEF h
      <3>4. \A i \in 0 .. m : h[i] = IF i = 0 THEN <<>> ELSE Add(h[i - 1], all[i])
        <4> TAKE i \in 0 .. m
        <4>1. CASE i = m
          <5>1. h[m - 1] = g[m - 1]
            BY <2>2, <2>4, <3>2
          <5> QED BY <2>2, <2>4, <3>3, <4>1, <5>1
        <4>2. CASE i # m
          <5>1. i \in 0 .. m - 1 /\ (i # 0 => i - 1 \in 0 .. m - 1)
            BY <2>2, <4>2
          <5> QED BY <3>2, <5>1
        <4> QED BY <4>1, <4>2
      <3>5. Upto(h, m)
        BY <3>3, <3>4
      <3> QED BY <2>2, <3>5
    <2> QED BY <2>2, <2>3, <2>4
  <1>2. Len(all) \in Nat
    OBVIOUS
  <1>3. \E g : Upto(g, Len(all))
    BY <1>1, <1>2
  <1> QED BY <1>3 DEF Merged

\* MergePath's result is that function's last value.
LEMMA MergePathIs ==
  ASSUME NEW current \in Seq(STRING), NEW resolved \in Seq(STRING)
  PROVE  \E g : /\ Merged(g, resolved \o current)
                /\ MergePath(current, resolved) = g[Len(resolved \o current)]
  <1> DEFINE all == resolved \o current
             merged[i \in 0 .. Len(all)] ==
               IF i = 0 THEN <<>>
               ELSE LET seen == merged[i - 1] IN
                    IF all[i] = "" \/ all[i] \in ToSet(seen) THEN seen ELSE Append(seen, all[i])
  <1>1. MergePath(current, resolved) = merged[Len(all)]
    BY DEF MergePath
  <1>2. all \in Seq(STRING)
    OBVIOUS
  <1> HIDE DEF all
  <1>3. \E g : g = [i \in 0 .. Len(all) |->
                     IF i = 0 THEN <<>>
                     ELSE IF all[i] = "" \/ all[i] \in ToSet(g[i - 1]) THEN g[i - 1]
                     ELSE Append(g[i - 1], all[i])]
    <2>1. PICK g : Merged(g, all)
      BY <1>2, MergedExists
    <2> QED BY <2>1 DEF Merged, Add
  <1>4. merged = [i \in 0 .. Len(all) |->
                    IF i = 0 THEN <<>>
                    ELSE IF all[i] = "" \/ all[i] \in ToSet(merged[i - 1]) THEN merged[i - 1]
                    ELSE Append(merged[i - 1], all[i])]
    BY <1>3
  <1> HIDE DEF merged
  <1>5. Merged(merged, all)
    BY <1>4 DEF Merged, Add
  <1> QED BY <1>1, <1>5 DEF all

\* No directory stands in a sequence twice.
Once(seq) == \A i, j \in DOMAIN seq : seq[i] = seq[j] => i = j

\* A sequence that another begins with.
Begins(seq, longer) ==
  Len(seq) <= Len(longer) /\ \A k \in 1 .. Len(seq) : longer[k] = seq[k]

\* An entry is put at the end, if it names a directory that is not there yet.
LEMMA AddOne ==
  ASSUME NEW seq \in Seq(STRING), Once(seq), NEW entry \in STRING
  PROVE  /\ Add(seq, entry) \in Seq(STRING)
         /\ Once(Add(seq, entry))
         /\ ToSet(Add(seq, entry)) = ToSet(seq) \cup ({entry} \ {""})
         /\ Begins(seq, Add(seq, entry))
  <1>0. Len(seq) \in Nat /\ DOMAIN seq = 1 .. Len(seq)
    OBVIOUS
  <1>1. CASE entry = "" \/ entry \in ToSet(seq)
    <2>1. Add(seq, entry) = seq
      BY <1>1 DEF Add
    <2>2. Begins(seq, seq)
      BY <1>0 DEF Begins
    <2>3. ToSet(seq) = ToSet(seq) \cup ({entry} \ {""})
      BY <1>1
    <2> QED BY <2>1, <2>2, <2>3
  <1>2. CASE ~(entry = "" \/ entry \in ToSet(seq))
    <2> DEFINE new == Append(seq, entry)
    <2>1. Add(seq, entry) = new
      BY <1>2 DEF Add
    <2>2. /\ new \in Seq(STRING) /\ Len(new) = Len(seq) + 1
          /\ DOMAIN new = 1 .. Len(seq) + 1
          /\ \A k \in 1 .. Len(seq) : new[k] = seq[k]
          /\ new[Len(seq) + 1] = entry
      <3>1. new \in Seq(STRING) /\ Len(new) = Len(seq) + 1
        BY AppendProperties
      <3>2. \A k \in 1 .. Len(seq) : new[k] = seq[k]
        BY AppendProperties
      <3>3. new[Len(seq) + 1] = entry
        BY AppendProperties
      <3> HIDE DEF new
      <3> QED BY <3>1, <3>2, <3>3
    <2> HIDE DEF new
    <2>3. \A k \in 1 .. Len(seq) : seq[k] \in ToSet(seq)
      BY <1>0 DEF ToSet
    <2>4. \A k \in 1 .. Len(seq) : seq[k] # entry
      BY <1>2, <2>3
    <2>5. Once(new)
      <3> SUFFICES ASSUME NEW i \in 1 .. Len(seq) + 1, NEW j \in 1 .. Len(seq) + 1,
                          new[i] = new[j]
                   PROVE  i = j
        BY <2>2 DEF Once
      <3>1. CASE i \in 1 .. Len(seq) /\ j \in 1 .. Len(seq)
        BY <1>0, <2>2, <3>1 DEF Once
      <3>2. CASE i = Len(seq) + 1 \/ j = Len(seq) + 1
        <4>1. \A k \in 1 .. Len(seq) : new[k] # new[Len(seq) + 1]
          BY <2>2, <2>4
        <4>2. /\ i \in 1 .. Len(seq) \/ i = Len(seq) + 1
              /\ j \in 1 .. Len(seq) \/ j = Len(seq) + 1
          BY <1>0
        <4> QED BY <3>2, <4>1, <4>2
      <3> QED BY <1>0, <3>1, <3>2
    <2>6. ToSet(new) = ToSet(seq) \cup {entry}
      <3>1. ASSUME NEW x \in ToSet(new) PROVE x \in ToSet(seq) \cup {entry}
        <4>1. PICK k \in 1 .. Len(seq) + 1 : x = new[k]
          BY <2>2, <3>1 DEF ToSet
        <4>2. k \in 1 .. Len(seq) \/ k = Len(seq) + 1
          BY <1>0
        <4> QED BY <2>2, <2>3, <4>1, <4>2
      <3>2. ASSUME NEW x \in ToSet(seq) PROVE x \in ToSet(new)
        <4>1. PICK k \in 1 .. Len(seq) : x = seq[k]
          BY <1>0, <3>2 DEF ToSet
        <4>2. k \in DOMAIN new /\ new[k] = x
          BY <1>0, <2>2, <4>1
        <4> QED BY <4>2 DEF ToSet
      <3>3. entry \in ToSet(new)
        <4>1. Len(seq) + 1 \in DOMAIN new
          BY <1>0, <2>2
        <4> QED BY <2>2, <4>1 DEF ToSet
      <3> QED BY <3>1, <3>2, <3>3
    <2>7. Begins(seq, new)
      BY <1>0, <2>2 DEF Begins
    <2> QED BY <1>2, <2>1, <2>2, <2>5, <2>6, <2>7
  <1> QED BY <1>1, <1>2

\* So with each entry: what is merged so far is each directory so far, once.
LEMMA MergedRight ==
  ASSUME NEW all \in Seq(STRING), NEW g, Merged(g, all)
  PROVE  \A i \in 0 .. Len(all) :
           g[i] \in Seq(STRING) /\ Once(g[i]) /\ ToSet(g[i]) = DirsTo(all, i)
  <1> DEFINE Right(i) == g[i] \in Seq(STRING) /\ Once(g[i]) /\ ToSet(g[i]) = DirsTo(all, i)
             Bad == {i \in 0 .. Len(all) : ~Right(i)}
  <1> SUFFICES ASSUME Bad # {} PROVE FALSE
    OBVIOUS
  <1>0. \A i \in 0 .. Len(all) : g[i] = IF i = 0 THEN <<>> ELSE Add(g[i - 1], all[i])
    BY DEF Merged
  <1>1. PICK m \in Bad : \A k \in Bad : m <= k
    <2>1. Bad \in SUBSET Nat
      OBVIOUS
    <2> HIDE DEF Bad
    <2> QED BY <2>1, Least
  <1>2. m \in 0 .. Len(all) /\ ~Right(m)
    BY <1>1
  <1>3. CASE m = 0
    <2>1. g[0] = <<>> /\ DirsTo(all, 0) = {}
      <3>1. 1 .. 0 = {}
        OBVIOUS
      <3>2. DirsTo(all, 0) = {}
        BY <3>1 DEF DirsTo
      <3> QED BY <1>0, <1>2, <1>3, <3>2
    <2>2. ToSet(<<>>) = {} /\ Once(<<>>) /\ <<>> \in Seq(STRING)
      BY DEF ToSet, Once
    <2> QED BY <1>2, <1>3, <2>1, <2>2
  <1>4. CASE m # 0
    <2>1. m - 1 \in 0 .. Len(all) /\ Right(m - 1)
      BY <1>1, <1>2, <1>4
    <2>2. g[m] = Add(g[m - 1], all[m]) /\ all[m] \in STRING
      BY <1>0, <1>2, <1>4
    <2>3. DirsTo(all, m) = DirsTo(all, m - 1) \cup ({all[m]} \ {""})
      <3>1. 1 .. m = (1 .. m - 1) \cup {m}
        BY <1>2, <1>4
      <3> QED BY <3>1 DEF DirsTo
    <2>4. g[m - 1] \in Seq(STRING) /\ Once(g[m - 1]) /\ ToSet(g[m - 1]) = DirsTo(all, m - 1)
      BY <2>1
    <2>5. PICK seq \in Seq(STRING), entry \in STRING : seq = g[m - 1] /\ entry = all[m]
      BY <2>2, <2>4
    <2>6. Right(m)
      BY <2>2, <2>3, <2>4, <2>5, AddOne
    <2> QED BY <1>2, <2>6
  <1> QED BY <1>3, <1>4

\* What is merged stays where it is.
LEMMA MergedStays ==
  ASSUME NEW all \in Seq(STRING), NEW g, Merged(g, all), NEW n \in 0 .. Len(all)
  PROVE  \A i \in n .. Len(all) : Begins(g[n], g[i])
  <1> DEFINE Bad == {i \in n .. Len(all) : ~Begins(g[n], g[i])}
  <1> SUFFICES ASSUME Bad # {} PROVE FALSE
    OBVIOUS
  <1>0. \A i \in 1 .. Len(all) : g[i] = Add(g[i - 1], all[i]) /\ all[i] \in STRING
    BY DEF Merged
  <1>1. PICK m \in Bad : \A k \in Bad : m <= k
    <2>1. Bad \in SUBSET Nat
      OBVIOUS
    <2> HIDE DEF Bad
    <2> QED BY <2>1, Least
  <1>2. m \in n .. Len(all) /\ ~Begins(g[n], g[m]) /\ m \in 0 .. Len(all)
    BY <1>1
  <1>3. m # n
    <2>1. g[n] \in Seq(STRING)
      BY MergedRight
    <2>2. Begins(g[n], g[n])
      BY <2>1 DEF Begins
    <2> QED BY <1>2, <2>2
  <1>4. m - 1 \in n .. Len(all) /\ m - 1 \in 0 .. Len(all) /\ Begins(g[n], g[m - 1])
    BY <1>1, <1>2, <1>3
  <1>5. Begins(g[m - 1], g[m])
    <2>1. g[m - 1] \in Seq(STRING) /\ Once(g[m - 1])
      BY <1>4, MergedRight
    <2>2. m \in 1 .. Len(all)
      BY <1>2, <1>3
    <2>3. PICK seq \in Seq(STRING), entry \in STRING : seq = g[m - 1] /\ entry = all[m]
      BY <1>0, <2>1, <2>2
    <2>4. g[m] = Add(seq, entry)
      BY <1>0, <2>2, <2>3
    <2>5. Once(seq)
      BY <2>1, <2>3
    <2>6. Begins(seq, Add(seq, entry))
      BY <2>5, AddOne
    <2> QED BY <2>3, <2>4, <2>6
  <1>6. g[n] \in Seq(STRING) /\ g[m - 1] \in Seq(STRING) /\ g[m] \in Seq(STRING)
    BY <1>2, <1>4, MergedRight
  <1> QED BY <1>2, <1>4, <1>5, <1>6 DEF Begins

\* merge_path: every directory of both once, those of the login shell first, in a
\* PATH without empty entries.
LEMMA MergeRight ==
  ASSUME NEW current \in Seq(STRING), NEW resolved \in Seq(STRING),
         NEW new, new = MergePath(current, resolved)
  PROVE  /\ new \in Seq(STRING)
         /\ Once(new)
         /\ ToSet(new) = Dirs(current) \cup Dirs(resolved)
         /\ \A a \in Dirs(resolved), b \in Dirs(current) \ Dirs(resolved) : Before(new, a, b)
  <1> DEFINE all == resolved \o current
             n == Len(resolved)
             l == Len(all)
  <1>1. PICK g : Merged(g, all) /\ new = g[l]
    BY MergePathIs
  <1>2. all \in Seq(STRING) /\ n \in Nat /\ Len(current) \in Nat /\ l = n + Len(current)
    BY ConcatProperties
  <1>3. /\ \A i \in 1 .. n : all[i] = resolved[i]
        /\ \A i \in 1 .. Len(current) : all[n + i] = current[i]
    BY ConcatProperties
  <1>4. n \in 0 .. l /\ l \in 0 .. l /\ l \in n .. l
    BY <1>2
  <1>5. DOMAIN resolved = 1 .. n /\ DOMAIN current = 1 .. Len(current)
    OBVIOUS
  <1> HIDE DEF all, n, l
  <1>6. DirsTo(all, n) = Dirs(resolved)
    BY <1>3, <1>5 DEF DirsTo, Dirs
  <1>7. DirsTo(all, l) = Dirs(current) \cup Dirs(resolved)
    <2>1. ASSUME NEW x \in DirsTo(all, l) PROVE x \in Dirs(current) \cup Dirs(resolved)
      <3>1. PICK i \in 1 .. l : x = all[i] /\ x # ""
        BY <2>1 DEF DirsTo
      <3>2. CASE i <= n
        <4>1. i \in 1 .. n
          BY <1>2, <3>2
        <4> QED BY <1>3, <1>5, <3>1, <4>1 DEF Dirs
      <3>3. CASE ~(i <= n)
        <4>1. i - n \in 1 .. Len(current) /\ n + (i - n) = i
          BY <1>2, <3>3
        <4>2. x = current[i - n]
          BY <1>3, <3>1, <4>1
        <4> QED BY <1>5, <3>1, <4>1, <4>2 DEF Dirs
      <3> QED BY <3>2, <3>3
    <2>2. ASSUME NEW x \in Dirs(resolved) PROVE x \in DirsTo(all, l)
      <3>1. PICK i \in 1 .. n : x = resolved[i] /\ x # ""
        BY <1>5, <2>2 DEF Dirs
      <3>2. i \in 1 .. l
        BY <1>2
      <3> QED BY <1>3, <3>1, <3>2 DEF DirsTo
    <2>3. ASSUME NEW x \in Dirs(current) PROVE x \in DirsTo(all, l)
      <3>1. PICK i \in 1 .. Len(current) : x = current[i] /\ x # ""
        BY <1>5, <2>3 DEF Dirs
      <3>2. n + i \in 1 .. l
        BY <1>2
      <3> QED BY <1>3, <3>1, <3>2 DEF DirsTo
    <2> QED BY <2>1, <2>2, <2>3
  <1>8. new \in Seq(STRING) /\ Once(new) /\ ToSet(new) = Dirs(current) \cup Dirs(resolved)
    BY <1>1, <1>2, <1>4, <1>7, MergedRight DEF l
  <1>9. ASSUME NEW a \in Dirs(resolved), NEW b \in Dirs(current) \ Dirs(resolved)
        PROVE  Before(new, a, b)
    <2>1. PICK first : first = g[n]
      OBVIOUS
    <2>2. first \in Seq(STRING) /\ ToSet(first) = Dirs(resolved)
      BY <1>1, <1>2, <1>4, <1>6, <2>1, MergedRight DEF l
    <2>3. Begins(first, new)
      BY <1>1, <1>2, <1>4, <2>1, MergedStays DEF l
    <2>4. PICK i \in 1 .. Len(first) : first[i] = a
      BY <2>2 DEF ToSet
    <2>5. PICK j \in DOMAIN new : new[j] = b
      BY <1>8 DEF ToSet
    <2>6. DOMAIN new = 1 .. Len(new) /\ Len(new) \in Nat /\ Len(first) \in Nat
          /\ Len(first) <= Len(new)
      BY <1>8, <2>2, <2>3 DEF Begins
    <2>7. new[i] = a /\ i \in DOMAIN new
      BY <2>3, <2>4, <2>6 DEF Begins
    <2>8. j > Len(first)
      <3> SUFFICES ASSUME j \in 1 .. Len(first) PROVE FALSE
        BY <2>6
      <3>1. first[j] = b
        BY <2>3, <2>5 DEF Begins
      <3>2. b \in ToSet(first)
        BY <2>2, <3>1 DEF ToSet
      <3> QED BY <2>2, <3>2
    <2>9. i < j
      BY <2>4, <2>6, <2>8
    <2> QED BY <2>5, <2>7, <2>9 DEF Before
  <1> QED BY <1>8, <1>9

(***************************************************************************)
(* The query of the login shell.                                           *)
(***************************************************************************)

Queries ==
  [at : {"unasked", "waiting", "receiving", "over"},
   child : {"none", "running", "ended"},
   text : {"nothing", "cut", "whole"},
   login : LoginPaths \cup {<<>>},
   held : BOOLEAN,
   sent : BOOLEAN]

\* What is set for one launch leaves the others alone.
LEMMA SetTyped ==
  ASSUME ShellTypeOK, NEW p \in Launches, NEW new \in Queries, Set(p, new)
  PROVE  ShellTypeOK'
  BY DEF ShellTypeOK, Queries, Set

LEMMA OverTyped == Over \in Queries /\ Unasked \in Queries
  BY DEF Over, Unasked, Queries

\* The shell prints, holds the pipe and exits; the launch's PATH is untouched.
LEMMA ShellRunsTyped ==
  ASSUME ShellTypeOK, NEW p \in Launches, Shell(p)
  PROVE  ShellTypeOK' /\ path' = path
  <1>1. query[p] \in Queries
    BY DEF ShellTypeOK, Queries
  <1>2. PICK new \in Queries : Set(p, new)
    <2>1. CASE Prints(p)
      <3>1. PICK text \in {"cut", "whole"} : Set(p, [query[p] EXCEPT !.text = text])
        BY <2>1 DEF Prints
      <3>2. [query[p] EXCEPT !.text = text] \in Queries
        BY <1>1 DEF Queries
      <3> QED BY <3>1, <3>2
    <2>2. CASE HoldsPipe(p)
      <3>1. [query[p] EXCEPT !.held = TRUE] \in Queries
        BY <1>1 DEF Queries
      <3> QED BY <2>2, <3>1 DEF HoldsPipe
    <2>3. CASE LetsGo(p)
      <3>1. [query[p] EXCEPT !.held = FALSE] \in Queries
        BY <1>1 DEF Queries
      <3> QED BY <2>3, <3>1 DEF LetsGo
    <2>4. CASE ShellExits(p)
      <3>1. [query[p] EXCEPT !.child = "ended"] \in Queries
        BY <1>1 DEF Queries
      <3> QED BY <2>4, <3>1 DEF ShellExits
    <2> QED BY <2>1, <2>2, <2>3, <2>4 DEF Shell
  <1> QED BY <1>2, SetTyped DEF Set

\* A decoded answer is a PATH with the decoded names of the answer's directories.
LEMMA DecodedDirs ==
  ASSUME NEW login \in Seq(STRING)
  PROVE  /\ Decoded(login) \in Seq(STRING)
         /\ Dirs(Decoded(login)) = {Decode(d) : d \in Dirs(login)}
  <1>1. \A d \in STRING : Decode(d) \in STRING /\ (Decode(d) = "" <=> d = "")
    BY ShellPathAssumption DEF Decode
  <1>2. DOMAIN login = 1 .. Len(login) /\ Len(login) \in Nat
        /\ \A i \in 1 .. Len(login) : login[i] \in STRING
    OBVIOUS
  <1>3. Decoded(login) = [i \in 1 .. Len(login) |-> Decode(login[i])]
    BY <1>2 DEF Decoded
  <1> HIDE DEF Decoded
  <1>4. Decoded(login) \in Seq(STRING)
    <2>1. \A i \in 1 .. Len(login) : Decode(login[i]) \in STRING
      BY <1>1, <1>2
    <2> HIDE DEF Decode
    <2> QED BY <1>2, <1>3, <2>1
  <1>5. DOMAIN Decoded(login) = 1 .. Len(login)
        /\ \A i \in 1 .. Len(login) : Decoded(login)[i] = Decode(login[i])
    BY <1>3
  <1>6. Dirs(Decoded(login)) = {Decode(d) : d \in Dirs(login)}
    <2>1. ASSUME NEW x \in Dirs(Decoded(login)) PROVE x \in {Decode(d) : d \in Dirs(login)}
      <3>1. PICK i \in 1 .. Len(login) : x = Decode(login[i]) /\ x # ""
        BY <1>5, <2>1 DEF Dirs
      <3>2. login[i] \in Dirs(login)
        BY <1>1, <1>2, <3>1 DEF Dirs
      <3> QED BY <3>1, <3>2
    <2>2. ASSUME NEW d \in Dirs(login) PROVE Decode(d) \in Dirs(Decoded(login))
      <3>1. PICK i \in 1 .. Len(login) : d = login[i] /\ d # ""
        BY <1>2, <2>2 DEF Dirs
      <3>2. Decoded(login)[i] = Decode(d) /\ Decode(d) # "" /\ i \in DOMAIN Decoded(login)
        BY <1>1, <1>2, <1>5, <3>1
      <3> QED BY <3>2 DEF Dirs
    <2> QED BY <2>1, <2>2
  <1> QED BY <1>4, <1>6

\* An answer is a PATH, and is merged into one.
LEMMA HearsPath ==
  ASSUME ShellTypeOK, NEW p \in Launches, Hears(p), path' # path
  PROVE  LET old == IF path[p] = Garbled THEN <<>> ELSE path[p]
             login == query[p].login
         IN /\ query[p].sent /\ query[p].text = "whole"
            /\ old \in Seq(STRING) /\ login \in Seq(STRING)
            /\ path' = [path EXCEPT ![p] = MergePath(old, Decoded(login))]
  <1>0. <<>> \in Seq(STRING)
    OBVIOUS
  <1>1. query[p].login \in Seq(STRING)
    <2>1. query[p].login \in LoginPaths \cup {<<>>}
      BY DEF ShellTypeOK
    <2> QED BY <1>0, <2>1, ShellPathAssumption
  <1>2. (IF path[p] = Garbled THEN <<>> ELSE path[p]) \in Seq(STRING)
    <2>1. path[p] \in {Garbled} \cup Seq(STRING)
      BY DEF ShellTypeOK
    <2> QED BY <1>0, <2>1
  <1> QED BY <1>1, <1>2 DEF Hears, Extract

LEMMA QueryTyped ==
  ASSUME ShellTypeOK, NEW p \in Launches, NEW due, Query(p, due)
  PROVE  ShellTypeOK' /\ (path' = path \/ Hears(p))
  <1>1. query[p] \in Queries
    BY DEF ShellTypeOK, Queries
  <1>2. CASE Hears(p)
    <2>1. query' \in [Launches -> Queries]
      BY <1>2, OverTyped DEF Hears, ShellTypeOK, Queries
    <2>2. path' \in [Launches -> {Garbled} \cup Seq(STRING)]
      <3>1. CASE path' = path
        BY <3>1 DEF ShellTypeOK
      <3>2. CASE path' # path
        <4>1. PICK old \in Seq(STRING), login \in Seq(STRING) :
                path' = [path EXCEPT ![p] = MergePath(old, Decoded(login))]
          BY <1>2, <3>2, HearsPath
        <4>2. MergePath(old, Decoded(login)) \in Seq(STRING)
          BY DecodedDirs, MergeRight
        <4> QED BY <4>1, <4>2 DEF ShellTypeOK
      <3> QED BY <3>1, <3>2
    <2> QED BY <1>2, <2>1, <2>2 DEF ShellTypeOK, Queries
  <1>3. CASE ~Hears(p)
    <2>1. PICK new \in Queries : Set(p, new)
      <3>1. CASE Ask(p)
        <4>1. PICK login \in LoginPaths :
                Set(p, [query[p] EXCEPT !.at = "waiting", !.child = "running", !.login = login])
          BY <3>1 DEF Ask
        <4>2. [query[p] EXCEPT !.at = "waiting", !.child = "running", !.login = login] \in Queries
          BY <1>1 DEF Queries
        <4> QED BY <4>1, <4>2
      <3>2. CASE ReadToEnd(p)
        <4>1. [query[p] EXCEPT !.sent = TRUE] \in Queries
          BY <1>1 DEF Queries
        <4> QED BY <3>2, <4>1 DEF ReadToEnd
      <3>3. CASE SeesExit(p)
        <4>1. [query[p] EXCEPT !.at = "receiving"] \in Queries
          BY <1>1 DEF Queries
        <4> QED BY <3>3, <4>1 DEF SeesExit
      <3>4. CASE AskFails(p) \/ KillsShell(p, due) \/ HearsNothing(p, due)
        BY <3>4, OverTyped DEF AskFails, KillsShell, HearsNothing
      <3> QED BY <1>3, <3>1, <3>2, <3>3, <3>4 DEF Query
    <2> QED BY <2>1, SetTyped DEF Set
  <1> QED BY <1>2, <1>3

(***************************************************************************)
(* The processes.                                                          *)
(***************************************************************************)

USE DEF ivars, lvars, MoveTo, Primary, Places, Listening, Waiting, Patience

\* The parts of the types.
PlacesTyped ==
  /\ pc \in [Launches -> Places]
  /\ holder \in Launches \cup {Nobody}
  /\ endpoint \in Launches \cup {Nobody}
  /\ backlog \subseteq Launches

AgesTyped ==
  /\ age \in [Launches -> Nat]
  /\ \A p \in Launches : age[p] <= Patience(pc[p])

LEMMA TypeParts == InstanceTypeOK <=> ShellTypeOK /\ PlacesTyped /\ AgesTyped
  BY DEF InstanceTypeOK, PlacesTyped, AgesTyped

\* A request waits only at a living listener, and a launch that got one through
\* has it there.
RequestsAwaited ==
  /\ backlog # {} => Listening
  /\ \A p \in Launches : pc[p] = "reached" <=> p \in backlog

\* One primary, whose listener is the one that is reached, and requests that
\* wait only there.
InstanceInv == PlacesTyped /\ OnePrimary /\ ListenerHoldsLock /\ RequestsAwaited

\* Nobody runs at first.
LEMMA StartsAlone == InstanceInit => InstanceInv
  BY InstanceAssumption
     DEF InstanceInit, InstanceInv, PlacesTyped, OnePrimary, ListenerHoldsLock, RequestsAwaited

\* Every step of every process keeps the invariant.
LEMMA InstanceStep == InstanceInv /\ [InstanceNext]_ivars => InstanceInv'
  <1> SUFFICES ASSUME InstanceInv, [InstanceNext]_ivars PROVE InstanceInv'
    OBVIOUS
  <1> USE InstanceAssumption
      DEF InstanceInv, PlacesTyped, OnePrimary, ListenerHoldsLock, RequestsAwaited
  <1>1. ASSUME NEW p \in Launches, Start(p) PROVE InstanceInv'
    BY <1>1 DEF Start
  <1>2. ASSUME NEW p \in Launches, Listen(p) PROVE InstanceInv'
    BY <1>2 DEF Listen
  <1>3. ASSUME NEW p \in Launches, StartFails(p) PROVE InstanceInv'
    BY <1>3 DEF StartFails
  <1>4. ASSUME NEW k \in Launches, Accept(k) PROVE InstanceInv'
    BY <1>4 DEF Accept
  <1>5. ASSUME NEW p \in Launches, Leave(p) PROVE InstanceInv'
    BY <1>5 DEF Leave
  <1>6. ASSUME NEW p \in Launches, DropServer(p) PROVE InstanceInv'
    BY <1>6 DEF DropServer, Forget
  <1>7. ASSUME NEW p \in Launches, DropLock(p) PROVE InstanceInv'
    BY <1>7 DEF DropLock
  <1>8. ASSUME NEW p \in Launches, Killed(p) PROVE InstanceInv'
    BY <1>8 DEF Killed, Forget
  <1>9. ASSUME NEW p \in Launches, Knock(p) PROVE InstanceInv'
    BY <1>9 DEF Knock
  <1>10. ASSUME NEW p \in Launches, GiveUp(p) PROVE InstanceInv'
    BY <1>10 DEF GiveUp
  <1>11. CASE Tick BY <1>11 DEF Tick
  <1>12. CASE UNCHANGED ivars BY <1>12
  <1>13. ASSUME NEW p \in Launches, AskShell(p) \/ ShellRuns(p) PROVE InstanceInv'
    BY <1>13 DEF AskShell, ShellRuns
  <1> QED
    BY <1>1, <1>2, <1>3, <1>4, <1>5, <1>6, <1>7, <1>8, <1>9, <1>10, <1>11, <1>12, <1>13
       DEF InstanceNext, Run

\* The query of a launch keeps its shape, and its PATH is a PATH.
LEMMA ShellStep == ShellTypeOK /\ [InstanceNext]_ivars => ShellTypeOK'
  <1> SUFFICES ASSUME ShellTypeOK, [InstanceNext]_ivars PROVE ShellTypeOK'
    OBVIOUS
  <1>1. ASSUME UNCHANGED shvars PROVE ShellTypeOK'
    BY <1>1 DEF ShellTypeOK, shvars
  <1>2. ASSUME NEW p \in Launches, AskShell(p) PROVE ShellTypeOK'
    <2>1. PICK due : Query(p, due)
      BY <1>2 DEF AskShell
    <2> QED BY <2>1, QueryTyped
  <1>3. ASSUME NEW p \in Launches, ShellRuns(p) PROVE ShellTypeOK'
    BY <1>3, ShellRunsTyped DEF ShellRuns
  <1>4. ASSUME NEW p \in Launches, Killed(p) PROVE ShellTypeOK'
    <2>1. query' = [query EXCEPT ![p] = Over] /\ path' = path
      BY <1>4 DEF Killed
    <2> QED BY <2>1, OverTyped DEF ShellTypeOK, Queries
  <1>5. ASSUME NEW p \in Launches,
               \/ Start(p) \/ Listen(p) \/ StartFails(p) \/ Accept(p) \/ Leave(p)
               \/ DropServer(p) \/ DropLock(p) \/ Knock(p) \/ GiveUp(p)
        PROVE  ShellTypeOK'
    BY <1>1, <1>5 DEF Start, Listen, StartFails, Accept, Leave, DropServer, DropLock, Knock, GiveUp
  <1>6. CASE Tick \/ UNCHANGED ivars
    BY <1>1, <1>6 DEF Tick
  <1> QED BY <1>2, <1>3, <1>4, <1>5, <1>6 DEF InstanceNext, Run

\* A process is never longer in a place than its patience: a move starts its
\* clock anew, and no tick passes while one is out of patience.
LEMMA AgesStep == AgesTyped /\ InstanceInv /\ [InstanceNext]_ivars => AgesTyped'
  <1> SUFFICES ASSUME AgesTyped, InstanceInv, [InstanceNext]_ivars PROVE AgesTyped'
    OBVIOUS
  <1> USE InstanceAssumption DEF AgesTyped, PlacesTyped, InstanceInv
  <1>1. ASSUME NEW p \in Launches, NEW place, MoveTo(p, place) PROVE AgesTyped'
    BY <1>1
  <1>2. ASSUME NEW p \in Launches, Start(p) PROVE AgesTyped'
    BY <1>1, <1>2 DEF Start
  <1>3. ASSUME NEW p \in Launches,
               \/ Listen(p) \/ StartFails(p) \/ Leave(p)
               \/ DropLock(p) \/ Knock(p) \/ GiveUp(p) \/ Accept(p)
        PROVE  AgesTyped'
    BY <1>1, <1>3 DEF Listen, StartFails, Leave, DropLock, Knock, GiveUp, Accept
  <1>4. ASSUME NEW p \in Launches, DropServer(p) \/ Killed(p) PROVE AgesTyped'
    <2>0. /\ pc' = [Forget EXCEPT ![p] = pc'[p]] \/ pc' = [pc EXCEPT ![p] = pc'[p]]
          /\ pc'[p] \in {"unlocking", "killed"}
      BY <1>4 DEF DropServer, Killed, Forget
    <2>1. ASSUME NEW k \in Launches, k # p
          PROVE  pc'[k] = pc[k] \/ (pc'[k] = "lost" /\ pc[k] = "reached")
      BY <2>0, <2>1 DEF Forget, RequestsAwaited
    <2>2. /\ age' \in [Launches -> Nat] /\ age'[p] = 0
          /\ \A k \in Launches : k # p => age'[k] = age[k]
      <3>1. CASE DropServer(p)
        <4>1. pc[p] = "leaving" /\ age' = age
          BY <3>1 DEF DropServer
        <4>2. age[p] \in Nat /\ age[p] <= 0
          BY <4>1
        <4> QED BY <4>1, <4>2
      <3>2. CASE Killed(p)
        BY <3>2 DEF Killed
      <3> QED BY <1>4, <3>1, <3>2
    <2> QED BY <2>0, <2>1, <2>2
  <1>5. CASE Tick
    BY <1>5 DEF Tick
  <1>6. CASE UNCHANGED lvars
    BY <1>6
  <1> QED BY <1>2, <1>3, <1>4, <1>5, <1>6 DEF InstanceNext, Run, AskShell, ShellRuns

\* The invariant holds in every reachable state.
LEMMA InstanceInvariance == InstanceSpec => []InstanceInv
  BY StartsAlone, InstanceStep, PTL DEF InstanceSpec

\* Every field of every process keeps its range, its clock within its patience.
THEOREM InstanceTyped == InstanceSpec => []InstanceTypeOK
  <1>1. InstanceInit => ShellTypeOK /\ AgesTyped
    <2>1. InstanceInit => ShellTypeOK
      <3>1. \A s \in Seq(STRING \ DOMAIN Mangled) : s \in Seq(STRING)
        OBVIOUS
      <3>2. \A inherited \in InheritedPaths : inherited \in {Garbled} \cup Seq(STRING)
        BY <3>1, ShellPathAssumption
      <3> QED BY <3>2, OverTyped DEF InstanceInit, ShellInit, ShellTypeOK, Queries
    <2>2. InstanceInit => AgesTyped
      BY InstanceAssumption DEF InstanceInit, AgesTyped
    <2> QED BY <2>1, <2>2
  <1>2. InstanceInv /\ ShellTypeOK /\ AgesTyped => InstanceTypeOK
    BY TypeParts DEF InstanceInv
  <1> QED BY <1>1, <1>2, ShellStep, AgesStep, InstanceInvariance, PTL DEF InstanceSpec

\* A process between taking and dropping the lock is the only one there.
THEOREM OneInstance == InstanceSpec => []OnePrimary
  <1>1. InstanceInv => OnePrimary BY DEF InstanceInv
  <1> QED BY InstanceInvariance, <1>1, PTL

\* A request only ever reaches the one process that holds the lock.
THEOREM ReachesTheHolder == InstanceSpec => []ListenerHoldsLock
  <1>1. InstanceInv => ListenerHoldsLock BY DEF InstanceInv
  <1> QED BY InstanceInvariance, <1>1, PTL

\* A launch changes its PATH once its reader has ended, from a whole answer, while
\* it holds the lock, to one with every directory of both, the login shell's first.
THEOREM PathIsRestored == InstanceSpec => PathRestored
  <1> DEFINE Restored ==
        \A p \in Launches :
          path'[p] # path[p] =>
            LET dirs(seq) == {seq[i] : i \in DOMAIN seq} \ {""}
                old  == IF path[p] = Garbled THEN <<>> ELSE path[p]
                told == {Decode(d) : d \in dirs(query[p].login)}
            IN /\ query[p].sent /\ query[p].text = "whole" /\ holder = p
               /\ dirs(path'[p]) = dirs(old) \cup told
               /\ \A a \in dirs(path'[p]) : ~Before(path'[p], a, a)
               /\ \A a \in told, b \in dirs(old) \ told : Before(path'[p], a, b)
               /\ "" \notin {path'[p][i] : i \in DOMAIN path'[p]}
  <1>1. InstanceTypeOK /\ InstanceInv /\ [InstanceNext]_ivars => [Restored]_ivars
    <2> SUFFICES ASSUME InstanceTypeOK, InstanceInv, [InstanceNext]_ivars,
                        NEW p \in Launches, path'[p] # path[p]
                 PROVE  LET dirs(seq) == {seq[i] : i \in DOMAIN seq} \ {""}
                            old  == IF path[p] = Garbled THEN <<>> ELSE path[p]
                            told == {Decode(d) : d \in dirs(query[p].login)}
                        IN /\ query[p].sent /\ query[p].text = "whole" /\ holder = p
                           /\ dirs(path'[p]) = dirs(old) \cup told
                           /\ \A a \in dirs(path'[p]) : ~Before(path'[p], a, a)
                           /\ \A a \in told, b \in dirs(old) \ told : Before(path'[p], a, b)
                           /\ "" \notin {path'[p][i] : i \in DOMAIN path'[p]}
      OBVIOUS
    <2>0. ShellTypeOK
      BY DEF InstanceTypeOK
    <2>1. PICK q \in Launches : AskShell(q)
      <3>1. ASSUME NEW q \in Launches, ShellRuns(q) PROVE FALSE
        BY <2>0, <3>1, ShellRunsTyped DEF ShellRuns
      <3> QED BY <3>1 DEF InstanceNext, Run, Tick, Start, Listen, StartFails, Accept, Leave,
                          DropServer, DropLock, Killed, Knock, GiveUp, shvars
    <2>2. PICK due : Query(q, due) /\ pc[q] = "starting"
      BY <2>1 DEF AskShell
    <2>3. Hears(q)
      BY <2>0, <2>2, QueryTyped
    <2>4. q = p
      <3>1. PICK new : path' = [path EXCEPT ![q] = new]
        BY <2>0, <2>3, HearsPath
      <3> QED BY <2>0, <3>1 DEF ShellTypeOK
    <2> DEFINE old == IF path[p] = Garbled THEN <<>> ELSE path[p]
               login == query[p].login
               told == {Decode(d) : d \in Dirs(login)}
    <2>5. /\ query[p].sent /\ query[p].text = "whole"
          /\ old \in Seq(STRING) /\ login \in Seq(STRING)
          /\ path'[p] = MergePath(old, Decoded(login))
      BY <2>0, <2>3, <2>4, HearsPath DEF ShellTypeOK
    <2>6. holder = p
      BY <2>2, <2>4 DEF InstanceInv, OnePrimary
    <2>5a. Decoded(login) \in Seq(STRING) /\ Dirs(Decoded(login)) = told
      BY <2>5, DecodedDirs
    <2> HIDE DEF old, login, told
    <2>7. PICK new : new = path'[p]
      OBVIOUS
    <2>8. /\ new \in Seq(STRING) /\ Once(new)
          /\ ToSet(new) = Dirs(old) \cup told
          /\ \A a \in told, b \in Dirs(old) \ told : Before(new, a, b)
      BY <2>5, <2>5a, <2>7, MergeRight
    <2>9. "" \notin ToSet(new) /\ Dirs(new) = ToSet(new)
      <3>1. "" \notin Dirs(old) /\ "" \notin told
        BY <2>5a DEF Dirs
      <3> QED BY <2>8, <3>1 DEF Dirs, ToSet
    <2>10. \A a \in Dirs(new) : ~Before(new, a, a)
      BY <2>8 DEF Once, Before
    <2>11. /\ query[p].sent /\ query[p].text = "whole" /\ holder = p
           /\ Dirs(path'[p]) = Dirs(old) \cup told
           /\ \A a \in Dirs(path'[p]) : ~Before(path'[p], a, a)
           /\ \A a \in told, b \in Dirs(old) \ told : Before(path'[p], a, b)
           /\ "" \notin ToSet(path'[p])
      BY <2>5, <2>6, <2>7, <2>8, <2>9, <2>10
    <2> QED BY <2>11 DEF Dirs, ToSet, old, login, told
  <1> QED BY <1>1, InstanceTyped, InstanceInvariance, PTL DEF InstanceSpec, PathRestored

=============================================================================
