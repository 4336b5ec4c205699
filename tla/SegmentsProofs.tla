-------------------------- MODULE SegmentsProofs --------------------------
(* Types and safety of Segments for any number of recordings: while no rename *)
(* fails and nothing is re-encoded, footage is lost only after a crash, and    *)
(* then only with scratch that was left behind or a file that is replaced in   *)
(* corrupt/; and while every merge of a session succeeds no file is left       *)
(* marked in flight.                                                          *)
EXTENDS Segments, FiniteSetTheorems, TLAPS

-----------------------------------------------------------------------------
(* Sorting the segments.                                                      *)

\* A strict total order on a finite set numbers its elements.
LEMMA Ranked ==
  ASSUME NEW S, IsFiniteSet(S), NEW R,
         \A x \in S : <<x, x>> \notin R,
         \A x, y \in S : x # y => <<x, y>> \in R \/ <<y, x>> \in R,
         \A x, y, z \in S : <<x, y>> \in R /\ <<y, z>> \in R => <<x, z>> \in R
  PROVE  \E h \in [1..Cardinality(S) -> S] :
            /\ \A x \in S : \E i \in 1..Cardinality(S) : h[i] = x
            /\ \A i, j \in 1..Cardinality(S) : i < j => <<h[i], h[j]>> \in R
<1> DEFINE below(x) == {y \in S : y = x \/ <<y, x>> \in R}
           n == Cardinality(S)
           rank == [x \in S |-> Cardinality(below(x))]
<1>1. n \in Nat
  BY FS_CardinalityType
<1>2. ASSUME NEW x \in S PROVE IsFiniteSet(below(x)) /\ rank[x] \in 1..n
  <2>1. below(x) \in SUBSET S /\ x \in below(x)
    OBVIOUS
  <2> HIDE DEF below
  <2>2. IsFiniteSet(below(x)) /\ Cardinality(below(x)) \in Nat /\ Cardinality(below(x)) <= n
    BY <2>1, FS_Subset, FS_CardinalityType
  <2>3. Cardinality(below(x)) # 0
    BY <2>1, <2>2, FS_EmptySet
  <2> QED BY <1>1, <2>2, <2>3
<1>3. ASSUME NEW x \in S, NEW y \in S, <<x, y>> \in R PROVE rank[x] < rank[y]
  <2>1. below(x) \in SUBSET below(y) /\ y \in below(y) /\ y \notin below(x)
    BY <1>3
  <2>2. IsFiniteSet(below(y)) /\ rank[x] \in Nat /\ rank[y] \in Nat
    BY <1>1, <1>2
  <2> HIDE DEF below
  <2>3. Cardinality(below(x)) <= Cardinality(below(y))
        /\ Cardinality(below(x)) # Cardinality(below(y))
    BY <2>1, <2>2, FS_Subset
  <2> QED BY <2>2, <2>3
<1>4. \A x, y \in S : rank[x] = rank[y] => x = y
  <2> SUFFICES ASSUME NEW x \in S, NEW y \in S, rank[x] = rank[y], x # y PROVE FALSE
    OBVIOUS
  <2>1. rank[x] \in Int /\ rank[y] \in Int
    BY <1>1, <1>2
  <2>2. <<x, y>> \in R \/ <<y, x>> \in R
    OBVIOUS
  <2> HIDE DEF rank
  <2> QED BY <1>3, <2>1, <2>2
<1>5. ASSUME NEW i \in 1..n PROVE \E x \in S : rank[x] = i
  <2> SUFFICES ASSUME \A x \in S : rank[x] # i PROVE FALSE
    OBVIOUS
  <2>1. IsFiniteSet(1..n) /\ Cardinality(1..n) = n
    BY <1>1, FS_Interval
  <2>2. IsFiniteSet((1..n) \ {i}) /\ Cardinality((1..n) \ {i}) = n - 1
    BY <2>1, FS_RemoveElement
  <2>3. \A x \in S : rank[x] \in (1..n) \ {i}
    BY <1>2
  <2>4. rank \in [S -> (1..n) \ {i}]
    BY <2>3
  <2>5. Cardinality((1..n) \ {i}) < Cardinality(S)
    BY <1>1, <2>2
  <2> HIDE DEF rank
  <2> QED BY <1>4, <2>2, <2>4, <2>5, FS_PigeonHole
<1> DEFINE h == [i \in 1..n |-> CHOOSE x \in S : rank[x] = i]
<1>6. ASSUME NEW i \in 1..n PROVE h[i] \in S /\ rank[h[i]] = i
  <2> HIDE DEF rank
  <2> QED BY <1>5
<1>7. h \in [1..n -> S]
  BY <1>6
<1> HIDE DEF h
<1>8. ASSUME NEW x \in S PROVE \E i \in 1..n : h[i] = x
  <2>1. rank[x] \in 1..n
    BY <1>2
  <2>2. h[rank[x]] \in S /\ rank[h[rank[x]]] = rank[x]
    BY <1>6, <2>1
  <2> HIDE DEF rank
  <2> QED BY <1>4, <2>1, <2>2
<1>9. ASSUME NEW i \in 1..n, NEW j \in 1..n, i < j PROVE <<h[i], h[j]>> \in R
  <2>1. /\ h[i] \in S /\ rank[h[i]] = i
        /\ h[j] \in S /\ rank[h[j]] = j
    BY <1>6
  <2>2. h[i] # h[j]
    <3> HIDE DEF rank
    <3> QED BY <1>1, <1>9, <2>1
  <2>3. <<h[j], h[i]>> \in R => rank[h[j]] < rank[h[i]]
    BY <1>3, <2>1
  <2>4. ~(j < i)
    BY <1>1, <1>9
  <2> HIDE DEF rank
  <2> QED BY <2>1, <2>2, <2>3, <2>4
<1> QED BY <1>7, <1>8, <1>9

\* Files that can be ordered: segments with a number, of which no two have the
\* same kind and base.
Sortable(fs) ==
  /\ IsFiniteSet(fs)
  /\ \A f \in fs : f.kind \in {"pending", "merged"} /\ f.base \in Int
  /\ \A f, g \in fs : f.kind = g.kind /\ f.base = g.base => f = g

\* The order of the segments is a strict total order on sortable files.
LEMMA BeforeIsOrder ==
  ASSUME NEW fs, Sortable(fs)
  PROVE  /\ \A x \in fs : ~Before(x, x)
         /\ \A x, y \in fs : x # y => Before(x, y) \/ Before(y, x)
         /\ \A x, y, z \in fs : Before(x, y) /\ Before(y, z) => Before(x, z)
BY SegmentsAssumption DEF Before, Sortable

\* The sorted segments are the segments, and one of them is the first.
LEMMA SortedSegments ==
  ASSUME NEW fs, Sortable(fs)
  PROVE  /\ InOrder(fs) \in Seq(fs)
         /\ Range(InOrder(fs)) = fs
         /\ fs # {} => \E f \in fs : \A g \in fs \ {f} : Before(f, g)
<1> DEFINE R == {e \in fs \X fs : Before(e[1], e[2])}
           n == Cardinality(fs)
           s == InOrder(fs)
<1>1. \A x, y \in fs : <<x, y>> \in R <=> Before(x, y)
  OBVIOUS
<1> HIDE DEF R
<1>2. \A x \in fs : <<x, x>> \notin R
  BY <1>1, BeforeIsOrder
<1>3. \A x, y \in fs : x # y => <<x, y>> \in R \/ <<y, x>> \in R
  BY <1>1, BeforeIsOrder
<1>4. \A x, y, z \in fs : <<x, y>> \in R /\ <<y, z>> \in R => <<x, z>> \in R
  BY <1>1, BeforeIsOrder
<1>5. IsFiniteSet(fs) /\ n \in Nat
  BY FS_CardinalityType DEF Sortable
<1>6. PICK h \in [1..n -> fs] :
          /\ \A x \in fs : \E i \in 1..n : h[i] = x
          /\ \A i, j \in 1..n : i < j => <<h[i], h[j]>> \in R
  BY <1>2, <1>3, <1>4, <1>5, Ranked
<1>7. \E t \in [1..n -> fs] : \A i, j \in 1..n : i < j => Before(t[i], t[j])
  BY <1>1, <1>6
<1>8. s \in [1..n -> fs] /\ \A i, j \in 1..n : i < j => Before(s[i], s[j])
  BY <1>7 DEF InOrder
<1> HIDE DEF s
<1>9. \A i, j \in 1..n : i # j => s[i] # s[j]
  <2> SUFFICES ASSUME NEW i \in 1..n, NEW j \in 1..n, i < j PROVE s[i] # s[j]
    BY <1>5
  <2>1. Before(s[i], s[j]) /\ s[i] \in fs /\ s[j] \in fs
    BY <1>8
  <2> QED BY <2>1, BeforeIsOrder
<1>10. ASSUME NEW x \in fs PROVE \E i \in 1..n : s[i] = x
  <2> SUFFICES ASSUME \A i \in 1..n : s[i] # x PROVE FALSE
    OBVIOUS
  <2> DEFINE I == 1..n
             T == fs \ {x}
  <2>1. IsFiniteSet(I) /\ Cardinality(I) = n
    BY <1>5, FS_Interval
  <2>2. IsFiniteSet(T) /\ Cardinality(T) = n - 1
    BY <1>5, FS_RemoveElement
  <2>3. s \in [I -> T]
    BY <1>8
  <2>4. Cardinality(T) < Cardinality(I)
    BY <1>5, <2>1, <2>2
  <2>5. \A i, j \in I : i # j => s[i] # s[j]
    BY <1>9
  <2> HIDE DEF I, T, n
  <2>6. \E i, j \in I : i # j /\ s[i] = s[j]
    BY <2>1, <2>2, <2>3, <2>4, FS_PigeonHole
  <2> QED BY <2>5, <2>6
<1>11. s \in Seq(fs) /\ Range(s) = fs
  <2> HIDE DEF n
  <2>1. s \in Seq(fs)
    BY <1>5, <1>8
  <2>2. Range(s) = fs
    BY <1>8, <1>10 DEF Range
  <2> QED BY <2>1, <2>2
<1>12. ASSUME fs # {} PROVE \E f \in fs : \A g \in fs \ {f} : Before(f, g)
  <2>1. \E x : x \in fs
    BY <1>12
  <2>2. 1 \in 1..n
    BY <1>5, <1>6, <2>1
  <2>3. \A g \in fs \ {h[1]} : <<h[1], g>> \in R
    <3> SUFFICES ASSUME NEW g \in fs, g # h[1] PROVE <<h[1], g>> \in R
      OBVIOUS
    <3>1. PICK j \in 1..n : h[j] = g
      BY <1>6
    <3>2. 1 < j
      BY <1>5, <3>1
    <3> QED BY <1>6, <2>2, <3>1, <3>2
  <2> QED BY <1>1, <1>6, <2>2, <2>3
<1> QED BY <1>11, <1>12 DEF s

-----------------------------------------------------------------------------
(* Types.                                                                     *)

PCs == {"idle", "queued", "ready", "encode", "publish", "session", "flush", "regroup", "deliver",
        "mindur", "egress", "compress", "orphan", "upload", "done"}
MaybeName == Names \cup {NoFile}
\* The names a held file may have: not those of a session merge's scratch.
HeldNames == {f \in Names : f.base % 3 # 0}
Job == [del : Seq(Names), tmp : MaybeName, dst : MaybeName,
        then : {"done", "session", "regroup", "deliver", "egress", "orphan"}]
Goroutine == [pc : PCs, file : MaybeName, lock : {"none", "session", "merge"},
              held : SUBSET Recs, job : Job]

\* What a goroutine names while it works is a file, and until its recording is
\* merged or parked it is the recording.
Named(p, u) ==
  /\ u.pc \in PCs \ {"idle", "queued", "ready", "publish", "done"} => u.file \in Names
  /\ u.pc = "publish" => u.job.tmp \in Names /\ u.job.dst \in Names
  /\ u.pc = "publish" /\ u.job.then = "session" => u.job.dst = Raw(p) /\ u.job.tmp.kind = "finalizing"
  /\ u.pc \in {"encode", "session", "flush", "mindur"} => u.file = Raw(p)
  /\ u.pc = "publish" /\ u.job.then = "regroup" =>
        u.job.dst \in HeldNames /\ u.job.tmp.kind = "sessiontmp"
  /\ u.pc = "regroup" => u.file \in HeldNames

DiskTyped(d, cl) ==
  /\ IsFiniteSet(DOMAIN d) /\ DOMAIN d \subseteq Names
  /\ \A f \in DOMAIN d : d[f] \in (SUBSET (1..cl)) \ {{}}
ProcTyped(pr) == pr \in [Procs -> Goroutine] /\ \A p \in Procs : Named(p, pr[p])
RestTyped ==
  /\ group \in [file : HeldNames \cup {NoFile}, cont : BOOLEAN] /\ inflight \subseteq Names
  /\ sent \subseteq SUBSET Recs /\ discarded \subseteq Recs
SourceTyped ==
  /\ closed \in 0..N /\ reason \in [Recs -> Reasons] /\ batch \in [Recs -> 0..N]
  /\ len \in [Recs -> (UNION Range(Lengths)) \cup {0}]
TypeInv ==
  /\ SourceTyped /\ crashes \in 0..MaxCrashes
  /\ DiskTyped(disk, closed)
  /\ ProcTyped(proc)
  /\ RestTyped

\* A name is given by its kind, base and run.
LEMMA NameIs ==
  ASSUME NEW f \in Names
  PROVE  /\ f = File(f.kind, f.base, f.run)
         /\ f.base \in 1..3*N
         /\ \/ /\ f.kind \in {"dir", "finalizing", "sessiontmp", "pending", "merged", "corrupt"}
               /\ f.run = 0
            \/ f.kind = "corrupt" /\ f.run = 1
            \/ f.kind = "merging" /\ f.run \in 1..MaxCrashes + 1
BY DEF Names, File

LEMMA IsName ==
  /\ \A k \in {"dir", "finalizing", "sessiontmp", "pending", "merged", "corrupt"}, b \in 1..3*N :
         File(k, b, 0) \in Names
  /\ \A b \in 1..3*N : File("corrupt", b, 1) \in Names
  /\ \A b \in 1..3*N, c \in 1..MaxCrashes + 1 : File("merging", b, c) \in Names
BY DEF Names

LEMMA FileIs ==
  ASSUME NEW k, NEW b, NEW c
  PROVE  /\ File(k, b, c).kind = k /\ File(k, b, c).base = b /\ File(k, b, c).run = c
         /\ \A k1, b1, c1 : File(k, b, c) = File(k1, b1, c1) <=> k = k1 /\ b = b1 /\ c = c1
BY DEF File

\* What is no file has no file's name.
LEMMA NoFileIs == NoFile \notin Names
BY NameIs, FileIs DEF NoFile

\* The constants in the form the provers need.
LEMMA SizesTyped ==
  /\ N \in Nat \ {0} /\ MaxCrashes \in Nat /\ Recs = 1..N /\ Procs = Recs \cup {Scan}
  /\ Scan \notin Recs /\ Scan \in Procs
BY SegmentsAssumption DEF Recs, Procs, Scan

\* The names the steps make of a name are names too.
LEMMA DerivedNames ==
  /\ \A r \in Recs : Raw(r) \in HeldNames /\ File("finalizing", 3 * r - 2, 0) \in Names
  /\ \A f \in Names : Parked(f) \in Names /\ Corrupt(f) \in Names
                      /\ File("merged", f.base, 0) \in Names
  /\ \A f \in HeldNames : f \in Names /\ Joined(f) \in HeldNames
                          /\ File("sessiontmp", Joined(f).base + 1, 0) \in Names
<1>1. \A r \in Recs : 3 * r - 2 \in 1..3*N /\ (3 * r - 2) % 3 # 0
  BY SizesTyped
<1>2. \A r \in Recs : Raw(r) \in HeldNames /\ File("finalizing", 3 * r - 2, 0) \in Names
  <2>1. \A r \in Recs : Raw(r) \in Names /\ Raw(r).base = 3 * r - 2
    BY <1>1, IsName, FileIs DEF Raw
  <2> QED BY <1>1, <2>1, IsName DEF HeldNames
<1>3. ASSUME NEW f \in Names
      PROVE  Parked(f) \in Names /\ Corrupt(f) \in Names /\ File("merged", f.base, 0) \in Names
  BY NameIs, IsName DEF Parked, Corrupt
<1>4. ASSUME NEW f \in HeldNames
      PROVE  /\ f \in Names /\ Joined(f) \in HeldNames
             /\ File("sessiontmp", Joined(f).base + 1, 0) \in Names
  <2> DEFINE b == IF f.base % 3 = 1 THEN f.base + 1 ELSE f.base
  <2>1. f \in Names /\ f.base \in 1..3*N /\ f.base % 3 # 0
    BY NameIs DEF HeldNames
  <2>2. b \in 1..3*N /\ b % 3 # 0 /\ b + 1 \in 1..3*N
    BY <2>1, SizesTyped
  <2>3. Joined(f) = File("dir", b, 0) /\ Joined(f).base = b
    BY FileIs DEF Joined
  <2> HIDE DEF b
  <2>4. Joined(f) \in Names /\ File("sessiontmp", Joined(f).base + 1, 0) \in Names
    BY <2>2, <2>3, IsName
  <2> QED BY <2>1, <2>2, <2>3, <2>4 DEF HeldNames
<1> QED BY <1>2, <1>3, <1>4

\* The disk after each way of changing it.
LEMMA WithoutTyped ==
  ASSUME NEW d, NEW cl, DiskTyped(d, cl), NEW fs
  PROVE  /\ DiskTyped(Without(d, fs), cl)
         /\ DOMAIN Without(d, fs) = DOMAIN d \ fs
         /\ \A f \in DOMAIN d \ fs : Without(d, fs)[f] = d[f]
<1>1. DOMAIN Without(d, fs) = DOMAIN d \ fs /\ \A f \in DOMAIN d \ fs : Without(d, fs)[f] = d[f]
  BY DEF Without, Restrict
<1>2. IsFiniteSet(DOMAIN d \ fs)
  BY FS_Difference DEF DiskTyped
<1> QED BY <1>1, <1>2 DEF DiskTyped

\* Writing a file keeps the directory typed, and all the rest of it.
LEMMA PutTyped ==
  ASSUME NEW d, NEW cl, DiskTyped(d, cl), NEW f \in Names, NEW c \in SUBSET (1..cl), c # {}
  PROVE  /\ DiskTyped(Put(d, f, c), cl)
         /\ DOMAIN Put(d, f, c) = DOMAIN d \cup {f}
         /\ Put(d, f, c)[f] = c
         /\ \A g \in DOMAIN d \ {f} : Put(d, f, c)[g] = d[g]
<1>1. /\ DOMAIN Put(d, f, c) = DOMAIN d \cup {f}
      /\ Put(d, f, c)[f] = c
      /\ \A g \in DOMAIN d \ {f} : Put(d, f, c)[g] = d[g]
  BY DEF Put
<1>2. IsFiniteSet(DOMAIN d \cup {f})
  BY FS_AddElement DEF DiskTyped
<1> QED BY <1>1, <1>2 DEF DiskTyped

\* So does renaming one, which may replace another.
LEMMA RenameTyped ==
  ASSUME NEW d, NEW cl, DiskTyped(d, cl), NEW f, NEW g \in Names
  PROVE  /\ DiskTyped(Rename(d, f, g), cl)
         /\ f \in DOMAIN d => /\ DOMAIN Rename(d, f, g) = (DOMAIN d \ {f}) \cup {g}
                              /\ Rename(d, f, g)[g] = d[f]
                              /\ \A h \in DOMAIN d \ {f, g} : Rename(d, f, g)[h] = d[h]
         /\ f \notin DOMAIN d => Rename(d, f, g) = d
<1>1. CASE f \notin DOMAIN d
  BY <1>1 DEF Rename
<1>2. CASE f \in DOMAIN d
  <2> DEFINE w == Without(d, {f})
  <2>1. Rename(d, f, g) = Put(w, g, d[f])
    BY <1>2 DEF Rename
  <2>2. /\ DiskTyped(w, cl)
        /\ DOMAIN w = DOMAIN d \ {f}
        /\ \A h \in DOMAIN d \ {f} : w[h] = d[h]
    BY WithoutTyped
  <2>3. d[f] \in SUBSET (1..cl) /\ d[f] # {}
    BY <1>2 DEF DiskTyped
  <2> HIDE DEF w
  <2>4. /\ DiskTyped(Put(w, g, d[f]), cl)
        /\ DOMAIN Put(w, g, d[f]) = DOMAIN w \cup {g}
        /\ Put(w, g, d[f])[g] = d[f]
        /\ \A h \in DOMAIN w \ {g} : Put(w, g, d[f])[h] = w[h]
    BY <2>2, <2>3, PutTyped
  <2> QED BY <1>2, <2>1, <2>2, <2>4
<1> QED BY <1>1, <1>2

\* At most one segment goes to corrupt/ at a time.
LEMMA QuarantinedIs ==
  ASSUME NEW d, NEW f
  PROVE  LET c == Corrupt(f) IN
         /\ DOMAIN Quarantined(d, {f}) = (DOMAIN d \ {f}) \cup {c}
         /\ \A g \in DOMAIN d \ {f, c} : Quarantined(d, {f})[g] = d[g]
         /\ Quarantined(d, {f})[c] = d[f]
<1> DEFINE c == Corrupt(f)
           q == Quarantined(d, {f})
<1>1. {Corrupt(g) : g \in {f}} = {c}
  OBVIOUS
<1>2. (CHOOSE g \in {f} : Corrupt(g) = c) = f
  OBVIOUS
<1>3. q = [h \in (DOMAIN d \ {f}) \cup {c} |->
              IF h \in {c} THEN d[CHOOSE g \in {f} : Corrupt(g) = h] ELSE d[h]]
  BY <1>1 DEF Quarantined
<1> HIDE DEF c, q
<1> QED BY <1>2, <1>3 DEF c, q

LEMMA QuarantinedTyped ==
  ASSUME NEW d, NEW cl, DiskTyped(d, cl), NEW bad, bad \subseteq DOMAIN d,
         bad = {} \/ \E f : bad = {f}
  PROVE  /\ DiskTyped(Quarantined(d, bad), cl)
         /\ bad = {} => /\ DOMAIN Quarantined(d, bad) = DOMAIN d
                        /\ \A f \in DOMAIN d : Quarantined(d, bad)[f] = d[f]
         /\ \A f : bad = {f} =>
               LET c == Corrupt(f) IN
               /\ DOMAIN Quarantined(d, bad) = (DOMAIN d \ {f}) \cup {c}
               /\ \A g \in DOMAIN d \ {f, c} : Quarantined(d, bad)[g] = d[g]
               /\ Quarantined(d, bad)[c] = d[f]
<1>1. CASE bad = {}
  <2>1. /\ DOMAIN Quarantined(d, bad) = DOMAIN d
        /\ \A f \in DOMAIN d : Quarantined(d, bad)[f] = d[f]
    BY <1>1 DEF Quarantined
  <2>2. \A f : bad # {f}
    BY <1>1
  <2> QED BY <1>1, <2>1, <2>2 DEF DiskTyped
<1>2. ASSUME NEW f, bad = {f}
      PROVE  LET c == Corrupt(f) IN
             /\ DiskTyped(Quarantined(d, bad), cl)
             /\ DOMAIN Quarantined(d, bad) = (DOMAIN d \ {f}) \cup {c}
             /\ \A g \in DOMAIN d \ {f, c} : Quarantined(d, bad)[g] = d[g]
             /\ Quarantined(d, bad)[c] = d[f]
  <2> DEFINE c == Corrupt(f)
             q == Quarantined(d, bad)
  <2>1. f \in DOMAIN d /\ f \in Names /\ c \in Names
    BY <1>2, DerivedNames DEF DiskTyped
  <2>2. /\ DOMAIN q = (DOMAIN d \ {f}) \cup {c}
        /\ \A g \in DOMAIN d \ {f, c} : q[g] = d[g]
        /\ q[c] = d[f]
    <3>1. q = Quarantined(d, {f})
      BY <1>2
    <3>2. /\ DOMAIN Quarantined(d, {f}) = (DOMAIN d \ {f}) \cup {c}
          /\ \A g \in DOMAIN d \ {f, c} : Quarantined(d, {f})[g] = d[g]
          /\ Quarantined(d, {f})[c] = d[f]
      BY QuarantinedIs
    <3> HIDE DEF q, c
    <3> QED BY <3>1, <3>2
  <2> HIDE DEF c, q
  <2>3. IsFiniteSet(DOMAIN q)
    <3>1. IsFiniteSet(DOMAIN d \ {f})
      BY FS_RemoveElement DEF DiskTyped
    <3> QED BY <2>2, <3>1, FS_AddElement
  <2>4. DiskTyped(q, cl)
    BY <2>1, <2>2, <2>3 DEF DiskTyped
  <2> QED BY <2>2, <2>4 DEF c, q
<1> QED BY <1>1, <1>2

\* One goroutine takes a typed state.
LEMMA StepTyped ==
  ASSUME TypeInv, NEW p \in Procs, NEW u \in Goroutine, Named(p, u)
  PROVE  ProcTyped([proc EXCEPT ![p] = u])
BY DEF TypeInv, ProcTyped

\* The fields of a goroutine's state.
LEMMA AtIs ==
  ASSUME NEW pc, NEW f, NEW lock, NEW job
  PROVE  /\ At(pc, f, lock, job).pc = pc /\ At(pc, f, lock, job).file = f
         /\ At(pc, f, lock, job).lock = lock /\ At(pc, f, lock, job).held = {}
         /\ At(pc, f, lock, job).job = job
BY DEF At

LEMMA AtTyped ==
  /\ \A pc \in PCs, f \in MaybeName, lock \in {"none", "session", "merge"}, job \in Job :
         At(pc, f, lock, job) \in Goroutine
  /\ NoJob \in Job
BY DEF At, Goroutine, NoJob, Job, MaybeName

\* A goroutine that names no file.
LEMMA RestingTyped ==
  ASSUME TypeInv, NEW p \in Procs, NEW pc \in {"idle", "queued", "ready", "done"}
  PROVE  ProcTyped([proc EXCEPT ![p] = At(pc, NoFile, "none", NoJob)])
<1>1. At(pc, NoFile, "none", NoJob) \in Goroutine
  BY AtTyped DEF MaybeName, PCs
<1>2. Named(p, At(pc, NoFile, "none", NoJob))
  BY AtIs DEF Named
<1> QED BY <1>1, <1>2, StepTyped

LEMMA FinishTyped ==
  ASSUME TypeInv, NEW p \in Procs, Finish(p)
  PROVE  ProcTyped(proc')
<1>1. proc' = [proc EXCEPT ![p] = At("done", NoFile, "none", NoJob)]
  BY DEF Finish, Goto, Step
<1> QED BY <1>1, RestingTyped

\* A goroutine goes on with a file.
LEMMA GotoTyped ==
  ASSUME TypeInv, NEW p \in Procs, NEW f \in Names,
         NEW pc \in {"encode", "session", "flush", "mindur", "egress", "orphan"},
         pc \in {"encode", "session", "flush", "mindur"} => f = Raw(p),
         NEW lock \in {"none", "session", "merge"}, Goto(p, pc, f, lock)
  PROVE  ProcTyped(proc')
<1>1. At(pc, f, lock, NoJob) \in Goroutine
  BY AtTyped DEF MaybeName, PCs
<1>2. Named(p, At(pc, f, lock, NoJob))
  BY AtIs DEF Named
<1> QED BY <1>1, <1>2, StepTyped DEF Goto, Step

\* What typing says of one goroutine.
LEMMA ProcIs ==
  ASSUME TypeInv, NEW p \in Procs
  PROVE  proc[p] \in Goroutine /\ Named(p, proc[p])
BY DEF TypeInv, ProcTyped

\* Footage on disk is footage recorded.
LEMMA ContentIs ==
  ASSUME TypeInv, NEW f \in DOMAIN disk
  PROVE  f \in Names /\ disk[f] \in SUBSET (1..closed) /\ disk[f] # {} /\ disk[f] \in SUBSET Recs
<1>1. f \in Names /\ disk[f] \in SUBSET (1..closed) /\ disk[f] # {}
  BY DEF TypeInv, DiskTyped
<1>2. 1..closed \subseteq Recs
  BY SizesTyped DEF TypeInv, SourceTyped
<1> QED BY <1>1, <1>2

\* A step that leaves the recordings alone has the rest to show.
LEMMA FrameTyped ==
  ASSUME TypeInv, UNCHANGED source, UNCHANGED crashes,
         DiskTyped(disk', closed), ProcTyped(proc'), RestTyped'
  PROVE  TypeInv'
<1>1. SourceTyped'
  BY DEF TypeInv, SourceTyped, source
<1>2. DiskTyped(disk', closed') /\ crashes' \in 0..MaxCrashes
  BY DEF TypeInv, source
<1> QED BY <1>1, <1>2 DEF TypeInv, source

LEMMA DeliverTyped ==
  ASSUME TypeInv, NEW f, Deliver(f)
  PROVE  DiskTyped(disk', closed) /\ sent' \subseteq SUBSET Recs /\ discarded' \subseteq Recs
<1>1. DiskTyped(disk', closed)
  BY WithoutTyped DEF TypeInv, Deliver
<1>2. sent \subseteq SUBSET Recs /\ discarded \subseteq Recs
  BY DEF TypeInv, RestTyped
<1>3. f \in DOMAIN disk => disk[f] \in SUBSET Recs
  BY ContentIs
<1>4. sent' \subseteq SUBSET Recs /\ discarded' \subseteq Recs
  BY <1>2, <1>3 DEF Deliver, Exists
<1> QED BY <1>1, <1>4

\* The segments of a typed directory can be sorted.
LEMMA SegmentsSortable ==
  ASSUME NEW d, NEW cl, DiskTyped(d, cl)
  PROVE  Sortable(Segments(d)) /\ Segments(d) \subseteq Names /\ Segments(d) \subseteq DOMAIN d
<1>1. Segments(d) \subseteq DOMAIN d /\ \A f \in Segments(d) : f.kind \in {"pending", "merged"}
  BY DEF Segments
<1>2. IsFiniteSet(Segments(d)) /\ Segments(d) \subseteq Names
  BY <1>1, FS_Subset DEF DiskTyped
<1>3. \A f \in Segments(d) : f = File(f.kind, f.base, f.run) /\ f.base \in Int /\ f.run = 0
  BY <1>1, <1>2, NameIs, SizesTyped
<1> QED BY <1>1, <1>2, <1>3 DEF Sortable

\* The order and the name of a merge of segments.
LEMMA MergeNames ==
  ASSUME NEW d, NEW cl, DiskTyped(d, cl)
  PROVE  /\ InOrder(Segments(d)) \in Seq(Names)
         /\ Range(InOrder(Segments(d))) = Segments(d)
         /\ Segments(d) # {} => \E f \in Segments(d) : MergedName(Segments(d)) = File("merged", f.base, 0)
<1> DEFINE fs == Segments(d)
<1>1. Sortable(fs) /\ fs \subseteq Names
  BY SegmentsSortable
<1> HIDE DEF fs
<1>2. /\ InOrder(fs) \in Seq(fs)
      /\ Range(InOrder(fs)) = fs
      /\ fs # {} => \E f \in fs : \A g \in fs \ {f} : Before(f, g)
  BY <1>1, SortedSegments
<1>3. InOrder(fs) \in Seq(Names)
  BY <1>1, <1>2
<1>4. ASSUME fs # {} PROVE \E f \in fs : MergedName(fs) = File("merged", f.base, 0)
  <2> DEFINE first == CHOOSE f \in fs : \A g \in fs \ {f} : Before(f, g)
  <2>1. first \in fs
    BY <1>2, <1>4
  <2>2. MergedName(fs) = File("merged", first.base, 0)
    BY DEF MergedName
  <2> QED BY <2>1, <2>2
<1> QED BY <1>2, <1>3, <1>4 DEF fs

\* A merge's scratch and its output are typed.
LEMMA MergeVideosTyped ==
  ASSUME TypeInv, NEW p \in Procs, NEW d, DiskTyped(d, closed), Segments(d) # {},
         NEW more \in SUBSET DOMAIN d, NEW del \in Seq(Names),
         NEW then \in {"done", "egress", "orphan"}, MergeVideos(p, d, more, del, then)
  PROVE  DiskTyped(disk', closed) /\ ProcTyped(proc')
<1> DEFINE segs == Segments(d)
           all == UNION {d[f] : f \in segs \cup more}
           s == Scratch(segs)
           m == MergedName(segs)
           j == [del |-> del, tmp |-> s, dst |-> m, then |-> then]
           u == At("publish", NoFile, "merge", j)
<1>1. disk' = Put(d, s, all) /\ proc' = [proc EXCEPT ![p] = u]
  BY DEF MergeVideos, Step
<1>2. segs \subseteq DOMAIN d /\ segs # {}
  BY SegmentsSortable
<1>3. PICK f \in segs : m = File("merged", f.base, 0)
  BY MergeNames
<1>4. f \in Names /\ f.base \in 1..3*N
  BY <1>2, NameIs DEF DiskTyped
<1>5. m \in Names /\ m.base = f.base
  BY <1>3, <1>4, FileIs, IsName
<1>6. crashes + 1 \in 1..MaxCrashes + 1
  BY SizesTyped DEF TypeInv
<1>7. s \in Names
  BY <1>4, <1>5, <1>6, IsName DEF Scratch
<1>8. all \in SUBSET (1..closed) /\ all # {}
  <2>1. \A g \in segs \cup more : d[g] \in (SUBSET (1..closed)) \ {{}}
    BY <1>2 DEF DiskTyped
  <2> QED BY <1>2, <2>1
<1> HIDE DEF all, s, m, segs
<1>9. DiskTyped(disk', closed)
  BY <1>1, <1>7, <1>8, PutTyped
<1>10. j \in Job /\ j.then = then /\ j.tmp = s /\ j.dst = m
  BY <1>5, <1>7 DEF Job, MaybeName
<1> HIDE DEF j
<1>11. u \in Goroutine
  BY <1>10, AtTyped DEF MaybeName, PCs
<1>12. Named(p, u)
  BY <1>5, <1>7, <1>10, AtIs DEF Named
<1> HIDE DEF u
<1>13. ProcTyped(proc')
  BY <1>1, <1>11, <1>12, StepTyped
<1> QED BY <1>9, <1>13

-----------------------------------------------------------------------------
(* Types of each step.                                                        *)

LEMMA InitTyped == Init => TypeInv
<1> SUFFICES ASSUME Init PROVE TypeInv
  OBVIOUS
<1>1. /\ closed = 0 /\ crashes = 0 /\ reason = [r \in Recs |-> "cont"] /\ len = [r \in Recs |-> 0]
      /\ batch = [r \in Recs |-> 0] /\ disk = [f \in {} |-> {}]
  BY DEF Init
<1>2. SourceTyped /\ crashes \in 0..MaxCrashes
  BY <1>1, SizesTyped DEF SourceTyped, Reasons
<1>3. DiskTyped(disk, closed)
  BY <1>1, FS_EmptySet DEF DiskTyped
<1>4. Idle \in Goroutine /\ \A p \in Procs : Named(p, Idle)
  BY AtTyped, AtIs DEF Idle, MaybeName, PCs, Named
<1>5. ProcTyped(proc)
  BY <1>4 DEF Init, ProcTyped
<1>6. RestTyped
  BY DEF Init, RestTyped, NoGroup, MaybeName
<1> QED BY <1>2, <1>3, <1>5, <1>6 DEF TypeInv

LEMMA CloseFileTyped ==
  ASSUME TypeInv, NEW why \in Reasons, NEW d, closed < N => d \in Lengths[closed + 1], CloseFile(why, d)
  PROVE  TypeInv'
<1> DEFINE r == closed + 1
<1>1. r \in Recs /\ closed' = r /\ reason' = [reason EXCEPT ![r] = why] /\ len' = [len EXCEPT ![r] = d]
      /\ disk' = Put(disk, Raw(r), {r}) /\ Step(r, At("queued", NoFile, "none", NoJob))
      /\ UNCHANGED <<batch, group, inflight, sent, discarded, crashes>>
  BY DEF CloseFile, settings, Goto
<1>2. closed \in 0..N /\ closed < N
  BY <1>1, SizesTyped DEF TypeInv, SourceTyped
<1>3. d \in UNION Range(Lengths)
  <2>1. Lengths[r] \in Range(Lengths) /\ d \in Lengths[r]
    BY <1>1, <1>2, SegmentsAssumption DEF Range, Recs
  <2> QED BY <2>1
<1>4. reason' \in [Recs -> Reasons] /\ len' \in [Recs -> (UNION Range(Lengths)) \cup {0}]
  BY <1>1, <1>3 DEF TypeInv, SourceTyped
<1>5. SourceTyped'
  <2>1. r \in 0..N
    BY <1>1, SizesTyped
  <2> QED BY <1>1, <1>4, <2>1 DEF TypeInv, SourceTyped
<1>6. DiskTyped(disk, r)
  BY <1>2, SizesTyped DEF TypeInv, DiskTyped
<1>7. {r} \in SUBSET (1..r) /\ {r} # {} /\ Raw(r) \in Names
  BY <1>1, SizesTyped, DerivedNames
<1> HIDE DEF r
<1>8. DiskTyped(disk', closed')
  BY <1>1, <1>6, <1>7, PutTyped
<1>9. ProcTyped(proc')
  BY <1>1, SizesTyped, RestingTyped DEF Step
<1> QED BY <1>1, <1>5, <1>8, <1>9 DEF TypeInv, RestTyped

\* A finite set of numbers that is not empty has a greatest.
LEMMA MaxIs ==
  ASSUME NEW S \in SUBSET Recs, S # {}
  PROVE  Max(S) \in S
<1> DEFINE R == {e \in S \X S : e[1] < e[2]}
<1>1. IsFiniteSet(S) /\ S \subseteq Int
  <2>1. IsFiniteSet(Recs) /\ Recs \subseteq Int
    BY SizesTyped, FS_Interval
  <2> QED BY <2>1, FS_Subset
<1>2. \A x, y \in S : <<x, y>> \in R <=> x < y
  OBVIOUS
<1> HIDE DEF R
<1>3. \A x \in S : <<x, x>> \notin R
  BY <1>1, <1>2
<1>4. \A x, y \in S : x # y => <<x, y>> \in R \/ <<y, x>> \in R
  BY <1>1, <1>2
<1>5. \A x, y, z \in S : <<x, y>> \in R /\ <<y, z>> \in R => <<x, z>> \in R
  BY <1>1, <1>2
<1>6. PICK h \in [1..Cardinality(S) -> S] :
          /\ \A x \in S : \E i \in 1..Cardinality(S) : h[i] = x
          /\ \A i, j \in 1..Cardinality(S) : i < j => <<h[i], h[j]>> \in R
  BY <1>1, <1>3, <1>4, <1>5, Ranked
<1> DEFINE n == Cardinality(S)
<1>7. n \in Nat
  BY <1>1, FS_CardinalityType
<1>8. n \in 1..n
  BY <1>6, <1>7
<1>9. \A y \in S : h[n] >= y
  <2> SUFFICES ASSUME NEW y \in S PROVE h[n] >= y
    OBVIOUS
  <2>1. PICK i \in 1..n : h[i] = y
    BY <1>6
  <2>2. i = n \/ i < n
    BY <1>7
  <2> HIDE DEF n
  <2>3. h[n] \in S
    BY <1>6, <1>8 DEF n
  <2>4. i < n => <<h[i], h[n]>> \in R
    BY <1>6, <1>8 DEF n
  <2>5. i < n => y < h[n]
    BY <1>2, <2>1, <2>3, <2>4
  <2>6. y \in Int /\ h[n] \in Int /\ (y = h[n] \/ y < h[n])
    BY <1>1, <2>1, <2>2, <2>3, <2>5
  <2> HIDE DEF n
  <2> QED BY <2>6
<1>10. \E x \in S : \A y \in S : x >= y
  BY <1>6, <1>8, <1>9
<1> QED BY <1>10 DEF Max

LEMMA StartBatchTyped ==
  ASSUME TypeInv, StartBatch
  PROVE  TypeInv'
<1> DEFINE ready == At("ready", NoFile, "none", NoJob)
<1>1. Queued \in SUBSET Recs /\ Max(Queued) \in Recs
  BY MaxIs DEF StartBatch, Queued
<1>2. /\ batch' = [r \in Recs |-> IF r \in Queued THEN Max(Queued) ELSE batch[r]]
      /\ proc' = [p \in Procs |-> IF p \in Queued THEN ready ELSE proc[p]]
      /\ UNCHANGED <<disk, closed, reason, len, group, inflight, sent, discarded, crashes>>
  BY DEF StartBatch, settings
<1>3. batch' \in [Recs -> 0..N]
  BY <1>1, <1>2, SizesTyped DEF TypeInv, SourceTyped
<1>4. ready \in Goroutine /\ \A p \in Procs : Named(p, ready)
  BY AtTyped, AtIs DEF MaybeName, PCs, Named
<1> HIDE DEF ready
<1>5. ProcTyped(proc')
  BY <1>2, <1>4 DEF TypeInv, ProcTyped
<1> QED BY <1>2, <1>3, <1>5 DEF TypeInv, SourceTyped, RestTyped

LEMMA ProcessPendingFileTyped ==
  ASSUME TypeInv, NEW r \in Recs, ProcessPendingFile(r)
  PROVE  TypeInv'
<1>1. /\ UNCHANGED <<source, disk, group, inflight, sent, discarded, crashes>>
      /\ Goto(r, "encode", Raw(r), "none") \/ Finish(r)
  BY DEF ProcessPendingFile, settings
<1>2. r \in Procs /\ Raw(r) \in Names
  BY SizesTyped, DerivedNames
<1>3. ProcTyped(proc')
  BY <1>1, <1>2, GotoTyped, FinishTyped
<1> QED BY <1>1, <1>3, FrameTyped DEF TypeInv, RestTyped

LEMMA FinalizeRecordingTyped ==
  ASSUME TypeInv, NEW r \in Recs, FinalizeRecording(r)
  PROVE  TypeInv'
<1> DEFINE tmp == File("finalizing", 3 * r - 2, 0)
           j == [del |-> <<Raw(r)>>, tmp |-> tmp, dst |-> Raw(r), then |-> "session"]
<1>1. /\ UNCHANGED <<source, group, inflight, sent, discarded, crashes>>
      /\ \/ /\ Raw(r) \in DOMAIN disk /\ disk' = Put(disk, tmp, disk[Raw(r)])
            /\ proc' = [proc EXCEPT ![r] = At("publish", Raw(r), "none", j)]
         \/ disk' = disk /\ Goto(r, "session", Raw(r), "none")
         \/ disk' = disk /\ Finish(r)
  BY DEF FinalizeRecording, settings, Exists, Step
<1>2. r \in Procs /\ Raw(r) \in Names /\ tmp \in Names /\ tmp.kind = "finalizing"
  <2>1. r \in Procs /\ Raw(r) \in Names /\ tmp \in Names
    BY SizesTyped, DerivedNames
  <2>2. tmp.kind = "finalizing"
    BY FileIs
  <2> QED BY <2>1, <2>2
<1>3. j \in Job /\ j.tmp = tmp /\ j.dst = Raw(r) /\ j.then = "session"
  BY <1>2 DEF Job, MaybeName
<1> HIDE DEF j, tmp
<1>4. At("publish", Raw(r), "none", j) \in Goroutine /\ Named(r, At("publish", Raw(r), "none", j))
  BY <1>2, <1>3, AtTyped, AtIs DEF MaybeName, PCs, Named
<1>5. ProcTyped([proc EXCEPT ![r] = At("publish", Raw(r), "none", j)])
  BY <1>2, <1>4, StepTyped
<1>6. ProcTyped(proc')
  BY <1>1, <1>2, <1>5, GotoTyped, FinishTyped
<1>7. DiskTyped(disk', closed)
  <2>1. CASE disk' = disk
    BY <2>1 DEF TypeInv
  <2>2. CASE Raw(r) \in DOMAIN disk /\ disk' = Put(disk, tmp, disk[Raw(r)])
    <3>1. disk[Raw(r)] \in SUBSET (1..closed) /\ disk[Raw(r)] # {}
      BY <2>2, ContentIs
    <3> QED BY <1>2, <2>2, <3>1, PutTyped DEF TypeInv
  <2> QED BY <1>1, <2>1, <2>2
<1> QED BY <1>1, <1>6, <1>7, FrameTyped DEF TypeInv, RestTyped

LEMMA DeleteInputTyped ==
  ASSUME TypeInv, NEW p \in Procs, DeleteInput(p)
  PROVE  TypeInv'
<1> DEFINE j == proc[p].job
           i == [j EXCEPT !.del = Tail(@)]
           u == At("publish", proc[p].file, proc[p].lock, i)
<1>1. /\ proc[p].pc = "publish" /\ j.del # <<>>
      /\ disk' = Without(disk, {Head(j.del)})
      /\ proc' = [proc EXCEPT ![p] = u]
      /\ UNCHANGED <<source, group, inflight, sent, discarded, crashes>>
  BY DEF DeleteInput, Step, settings
<1>2. proc[p] \in Goroutine /\ Named(p, proc[p])
  BY ProcIs
<1>3. j \in Job
  BY <1>2 DEF Goroutine
<1>4. Tail(j.del) \in Seq(Names)
  BY <1>1, <1>3 DEF Job
<1>5. i \in Job /\ i.tmp = j.tmp /\ i.dst = j.dst /\ i.then = j.then
  BY <1>3, <1>4 DEF Job
<1> HIDE DEF i
<1>6. u \in Goroutine
  BY <1>2, <1>5, AtTyped DEF Goroutine, PCs
<1>7. Named(p, u)
  BY <1>1, <1>2, <1>5, AtIs DEF Named
<1> HIDE DEF u
<1>8. ProcTyped(proc')
  BY <1>1, <1>6, <1>7, StepTyped
<1>9. DiskTyped(disk', closed)
  BY <1>1, WithoutTyped DEF TypeInv
<1> QED BY <1>1, <1>8, <1>9, FrameTyped DEF TypeInv, RestTyped

LEMMA PublishOutputTyped ==
  ASSUME TypeInv, NEW p \in Procs, PublishOutput(p)
  PROVE  TypeInv'
<1> DEFINE j == proc[p].job
           u == At(j.then, j.dst, proc[p].lock, j)
<1>1. /\ proc[p].pc = "publish"
      /\ disk' = Rename(disk, j.tmp, j.dst)
      /\ Finish(p) \/ (j.then # "done" /\ proc' = [proc EXCEPT ![p] = u])
      /\ UNCHANGED <<source, group, inflight, sent, discarded, crashes>>
  BY DEF PublishOutput, Step, settings
<1>2. proc[p] \in Goroutine /\ Named(p, proc[p])
  BY ProcIs
<1>3. j \in Job /\ j.dst \in Names
  BY <1>1, <1>2 DEF Goroutine, Named
<1>4. u \in Goroutine
  BY <1>2, <1>3, AtTyped DEF Goroutine, PCs, Job
<1>5. j.then # "done" => Named(p, u)
  BY <1>1, <1>2, <1>3, AtIs DEF Named, Job
<1> HIDE DEF u
<1>6. ProcTyped(proc')
  BY <1>1, <1>4, <1>5, StepTyped, FinishTyped
<1>7. DiskTyped(disk', closed)
  BY <1>1, <1>3, RenameTyped DEF TypeInv
<1> QED BY <1>1, <1>6, <1>7, FrameTyped DEF TypeInv, RestTyped

LEMMA RenameFailsTyped ==
  ASSUME TypeInv, NEW p \in Procs, RenameFails(p)
  PROVE  TypeInv'
<1> DEFINE j == proc[p].job
           u == At(j.then, j.tmp, proc[p].lock, j)
<1>1. /\ proc[p].pc = "publish"
      /\ \/ j.tmp.kind = "merging" /\ j.then # "done" /\ proc' = [proc EXCEPT ![p] = u]
         \/ Finish(p)
      /\ disk' = disk \/ disk' = Without(disk, {j.tmp})
      /\ group' = IF proc[p].lock = "session" THEN NoGroup ELSE group
      /\ UNCHANGED <<source, inflight, sent, discarded, crashes>>
  BY DEF RenameFails, Step, settings
<1>2. proc[p] \in Goroutine /\ Named(p, proc[p])
  BY ProcIs
<1>3. j \in Job /\ j.tmp \in Names
  BY <1>1, <1>2 DEF Goroutine, Named
<1>4. u \in Goroutine
  BY <1>2, <1>3, AtTyped DEF Goroutine, PCs, Job, MaybeName
<1>5. j.tmp.kind = "merging" /\ j.then # "done" => Named(p, u)
  BY <1>1, <1>2, <1>3, AtIs DEF Named, Job
<1> HIDE DEF u
<1>6. ProcTyped(proc')
  BY <1>1, <1>4, <1>5, StepTyped, FinishTyped
<1>7. DiskTyped(disk', closed)
  <2>1. DiskTyped(disk, closed) /\ DiskTyped(Without(disk, {j.tmp}), closed)
    BY WithoutTyped DEF TypeInv
  <2> QED BY <1>1, <2>1
<1>8. RestTyped'
  BY <1>1 DEF TypeInv, RestTyped, NoGroup, MaybeName
<1> QED BY <1>1, <1>6, <1>7, <1>8, FrameTyped

LEMMA HoldTyped ==
  ASSUME TypeInv, NEW p \in Procs, NEW f \in HeldNames, NEW cont \in BOOLEAN, Hold(p, f, cont)
  PROVE  /\ ProcTyped(proc')
         /\ group' \in [file : HeldNames \cup {NoFile}, cont : BOOLEAN] /\ inflight' \subseteq Names
<1>1. ProcTyped(proc')
  BY FinishTyped DEF Hold
<1>2. group' = [file |-> f, cont |-> cont] /\ inflight' = inflight \cup {f}
  BY DEF Hold
<1>3. f \in Names
  BY DerivedNames
<1> QED BY <1>1, <1>2, <1>3 DEF TypeInv, RestTyped

LEMMA HoldFirstTyped ==
  ASSUME TypeInv, NEW p \in Recs, HoldFirst(p)
  PROVE  TypeInv'
<1>1. /\ proc[p].pc = "session"
      /\ UNCHANGED <<source, disk, sent, discarded, crashes>>
      /\ \/ Goto(p, "mindur", proc[p].file, "none") /\ UNCHANGED <<group, inflight>>
         \/ Hold(p, proc[p].file, reason[p] = "cont")
  BY DEF HoldFirst, settings
<1>2. p \in Procs /\ proc[p].file = Raw(p) /\ Raw(p) \in HeldNames
  BY <1>1, SizesTyped, DerivedNames, ProcIs DEF Named
<1>3. CASE Goto(p, "mindur", proc[p].file, "none") /\ UNCHANGED <<group, inflight>>
  <2>1. ProcTyped(proc')
    BY <1>2, <1>3, DerivedNames, GotoTyped
  <2> QED BY <1>1, <1>3, <2>1, FrameTyped DEF TypeInv, RestTyped
<1>4. CASE Hold(p, proc[p].file, reason[p] = "cont")
  <2>1. (reason[p] = "cont") \in BOOLEAN
    OBVIOUS
  <2> HIDE DEF TypeInv
  <2>2. /\ ProcTyped(proc')
        /\ group' \in [file : HeldNames \cup {NoFile}, cont : BOOLEAN] /\ inflight' \subseteq Names
    BY <1>2, <1>4, <2>1, HoldTyped
  <2> QED BY <1>1, <2>2, FrameTyped DEF TypeInv, RestTyped
<1> QED BY <1>1, <1>3, <1>4

LEMMA ReleaseHeldTyped ==
  ASSUME TypeInv, NEW p \in Recs, ReleaseHeld(p)
  PROVE  TypeInv'
<1>1. /\ proc[p].pc = "session"
      /\ UNCHANGED <<source, disk, group, sent, discarded, crashes>>
      /\ inflight' = inflight \ {group.file}
      /\ Goto(p, "flush", proc[p].file, "session")
  BY DEF ReleaseHeld, settings
<1>2. p \in Procs /\ proc[p].file = Raw(p) /\ Raw(p) \in Names
  BY <1>1, SizesTyped, DerivedNames, ProcIs DEF Named
<1>3. ProcTyped(proc')
  BY <1>1, <1>2, GotoTyped
<1> QED BY <1>1, <1>3, FrameTyped DEF TypeInv, RestTyped

LEMMA FlushSessionEntryTyped ==
  ASSUME TypeInv, NEW p \in Recs, FlushSessionEntry(p)
  PROVE  TypeInv'
<1>1. /\ proc[p].pc = "flush"
      /\ UNCHANGED <<source, crashes>>
      /\ Deliver(group.file)
      /\ \/ Goto(p, "mindur", proc[p].file, "none") /\ UNCHANGED <<group, inflight>>
         \/ Hold(p, proc[p].file, FALSE)
  BY DEF FlushSessionEntry, settings
<1>2. p \in Procs /\ proc[p].file = Raw(p) /\ Raw(p) \in HeldNames
  BY <1>1, SizesTyped, DerivedNames, ProcIs DEF Named
<1>3. DiskTyped(disk', closed) /\ sent' \subseteq SUBSET Recs /\ discarded' \subseteq Recs
  BY <1>1, DeliverTyped
<1>4. CASE Goto(p, "mindur", proc[p].file, "none") /\ UNCHANGED <<group, inflight>>
  <2>1. ProcTyped(proc')
    BY <1>2, <1>4, DerivedNames, GotoTyped
  <2> QED BY <1>1, <1>3, <1>4, <2>1, FrameTyped DEF TypeInv, RestTyped
<1>5. CASE Hold(p, proc[p].file, FALSE)
  <2>1. /\ ProcTyped(proc')
        /\ group' \in [file : HeldNames \cup {NoFile}, cont : BOOLEAN] /\ inflight' \subseteq Names
    BY <1>2, <1>5, HoldTyped
  <2> QED BY <1>1, <1>3, <2>1, FrameTyped DEF TypeInv, RestTyped
<1> QED BY <1>1, <1>4, <1>5

LEMMA MergeTwoFilesTyped ==
  ASSUME TypeInv, NEW p \in Recs, MergeTwoFiles(p)
  PROVE  TypeInv'
<1> DEFINE a == group.file
           b == proc[p].file
           tmp == File("sessiontmp", Joined(a).base + 1, 0)
           then == IF reason[p] = "end" THEN "deliver" ELSE "regroup"
           j == [del |-> <<a, b>>, tmp |-> tmp, dst |-> Joined(a), then |-> then]
           u == At("publish", b, "session", j)
<1>1. /\ proc[p].pc = "session" /\ b \in DOMAIN disk
      /\ UNCHANGED <<source, inflight, sent, discarded, crashes>>
      /\ \/ /\ a \in DOMAIN disk /\ disk' = Put(disk, tmp, disk[a] \cup disk[b])
            /\ proc' = [proc EXCEPT ![p] = u] /\ UNCHANGED group
         \/ group' = NoGroup /\ Goto(p, "mindur", b, "none") /\ UNCHANGED disk
  BY DEF MergeTwoFiles, settings, Exists, Step
<1>2. p \in Procs /\ b = Raw(p) /\ Raw(p) \in Names
  BY <1>1, SizesTyped, DerivedNames, ProcIs DEF Named
<1>3. CASE group' = NoGroup /\ Goto(p, "mindur", b, "none") /\ UNCHANGED disk
  <2>1. ProcTyped(proc')
    BY <1>2, <1>3, GotoTyped
  <2> QED BY <1>1, <1>3, <2>1, FrameTyped DEF TypeInv, RestTyped, NoGroup, MaybeName
<1>4. CASE /\ a \in DOMAIN disk /\ disk' = Put(disk, tmp, disk[a] \cup disk[b])
           /\ proc' = [proc EXCEPT ![p] = u] /\ UNCHANGED group
  <2>1. /\ a \in HeldNames
        /\ disk[a] \in SUBSET (1..closed) /\ disk[a] # {}
        /\ disk[b] \in SUBSET (1..closed)
    <3>1. a \in Names /\ a \in HeldNames \cup {NoFile}
      BY <1>4, ContentIs DEF TypeInv, RestTyped
    <3>2. a \in HeldNames
      BY <3>1, NoFileIs
    <3> QED BY <1>1, <1>4, <3>2, ContentIs
  <2>2. /\ a \in Names /\ Joined(a) \in HeldNames /\ Joined(a) \in Names
        /\ tmp \in Names /\ tmp.kind = "sessiontmp"
    <3>1. a \in Names /\ Joined(a) \in HeldNames /\ Joined(a) \in Names /\ tmp \in Names
      BY <2>1, DerivedNames
    <3>2. tmp.kind = "sessiontmp"
      BY FileIs
    <3> QED BY <3>1, <3>2
  <2>3. disk[a] \cup disk[b] \in SUBSET (1..closed) /\ disk[a] \cup disk[b] # {}
    BY <2>1
  <2>4. j \in Job /\ j.tmp = tmp /\ j.dst = Joined(a) /\ j.then # "session"
    BY <1>2, <2>1, <2>2 DEF Job, MaybeName
  <2> HIDE DEF tmp, j
  <2>5. u \in Goroutine /\ Named(p, u)
    <3>1. u \in Goroutine
      BY <1>2, <2>4, AtTyped DEF MaybeName, PCs
    <3>2. u.pc = "publish" /\ u.job = j
      BY AtIs
    <3> HIDE DEF u
    <3> QED BY <2>2, <2>4, <3>1, <3>2 DEF Named
  <2> HIDE DEF u
  <2>6. ProcTyped(proc')
    BY <1>2, <1>4, <2>5, StepTyped
  <2>7. DiskTyped(disk', closed)
    BY <1>4, <2>2, <2>3, PutTyped DEF TypeInv
  <2> QED BY <1>1, <1>4, <2>6, <2>7, FrameTyped DEF TypeInv, RestTyped
<1> QED BY <1>1, <1>3, <1>4

LEMMA RegroupTyped ==
  ASSUME TypeInv, NEW p \in Recs, Regroup(p)
  PROVE  TypeInv'
<1>1. /\ proc[p].pc = "regroup" /\ Hold(p, proc[p].file, TRUE)
      /\ UNCHANGED <<source, disk, sent, discarded, crashes>>
  BY DEF Regroup, settings
<1>2. p \in Procs /\ proc[p].file \in HeldNames
  BY <1>1, SizesTyped, ProcIs DEF Named
<1>3. /\ ProcTyped(proc')
      /\ group' \in [file : HeldNames \cup {NoFile}, cont : BOOLEAN] /\ inflight' \subseteq Names
  BY <1>1, <1>2, HoldTyped
<1> QED BY <1>1, <1>3, FrameTyped DEF TypeInv, RestTyped

LEMMA DeliverSessionTyped ==
  ASSUME TypeInv, NEW p \in Recs, DeliverSession(p)
  PROVE  TypeInv'
<1>1. /\ Deliver(proc[p].file) /\ Finish(p) /\ group' = NoGroup /\ inflight' = inflight \ {group.file}
      /\ UNCHANGED <<source, crashes>>
  BY DEF DeliverSession, settings
<1>2. DiskTyped(disk', closed) /\ sent' \subseteq SUBSET Recs /\ discarded' \subseteq Recs
  BY <1>1, DeliverTyped
<1>3. ProcTyped(proc')
  BY <1>1, SizesTyped, FinishTyped
<1> QED BY <1>1, <1>2, <1>3, FrameTyped DEF TypeInv, RestTyped, NoGroup, MaybeName

LEMMA VanishedTyped ==
  ASSUME TypeInv, NEW p \in Recs, Vanished(p)
  PROVE  TypeInv'
<1>1. Finish(p) /\ UNCHANGED <<source, disk, group, inflight, sent, discarded, crashes>>
  BY DEF Vanished, settings
<1>2. ProcTyped(proc')
  BY <1>1, SizesTyped, FinishTyped
<1> QED BY <1>1, <1>2, FrameTyped DEF TypeInv, RestTyped

\* At most one segment is found unreadable at a time.
LEMMA SuspectsAre ==
  ASSUME NEW bad \in Suspects
  PROVE  /\ bad \subseteq DOMAIN disk /\ (bad = {} \/ \E f : bad = {f})
         /\ \A f \in bad : f.kind \in {"pending", "merged"}
BY DEF Suspects, Segments

\* What handleMinDurationAndMerge keeps in common whatever it decides.
LEMMA MinDurationTyped ==
  ASSUME TypeInv, NEW p \in Recs, DiskTyped(disk', closed), ProcTyped(proc'),
         UNCHANGED <<source, group, inflight, sent, discarded, settings>>
  PROVE  TypeInv'
BY FrameTyped DEF TypeInv, RestTyped, settings

\* Under the merge lock a goroutine still has its recording's own file.
LEMMA InMinDuration ==
  ASSUME TypeInv, NEW p \in Recs, proc[p].pc = "mindur"
  PROVE  /\ p \in Procs /\ proc[p].file = Raw(p) /\ Raw(p) \in Names /\ Raw(p).kind = "dir"
         /\ Parked(Raw(p)) \in Names
BY SizesTyped, DerivedNames, ProcIs, FileIs DEF Named, Raw

LEMMA MinDurationLongTyped ==
  ASSUME TypeInv, NEW p \in Recs, MinDurationLong(p)
  PROVE  TypeInv'
<1> DEFINE f == proc[p].file
<1>1. /\ p \in Procs /\ f = Raw(p) /\ f \in Names /\ f.kind = "dir" /\ Parked(f) \in Names
      /\ f \in DOMAIN disk
  BY InMinDuration DEF MinDurationLong, Exists
<1>2. PICK bad \in Suspects :
         LET d == Quarantined(disk, bad)
             segs == Segments(d)
         IN
         \/ segs = {} /\ Checked(bad) /\ disk' = d /\ Goto(p, "egress", f, "none")
         \/ segs # {} /\ Checked(bad) /\ MergeVideos(p, d, {f}, InOrder(segs) \o <<f>>, "egress")
         \/ /\ segs # {} /\ bad = {} /\ Fails("merge")
            /\ disk' = Rename(d, f, Parked(f)) /\ Finish(p)
         \/ /\ segs # {} /\ bad = {} /\ Fails("probe")
            /\ MergeVideos(p, d, {f}, <<f>> \o InOrder(segs), "done")
  BY DEF MinDurationLong
<1> DEFINE d == Quarantined(disk, bad)
           segs == Segments(d)
           s == InOrder(segs)
<1>3. /\ UNCHANGED <<source, group, inflight, sent, discarded, settings>>
      /\ \/ disk' = d /\ Goto(p, "egress", f, "none")
         \/ segs # {} /\ MergeVideos(p, d, {f}, s \o <<f>>, "egress")
         \/ disk' = Rename(d, f, Parked(f)) /\ Finish(p)
         \/ segs # {} /\ MergeVideos(p, d, {f}, <<f>> \o s, "done")
  BY <1>2 DEF MinDurationLong
<1>4. bad \subseteq DOMAIN disk /\ (bad = {} \/ \E g : bad = {g}) /\ f \notin bad
  BY <1>1, SuspectsAre
<1>5. DiskTyped(d, closed) /\ f \in DOMAIN d
  <2>1. DiskTyped(d, closed)
    BY <1>4, QuarantinedTyped DEF TypeInv
  <2>2. f \in DOMAIN d
    BY <1>1, <1>4 DEF Quarantined
  <2> QED BY <2>1, <2>2
<1>6. s \in Seq(Names)
  BY <1>5, MergeNames
<1>7. s \o <<f>> \in Seq(Names) /\ <<f>> \o s \in Seq(Names)
  BY <1>1, <1>6
<1> HIDE DEF d, s, f
<1>8. ASSUME disk' = d, Goto(p, "egress", f, "none") PROVE TypeInv'
  BY <1>1, <1>3, <1>5, <1>8, GotoTyped, MinDurationTyped
<1>9. ASSUME segs # {}, MergeVideos(p, d, {f}, s \o <<f>>, "egress") PROVE TypeInv'
  <2>1. {f} \in SUBSET DOMAIN d
    BY <1>5
  <2>2. DiskTyped(disk', closed) /\ ProcTyped(proc')
    BY <1>1, <1>5, <1>7, <1>9, <2>1, MergeVideosTyped
  <2> QED BY <1>3, <2>2, MinDurationTyped
<1>10. ASSUME disk' = Rename(d, f, Parked(f)), Finish(p) PROVE TypeInv'
  <2>1. DiskTyped(disk', closed)
    BY <1>1, <1>5, <1>10, RenameTyped
  <2> QED BY <1>1, <1>3, <1>10, <2>1, FinishTyped, MinDurationTyped
<1>11. ASSUME segs # {}, MergeVideos(p, d, {f}, <<f>> \o s, "done") PROVE TypeInv'
  <2>1. {f} \in SUBSET DOMAIN d
    BY <1>5
  <2>2. DiskTyped(disk', closed) /\ ProcTyped(proc')
    BY <1>1, <1>5, <1>7, <1>11, <2>1, MergeVideosTyped
  <2> QED BY <1>3, <2>2, MinDurationTyped
<1> QED BY <1>3, <1>8, <1>9, <1>10, <1>11

LEMMA MinDurationUnreadTyped ==
  ASSUME TypeInv, NEW p \in Recs, MinDurationUnread(p)
  PROVE  TypeInv'
<1> DEFINE f == proc[p].file
<1>1. /\ p \in Procs /\ f \in Names /\ Parked(f) \in Names
      /\ UNCHANGED <<source, group, inflight, sent, discarded, settings>>
      /\ disk' = Rename(disk, f, Parked(f)) /\ Finish(p)
  BY InMinDuration DEF MinDurationUnread
<1> HIDE DEF f
<1>2. DiskTyped(disk', closed)
  BY <1>1, RenameTyped DEF TypeInv
<1> QED BY <1>1, <1>2, FinishTyped, MinDurationTyped

LEMMA MinDurationShortTyped ==
  ASSUME TypeInv, NEW p \in Recs, MinDurationShort(p)
  PROVE  TypeInv'
<1> DEFINE f == proc[p].file
           parked == Rename(disk, f, Parked(f))
<1>1. /\ p \in Procs /\ f = Raw(p) /\ f \in Names /\ f.kind = "dir" /\ Parked(f) \in Names
      /\ f \in DOMAIN disk
  BY InMinDuration DEF MinDurationShort, Exists
<1>2. PICK bad \in Suspects :
         LET d == Quarantined(parked, bad)
             segs == Segments(d)
             total == UNION {d[g] : g \in segs}
         IN
         \/ /\ Cardinality(segs) > 1 /\ Checked(bad)
            /\ MergeVideos(p, d, {}, InOrder(segs),
                 IF Long(total) \/ IsDefinitiveStop(reason[p]) THEN "egress" ELSE "done")
         \/ /\ Cardinality(segs) > 1 /\ bad = {} /\ Fails("merge")
            /\ disk' = d /\ Finish(p)
         \/ /\ Cardinality(segs) > 1 /\ bad = {} /\ Fails("probe")
            /\ MergeVideos(p, d, {}, InOrder(segs), "done")
         \/ /\ Cardinality(segs) <= 1 /\ Checked(bad) /\ disk' = d
            /\ IF segs # {} /\ IsDefinitiveStop(reason[p])
               THEN Goto(p, "orphan", CHOOSE g \in segs : TRUE, "merge")
               ELSE Finish(p)
  BY DEF MinDurationShort
<1> DEFINE d == Quarantined(parked, bad)
           segs == Segments(d)
           s == InOrder(segs)
<1>3. /\ UNCHANGED <<source, group, inflight, sent, discarded, settings>>
      /\ \/ \E then \in {"egress", "done"} :
               Cardinality(segs) > 1 /\ MergeVideos(p, d, {}, s, then)
         \/ disk' = d /\ Finish(p)
         \/ disk' = d /\ segs # {} /\ Goto(p, "orphan", CHOOSE g \in segs : TRUE, "merge")
  BY <1>2 DEF MinDurationShort
<1>4. bad \subseteq DOMAIN disk /\ (bad = {} \/ \E g : bad = {g}) /\ f \notin bad
  BY <1>1, SuspectsAre
<1>5. DiskTyped(parked, closed) /\ bad \subseteq DOMAIN parked
  <2>1. /\ DiskTyped(parked, closed)
        /\ DOMAIN parked = (DOMAIN disk \ {f}) \cup {Parked(f)}
    <3> DEFINE q == Parked(f)
    <3>1. f \in DOMAIN disk /\ q \in Names /\ DiskTyped(disk, closed)
      BY <1>1 DEF TypeInv
    <3> HIDE DEF f, q
    <3>2. /\ DiskTyped(Rename(disk, f, q), closed)
          /\ DOMAIN Rename(disk, f, q) = (DOMAIN disk \ {f}) \cup {q}
      <4>1. DiskTyped(Rename(disk, f, q), closed)
        BY <3>1, RenameTyped
      <4>2. DOMAIN Rename(disk, f, q) = (DOMAIN disk \ {f}) \cup {q}
        BY <3>1 DEF Rename, Put, Without, Restrict
      <4> QED BY <4>1, <4>2
    <3> QED BY <3>2 DEF q
  <2> QED BY <1>4, <2>1
<1> HIDE DEF parked, f
<1>6. DiskTyped(d, closed)
  BY <1>4, <1>5, QuarantinedTyped
<1>7. s \in Seq(Names) /\ {} \in SUBSET DOMAIN d /\ segs \subseteq Names
  BY <1>6, MergeNames, SegmentsSortable
<1>8. Cardinality(segs) > 1 => segs # {}
  BY FS_EmptySet
<1> HIDE DEF d, s, segs
<1>9. ASSUME NEW then \in {"egress", "done"}, Cardinality(segs) > 1, MergeVideos(p, d, {}, s, then)
      PROVE  TypeInv'
  <2>1. DiskTyped(disk', closed) /\ ProcTyped(proc')
    BY <1>1, <1>6, <1>7, <1>8, <1>9, MergeVideosTyped DEF segs
  <2> QED BY <1>3, <2>1, MinDurationTyped
<1>10. ASSUME disk' = d, Finish(p) PROVE TypeInv'
  BY <1>1, <1>3, <1>6, <1>10, FinishTyped, MinDurationTyped
<1>11. ASSUME disk' = d, segs # {}, Goto(p, "orphan", CHOOSE g \in segs : TRUE, "merge") PROVE TypeInv'
  <2>1. (CHOOSE g \in segs : TRUE) \in Names
    BY <1>7, <1>11
  <2>2. ProcTyped(proc')
    BY <1>1, <1>11, <2>1, GotoTyped
  <2> QED BY <1>3, <1>6, <1>11, <2>2, MinDurationTyped
<1> QED BY <1>3, <1>9, <1>10, <1>11

LEMMA MoveToOutputDirTyped ==
  ASSUME TypeInv, NEW p \in Recs, MoveToOutputDir(p) \/ CompressFails(p)
  PROVE  TypeInv'
<1>1. /\ Deliver(proc[p].file) /\ Finish(p)
      /\ UNCHANGED <<source, group, inflight, crashes>>
  BY DEF MoveToOutputDir, CompressFails, settings
<1>2. DiskTyped(disk', closed) /\ sent' \subseteq SUBSET Recs /\ discarded' \subseteq Recs
  BY <1>1, DeliverTyped
<1>3. ProcTyped(proc')
  BY <1>1, SizesTyped, FinishTyped
<1> QED BY <1>1, <1>2, <1>3, FrameTyped DEF TypeInv, RestTyped

\* A goroutine takes note of what its file holds.
LEMMA HeldTyped ==
  ASSUME TypeInv, NEW p \in Procs, NEW f \in DOMAIN disk, NEW pc \in {"compress", "upload"},
         NEW lock \in {"none", "session", "merge"},
         Step(p, [At(pc, f, lock, NoJob) EXCEPT !.held = disk[f]])
  PROVE  ProcTyped(proc')
<1> DEFINE a == At(pc, f, lock, NoJob)
           u == [a EXCEPT !.held = disk[f]]
<1>1. f \in Names /\ disk[f] \in SUBSET Recs
  BY ContentIs
<1>2. a \in Goroutine /\ a.pc = pc /\ a.file = f
  BY <1>1, AtTyped, AtIs DEF MaybeName, PCs
<1> HIDE DEF a
<1>3. u \in Goroutine /\ u.pc = pc /\ u.file = f
  BY <1>1, <1>2 DEF Goroutine
<1> HIDE DEF u
<1>4. Named(p, u)
  BY <1>1, <1>3 DEF Named
<1> QED BY <1>3, <1>4, StepTyped DEF Step, u, a

LEMMA CompressFileTyped ==
  ASSUME TypeInv, NEW p \in Recs, CompressFile(p)
  PROVE  TypeInv'
<1>1. /\ UNCHANGED <<source, disk, group, inflight, sent, discarded, crashes>>
      /\ \/ Finish(p)
         \/ /\ proc[p].file \in DOMAIN disk
            /\ Step(p, [At("compress", proc[p].file, "none", NoJob) EXCEPT !.held = disk[proc[p].file]])
  BY DEF CompressFile, settings, Exists
<1>2. ProcTyped(proc')
  BY <1>1, SizesTyped, FinishTyped, HeldTyped
<1> QED BY <1>1, <1>2, FrameTyped DEF TypeInv, RestTyped

LEMMA CompressedTyped ==
  ASSUME TypeInv, NEW p \in Recs, Compressed(p)
  PROVE  TypeInv'
<1> DEFINE c == proc[p].held
<1>1. /\ disk' = Without(disk, {proc[p].file}) /\ Finish(p)
      /\ \/ sent' = sent \cup {c} /\ UNCHANGED discarded
         \/ discarded' = discarded \cup c /\ UNCHANGED sent
      /\ UNCHANGED <<source, group, inflight, crashes>>
  BY DEF Compressed, settings
<1>2. p \in Procs /\ c \in SUBSET Recs
  BY SizesTyped, ProcIs DEF Goroutine
<1>3. ProcTyped(proc')
  BY <1>1, <1>2, FinishTyped
<1>4. DiskTyped(disk', closed)
  BY <1>1, WithoutTyped DEF TypeInv
<1> HIDE DEF c
<1>5. RestTyped'
  BY <1>1, <1>2 DEF TypeInv, RestTyped
<1> QED BY <1>1, <1>3, <1>4, <1>5, FrameTyped

LEMMA BeginUploadTyped ==
  ASSUME TypeInv, NEW p \in Procs, BeginUpload(p)
  PROVE  TypeInv'
<1> DEFINE f == proc[p].file
<1>1. /\ proc[p].pc = "orphan"
      /\ UNCHANGED <<source, disk, group, sent, discarded, crashes>>
      /\ \/ Finish(p) /\ UNCHANGED inflight
         \/ /\ f \in DOMAIN disk /\ inflight' = inflight \cup {f}
            /\ Step(p, [At("upload", f, proc[p].lock, NoJob) EXCEPT !.held = disk[f]])
  BY DEF BeginUpload, settings, Exists
<1>2. f \in Names /\ proc[p].lock \in {"none", "session", "merge"}
  BY <1>1, ProcIs DEF Named, PCs, Goroutine
<1> HIDE DEF f
<1>3. ProcTyped(proc')
  BY <1>1, <1>2, FinishTyped, HeldTyped
<1> QED BY <1>1, <1>2, <1>3, FrameTyped DEF TypeInv, RestTyped

LEMMA EndUploadTyped ==
  ASSUME TypeInv, NEW p \in Procs, EndUpload(p)
  PROVE  TypeInv'
<1> DEFINE c == proc[p].held
           f == proc[p].file
<1>1. /\ inflight' = inflight \ {f} /\ Finish(p)
      /\ disk' = Without(disk, {f}) \/ disk' = disk
      /\ sent' = sent \cup {c} \/ sent' = sent
      /\ discarded' = discarded \cup c \/ discarded' = discarded
      /\ UNCHANGED <<source, group, crashes>>
  BY DEF EndUpload, settings
<1>2. c \in SUBSET Recs
  BY ProcIs DEF Goroutine
<1>3. ProcTyped(proc')
  BY <1>1, FinishTyped
<1>4. DiskTyped(disk, closed) /\ DiskTyped(Without(disk, {f}), closed)
  BY WithoutTyped DEF TypeInv
<1> HIDE DEF c, f
<1>5. RestTyped'
  BY <1>1, <1>2 DEF TypeInv, RestTyped
<1>6. DiskTyped(disk', closed)
  BY <1>1, <1>4
<1> QED BY <1>1, <1>3, <1>5, <1>6, FrameTyped

LEMMA ScanMainTyped ==
  ASSUME TypeInv, NEW f \in DOMAIN disk, ScanMain(f)
  PROVE  TypeInv'
<1>1. /\ UNCHANGED <<source, group, inflight, sent, discarded, crashes>>
      /\ \/ disk' = Rename(disk, f, Parked(f)) /\ UNCHANGED proc
         \/ Goto(Scan, "orphan", f, "none") /\ UNCHANGED disk
  BY DEF ScanMain, settings
<1>2. f \in Names /\ Parked(f) \in Names
  BY ContentIs, DerivedNames
<1>3. CASE disk' = Rename(disk, f, Parked(f)) /\ UNCHANGED proc
  <2>1. DiskTyped(disk', closed)
    BY <1>2, <1>3, RenameTyped DEF TypeInv
  <2> QED BY <1>1, <1>3, <2>1, FrameTyped DEF TypeInv, RestTyped
<1>4. CASE Goto(Scan, "orphan", f, "none") /\ UNCHANGED disk
  <2>1. ProcTyped(proc')
    BY <1>2, <1>4, SizesTyped, GotoTyped
  <2> QED BY <1>1, <1>4, <2>1, FrameTyped DEF TypeInv, RestTyped
<1> QED BY <1>1, <1>3, <1>4

LEMMA RemoveStaleScratchTyped ==
  ASSUME TypeInv, NEW f \in DOMAIN disk, RemoveStaleScratch(f)
  PROVE  TypeInv'
<1>1. /\ disk' = Without(disk, {f})
      /\ UNCHANGED <<source, proc, group, inflight, sent, discarded, crashes>>
  BY DEF RemoveStaleScratch, settings
<1>2. DiskTyped(disk', closed)
  BY <1>1, WithoutTyped DEF TypeInv
<1> QED BY <1>1, <1>2, FrameTyped DEF TypeInv, RestTyped

\* What the scan recovers of a dead merge.
LEMMA RecoverTyped ==
  ASSUME NEW d, NEW cl, DiskTyped(d, cl)
  PROVE  DiskTyped(RecoverMergeScratch(d), cl)
<1> DEFINE left == {f \in DOMAIN d : f.kind = "merging"}
           f == CHOOSE g \in left : TRUE
<1>1. CASE Cardinality(left) # 1
  BY <1>1 DEF RecoverMergeScratch
<1>2. CASE Cardinality(left) = 1 /\ Segments(d) # {}
  BY <1>2, WithoutTyped DEF RecoverMergeScratch
<1>3. CASE Cardinality(left) = 1 /\ Segments(d) = {}
  <2>1. left # {}
    BY <1>3, FS_EmptySet
  <2>2. f \in Names
    BY <2>1 DEF DiskTyped
  <2>3. File("merged", f.base, 0) \in Names
    BY <2>2, DerivedNames
  <2>4. RecoverMergeScratch(d) = Rename(d, f, File("merged", f.base, 0))
    BY <1>3 DEF RecoverMergeScratch
  <2> DEFINE m == File("merged", f.base, 0)
  <2> HIDE DEF f, m
  <2>5. m \in Names /\ RecoverMergeScratch(d) = Rename(d, f, m)
    BY <2>3, <2>4 DEF m
  <2>6. DiskTyped(Rename(d, f, m), cl)
    BY <2>5, RenameTyped
  <2> QED BY <2>5, <2>6
<1> QED BY <1>1, <1>2, <1>3

LEMMA ScanPendingTyped ==
  ASSUME TypeInv, NEW force \in BOOLEAN, ScanPending(force)
  PROVE  TypeInv'
<1> DEFINE recovered == RecoverMergeScratch(disk)
<1>1. PICK bad \in Suspects, aged \in Suspects :
         LET d == Quarantined(Without(recovered, aged), bad)
             segs == Segments(d)
             lone == CHOOSE g \in segs : TRUE
             goes == force \/ Long(UNION {d[g] : g \in segs})
         IN
         /\ aged \subseteq IF force THEN {} ELSE Segments(recovered)
         /\ bad \subseteq Segments(recovered) \ aged
         /\ discarded' = discarded \cup UNION {recovered[f] : f \in aged}
         /\ \/ /\ segs = {} /\ Checked(bad) /\ disk' = d /\ UNCHANGED proc
            \/ /\ Cardinality(segs) = 1 /\ Checked(bad) /\ disk' = d
               /\ IF goes /\ lone \notin inflight
                  THEN Goto(Scan, "orphan", lone, "merge") ELSE UNCHANGED proc
            \/ /\ Cardinality(segs) > 1 /\ Checked(bad)
               /\ MergeVideos(Scan, d, {}, InOrder(segs), IF goes THEN "orphan" ELSE "done")
            \/ /\ Cardinality(segs) > 1 /\ bad = {} /\ Fails("merge")
               /\ disk' = d /\ UNCHANGED proc
            \/ /\ Cardinality(segs) > 1 /\ bad = {} /\ Fails("probe")
               /\ MergeVideos(Scan, d, {}, InOrder(segs), "done")
  BY DEF ScanPending
<1> DEFINE w == Without(recovered, aged)
           d == Quarantined(w, bad)
           segs == Segments(d)
           s == InOrder(segs)
           lone == CHOOSE g \in segs : TRUE
<1>2. /\ UNCHANGED <<source, group, inflight, sent, crashes>>
      /\ aged \subseteq DOMAIN recovered /\ bad \subseteq DOMAIN recovered \ aged
      /\ discarded' = discarded \cup UNION {recovered[f] : f \in aged}
      /\ \/ \E then \in {"orphan", "done"} :
               Cardinality(segs) > 1 /\ MergeVideos(Scan, d, {}, s, then)
         \/ disk' = d /\ UNCHANGED proc
         \/ disk' = d /\ Cardinality(segs) = 1 /\ Goto(Scan, "orphan", lone, "merge")
  BY <1>1 DEF ScanPending, settings, Segments
<1>3. DiskTyped(recovered, closed)
  BY RecoverTyped DEF TypeInv
<1> HIDE DEF recovered
<1>4. DiskTyped(w, closed) /\ bad \subseteq DOMAIN w /\ (bad = {} \/ \E g : bad = {g})
  <2>1. DiskTyped(w, closed) /\ DOMAIN w = DOMAIN recovered \ aged
    BY <1>3, WithoutTyped
  <2>2. bad = {} \/ \E g : bad = {g}
    BY SuspectsAre
  <2> QED BY <1>2, <2>1, <2>2
<1> HIDE DEF w
<1>5. DiskTyped(d, closed)
  BY <1>4, QuarantinedTyped
<1>6. s \in Seq(Names) /\ {} \in SUBSET DOMAIN d /\ segs \subseteq Names
  BY <1>5, MergeNames, SegmentsSortable
<1>7. (Cardinality(segs) > 1 => segs # {}) /\ (Cardinality(segs) = 1 => segs # {})
  BY FS_EmptySet
<1> HIDE DEF d, s, segs
<1>8. DiskTyped(disk', closed) /\ ProcTyped(proc')
  <2>1. ASSUME NEW then \in {"orphan", "done"}, Cardinality(segs) > 1, MergeVideos(Scan, d, {}, s, then)
        PROVE  DiskTyped(disk', closed) /\ ProcTyped(proc')
    BY SizesTyped, <1>5, <1>6, <1>7, <2>1, MergeVideosTyped DEF segs
  <2>2. ASSUME disk' = d, UNCHANGED proc
        PROVE  DiskTyped(disk', closed) /\ ProcTyped(proc')
    BY <1>5, <2>2 DEF TypeInv
  <2>3. ASSUME disk' = d, Cardinality(segs) = 1, Goto(Scan, "orphan", lone, "merge")
        PROVE  DiskTyped(disk', closed) /\ ProcTyped(proc')
    <3>1. lone \in Names
      BY <1>6, <1>7, <2>3
    <3> HIDE DEF lone
    <3> QED BY SizesTyped, <1>5, <2>3, <3>1, GotoTyped
  <2> QED BY <1>2, <2>1, <2>2, <2>3
<1>9. discarded' \subseteq Recs
  <2>1. 1..closed \subseteq Recs
    BY SizesTyped DEF TypeInv, SourceTyped
  <2>2. \A f \in aged : recovered[f] \subseteq 1..closed
    BY <1>2, <1>3 DEF DiskTyped
  <2> QED BY <1>2, <2>1, <2>2 DEF TypeInv, RestTyped
<1> QED BY <1>2, <1>8, <1>9, FrameTyped DEF TypeInv, RestTyped

LEMMA CrashTyped ==
  ASSUME TypeInv, Crash
  PROVE  TypeInv'
<1>1. /\ crashes < MaxCrashes /\ crashes' = crashes + 1
      /\ proc' = [p \in Procs |-> IF p \in 1..closed THEN At("done", NoFile, "none", NoJob) ELSE Idle]
      /\ group' = NoGroup /\ inflight' = {}
      /\ UNCHANGED <<source, disk, sent, discarded>>
  BY DEF Crash
<1>2. \A pc \in {"idle", "done"} : /\ At(pc, NoFile, "none", NoJob) \in Goroutine
                                   /\ \A p \in Procs : Named(p, At(pc, NoFile, "none", NoJob))
  BY AtTyped, AtIs DEF MaybeName, PCs, Named
<1>3. ProcTyped(proc')
  BY <1>1, <1>2 DEF ProcTyped, Idle
<1>4. crashes' \in 0..MaxCrashes
  BY <1>1, SizesTyped DEF TypeInv
<1>5. RestTyped'
  BY <1>1 DEF TypeInv, RestTyped, NoGroup, MaybeName
<1>6. SourceTyped' /\ DiskTyped(disk', closed')
  BY <1>1 DEF TypeInv, SourceTyped, source
<1> QED BY <1>3, <1>4, <1>5, <1>6 DEF TypeInv

\* Typing is inductive.
LEMMA NextTyped == TypeInv /\ [Next]_vars => TypeInv'
<1> SUFFICES ASSUME TypeInv, [Next]_vars PROVE TypeInv'
  OBVIOUS
<1>1. CASE Record
  <2>1. PICK why \in Reasons, d \in IF closed < N THEN Lengths[closed + 1] ELSE {} : CloseFile(why, d)
    BY <1>1 DEF Record
  <2> QED BY <2>1, CloseFileTyped
<1>2. CASE FlushPending \/ ProcessPending
  BY <1>2, StartBatchTyped DEF FlushPending, ProcessPending
<1>3. CASE Crash
  BY <1>3, CrashTyped
<1>4. ASSUME NEW r \in Recs, PostProcess(r) PROVE TypeInv'
  <2>1. CASE ProcessPendingFile(r) \/ FinalizeRecording(r) \/ HoldFirst(r) \/ ReleaseHeld(r)
    BY <2>1, ProcessPendingFileTyped, FinalizeRecordingTyped, HoldFirstTyped, ReleaseHeldTyped
  <2>2. CASE FlushSessionEntry(r) \/ MergeTwoFiles(r) \/ Regroup(r) \/ DeliverSession(r) \/ Vanished(r)
    BY <2>2, FlushSessionEntryTyped, MergeTwoFilesTyped, RegroupTyped, DeliverSessionTyped, VanishedTyped
  <2>3. CASE MinDurationLong(r) \/ MinDurationUnread(r) \/ MinDurationShort(r)
    BY <2>3, MinDurationLongTyped, MinDurationUnreadTyped, MinDurationShortTyped
  <2>4. CASE MoveToOutputDir(r) \/ CompressFile(r) \/ Compressed(r) \/ CompressFails(r)
    BY <2>4, MoveToOutputDirTyped, CompressFileTyped, CompressedTyped
  <2> QED BY <1>4, <2>1, <2>2, <2>3, <2>4 DEF PostProcess
<1>5. ASSUME NEW p \in Procs, Work(p) PROVE TypeInv'
  BY <1>5, DeleteInputTyped, PublishOutputTyped, RenameFailsTyped, BeginUploadTyped, EndUploadTyped DEF Work
<1>6. CASE OrphanScan \/ ScanPending(TRUE)
  BY <1>6, ScanMainTyped, RemoveStaleScratchTyped, ScanPendingTyped DEF OrphanScan
<1>7. CASE UNCHANGED vars
  BY <1>7 DEF vars, TypeInv, SourceTyped, RestTyped
<1> QED BY <1>1, <1>2, <1>3, <1>4, <1>5, <1>6, <1>7 DEF Next

\* Every state is typed, whatever fails and whoever crashes.
THEOREM SegmentsTyped == Spec => []TypeOK
<1>1. TypeInv => TypeOK
  <2> SUFFICES ASSUME TypeInv PROVE TypeOK
    OBVIOUS
  <2>1. \A p \in Procs : proc[p].lock \in {"none", "session", "merge"}
    BY ProcIs DEF Goroutine
  <2>2. group.file \in Names \cup {NoFile}
    BY DerivedNames DEF TypeInv, RestTyped
  <2> QED BY <2>1, <2>2 DEF TypeOK, TypeInv, SourceTyped, DiskTyped, RestTyped
<1> QED BY <1>1, InitTyped, NextTyped, PTL DEF Spec

-----------------------------------------------------------------------------
(* Safety.                                                                    *)

TmpKinds == {"finalizing", "sessiontmp", "merging"}
SegKinds == {"pending", "merged"}
ParkKinds == {"pending", "merged", "corrupt"}
Half(r) == File("dir", 3 * r - 1, 0)
JoinTmp(r) == File("sessiontmp", 3 * r, 0)

\* What is known of the runs of the process: how many have ended, and the
\* recordings `old' that were closed before the last one did.  What a run leaves
\* in its scratch is never at work again, and may bear a base of its own.  As
\* long as none has ended, there is one parked file to a base; later a segment
\* may have a namesake in corrupt/.
Parks(e) == IF e.runs = 0 THEN ParkKinds ELSE SegKinds
EpochOK(pr, cl, e) ==
  /\ e.runs \in 0..MaxCrashes /\ e.old \in 0..cl /\ (e.runs = 0 => e.old = 0)
  /\ \A r \in 1..e.old : pr[r].pc = "done"

\* A recording's file, or the joined file named after it, is dead when it is
\* gone and no rename will bring it back; a base name is over when all the
\* files it can name in the recording directory are dead.
Dead(d, pr, f) ==
  /\ f \notin DOMAIN d
  /\ \A p \in Procs : pr[p].pc = "publish" => pr[p].job.dst # f
Over(d, pr, cl, b, e) ==
  \/ \E r \in 1..cl :
        /\ Dead(d, pr, Raw(r))
        /\ b = 3 * r - 2 \/ (b = 3 * r - 1 /\ Dead(d, pr, Half(r)))
  \/ \E r \in 1..e.old : b = 3 * r /\ JoinTmp(r) \notin DOMAIN d

Exclusive(pr) ==
  \A p, q \in Procs : p # q /\ pr[p].lock = pr[q].lock => pr[p].lock = "none"

\* Where each goroutine may be, and what it then holds.
Shape(cl, p, u) ==
  /\ u.pc # "compress"
  /\ p = Scan => \/ u.pc \in {"idle", "done", "orphan", "upload"}
                 \/ u.pc = "publish" /\ u.lock = "merge"
  /\ p # Scan => (u.pc = "idle" <=> p > cl)
  /\ u.pc \in {"idle", "queued", "ready", "encode", "session", "mindur", "done"} => u.lock = "none"
  /\ u.pc \in {"flush", "regroup", "deliver"} => u.lock = "session"
  /\ u.pc \in {"orphan", "upload"} => u.lock = "merge" \/ (p = Scan /\ u.lock = "none")
  /\ u.pc = "egress" => u.file = Raw(p) \/ u.file.kind = "merged"

InSession(u) == u.pc \in {"publish", "regroup", "deliver"} /\ u.lock = "session"
Inputs(u) == Range(u.job.del)

\* A rewrite has its whole output in the scratch, and what bears the name it
\* will publish is among the inputs it still deletes.
PublishOK(d, pr, cl, p, u, e) ==
  u.pc = "publish" =>
    /\ u.job.tmp \in DOMAIN d
    /\ \A g \in Inputs(u) : g \in DOMAIN d => d[g] \subseteq d[u.job.tmp]
    /\ \A g \in DOMAIN d :
          g.kind \in {"dir"} \cup Parks(e) /\ g.base = u.job.dst.base => g \in Inputs(u)
    /\ u.lock = "none" =>
          /\ u.job.tmp = File("finalizing", 3 * p - 2, 0) /\ u.job.dst = Raw(p)
          /\ u.job.then = "session" /\ Inputs(u) \subseteq {Raw(p)} /\ d[u.job.tmp] = {p}
    /\ u.lock = "merge" =>
          /\ u.job.tmp = File("merging", u.job.dst.base, e.runs + 1) /\ u.job.dst.kind = "merged"
          /\ Over(d, pr, cl, u.job.dst.base, e)
          /\ u.job.then \in {"egress", "done", "orphan"} /\ (p = Scan => u.job.then # "egress")
          /\ \A g \in Inputs(u) : \/ p # Scan /\ g = Raw(p)
                                  \/ g.kind \in SegKinds /\ Over(d, pr, cl, g.base, e)

\* A session merge joins the recording p to what recording r began, which is
\* done; nobody uploads the file the merge will make.
SessionOK(d, pr, cl, p, u, e) ==
  InSession(u) =>
    \E r \in 1..cl :
       /\ r # p /\ r > e.old /\ pr[r].pc = "done" /\ u.job.dst = Half(r)
       /\ pr[Scan].pc \in {"orphan", "upload"} => pr[Scan].file # Half(r)
       /\ Raw(r) \in DOMAIN d => u.pc = "publish" /\ Raw(r) \in Inputs(u)
       /\ u.pc = "publish" =>
             /\ u.job.tmp = File("sessiontmp", 3 * r, 0) /\ u.job.then \in {"regroup", "deliver"}
             /\ Inputs(u) \subseteq {Raw(r), Half(r), Raw(p)}
       /\ u.pc # "publish" => u.file = Half(r)

\* An upload holds at least what its file holds when it is removed.
UploadOK(d, pr, cl, p, u, e) ==
  /\ u.pc \in {"orphan", "upload"} =>
        \/ u.file.kind \in SegKinds /\ u.lock = "merge" /\ Over(d, pr, cl, u.file.base, e)
        \/ p = Scan /\ \E r \in 1..cl : u.file = Raw(r) \/ (u.file = Half(r) /\ Dead(d, pr, Raw(r)))
        \/ p = Scan /\ \E r \in 1..e.old : u.file = JoinTmp(r)
  /\ u.pc = "upload" =>
        /\ u.file \in DOMAIN d => d[u.file] \subseteq u.held
        /\ \A r \in 1..cl : u.file = Raw(r) => r \in u.held

\* Scratch belongs to a rewrite or was left by one that died; what is parked has
\* a base name that is over, and there is one segment to a base; a recording's
\* own file holds that recording.
Owned(pr, f) == \E p \in Procs : pr[p].pc = "publish" /\ pr[p].job.tmp = f
LeftOver(d, pr, cl, f, e) ==
  \/ \E r \in 1..e.old : f = File("finalizing", 3 * r - 2, 0) \/ f = JoinTmp(r)
  \/ f.kind = "merging" /\ e.runs # 0 /\ f.run <= e.runs /\ Over(d, pr, cl, f.base, e)
FilesOK(d, pr, cl, e) ==
  /\ \A f \in DOMAIN d :
        /\ f.kind = "dir" => \E r \in 1..cl : f = Raw(r) \/ f = Half(r)
        /\ f.kind \in TmpKinds => Owned(pr, f) \/ LeftOver(d, pr, cl, f, e)
        /\ f.kind \in ParkKinds => Over(d, pr, cl, f.base, e)
  /\ \A f, g \in DOMAIN d :
        f.kind \in Parks(e) /\ g.kind \in Parks(e) /\ f.base = g.base => f = g
  /\ \A r \in 1..cl : /\ Raw(r) \in DOMAIN d => d[Raw(r)] = {r}
                      /\ Half(r) \in DOMAIN d => Dead(d, pr, Raw(r))

Good(d, pr, cl, e) ==
  /\ DiskTyped(d, cl) /\ ProcTyped(pr) /\ cl \in 0..N
  /\ Exclusive(pr) /\ EpochOK(pr, cl, e)
  /\ FilesOK(d, pr, cl, e)
  /\ \A p \in Procs : /\ Shape(cl, p, pr[p])
                      /\ PublishOK(d, pr, cl, p, pr[p], e)
                      /\ SessionOK(d, pr, cl, p, pr[p], e)
                      /\ UploadOK(d, pr, cl, p, pr[p], e)

\* The names recording r gives: its own, and that of what is joined to it.
LEMMA OwnNames ==
  ASSUME NEW r \in Int
  PROVE  /\ Raw(r).kind = "dir" /\ Raw(r).base = 3 * r - 2 /\ Raw(r).run = 0
         /\ Half(r).kind = "dir" /\ Half(r).base = 3 * r - 1 /\ Half(r).run = 0
BY FileIs DEF Raw, Half

\* No two recordings share a name.
LEMMA OwnNamesDiffer ==
  /\ \A r, s \in Int : (Raw(r) = Raw(s) => r = s) /\ (Half(r) = Half(s) => r = s) /\ Raw(r) # Half(s)
  /\ \A r, s \in Int : 3 * r - 2 # 3 * s - 1 /\ (3 * r - 2 = 3 * s - 2 => r = s) /\ (3 * r - 1 = 3 * s - 1 => r = s)
<1>1. \A r, s \in Int : 3 * r - 2 # 3 * s - 1 /\ (3 * r - 2 = 3 * s - 2 => r = s) /\ (3 * r - 1 = 3 * s - 1 => r = s)
  OBVIOUS
<1>2. ASSUME NEW r \in Int, NEW s \in Int
      PROVE  (Raw(r) = Raw(s) => r = s) /\ (Half(r) = Half(s) => r = s) /\ Raw(r) # Half(s)
  <2>1. /\ Raw(r).base = 3 * r - 2 /\ Half(r).base = 3 * r - 1
        /\ Raw(s).base = 3 * s - 2 /\ Half(s).base = 3 * s - 1
    BY OwnNames
  <2> QED BY <1>1, <2>1
<1> QED BY <1>1, <1>2

LEMMA Numbers ==
  ASSUME NEW cl \in 0..N, NEW r \in 1..cl
  PROVE  /\ r \in Int /\ r \in Recs /\ r \in Procs /\ r # Scan
         /\ Raw(r).kind = "dir" /\ Half(r).kind = "dir"
<1>1. r \in Int /\ r \in Recs
  BY SizesTyped
<1> QED BY <1>1, SizesTyped, OwnNames

LEMMA JoinTmpIs ==
  /\ \A r : JoinTmp(r).kind = "sessiontmp" /\ JoinTmp(r).base = 3 * r /\ JoinTmp(r).run = 0
  /\ \A r, s \in Int : 3 * r # 3 * s - 2 /\ 3 * r # 3 * s - 1 /\ (3 * r = 3 * s => r = s)
BY FileIs DEF JoinTmp

\* What a name over in this sense excludes.
LEMMA OverIs ==
  ASSUME NEW e, NEW d, NEW pr, NEW cl \in 0..N, NEW r \in 1..cl
  PROVE  /\ Over(d, pr, cl, 3 * r - 2, e) <=> Dead(d, pr, Raw(r))
         /\ Over(d, pr, cl, 3 * r - 1, e) <=> Dead(d, pr, Raw(r)) /\ Dead(d, pr, Half(r))
<1>1. \A s \in 1..cl : s \in Int /\ r \in Int
  BY SizesTyped
<1>2. Over(d, pr, cl, 3 * r - 2, e) <=> Dead(d, pr, Raw(r))
  BY <1>1, OwnNamesDiffer DEF Over
<1>3. Over(d, pr, cl, 3 * r - 1, e) <=> Dead(d, pr, Raw(r)) /\ Dead(d, pr, Half(r))
  BY <1>1, OwnNamesDiffer DEF Over
<1> QED BY <1>2, <1>3

\* A base name that a file of the recording directory bears is not over.
LEMMA AliveNotOver ==
  ASSUME NEW e, NEW d, NEW pr, NEW cl, Good(d, pr, cl, e), NEW g \in DOMAIN d, g.kind = "dir"
  PROVE  ~Over(d, pr, cl, g.base, e)
<1>1. PICK r \in 1..cl : g = Raw(r) \/ g = Half(r)
  BY DEF Good, FilesOK
<1>2. r \in Int /\ cl \in 0..N
  BY SizesTyped DEF Good
<1>3. (g = Raw(r) => g.base = 3 * r - 2) /\ (g = Half(r) => g.base = 3 * r - 1)
  BY <1>2, OwnNames
<1>4. ~Dead(d, pr, g)
  BY DEF Dead
<1> QED BY <1>1, <1>2, <1>3, <1>4, OverIs

\* What is known of the past stays so while who is done stays done.
LEMMA EpochStays ==
  ASSUME NEW e, NEW pr, NEW pr2, NEW cl \in 0..N, NEW cl2 \in 0..N, cl <= cl2, EpochOK(pr, cl, e),
         \A r \in 1..cl : pr[r].pc = "done" => pr2[r].pc = "done"
  PROVE  EpochOK(pr2, cl2, e)
<1>1. e.old \in 0..cl2 /\ \A r \in 1..e.old : r \in 1..cl
  BY SizesTyped DEF EpochOK
<1> QED BY <1>1 DEF EpochOK

\* Nor is that of the scratch of a session's merge.
LEMMA JoinTmpNotOver ==
  ASSUME NEW e, NEW d, NEW pr, NEW cl, Good(d, pr, cl, e), NEW r \in 1..cl, JoinTmp(r) \in DOMAIN d
  PROVE  ~Over(d, pr, cl, 3 * r, e)
<1>1. cl \in 0..N /\ e.old \in 0..cl
  BY DEF Good, EpochOK
<1>2. r \in Int /\ (\A s \in 1..cl : s \in Int) /\ \A s \in 1..e.old : s \in Int
  BY <1>1, SizesTyped
<1> QED BY <1>2, JoinTmpIs DEF Over

\* Scratch that no rewrite owns was left behind.
LEMMA LeftOverIs ==
  ASSUME NEW e, NEW d, NEW pr, NEW cl, Good(d, pr, cl, e), NEW g \in DOMAIN d,
         g.kind \in TmpKinds, ~Owned(pr, g)
  PROVE  /\ e.runs # 0
         /\ g.kind = "sessiontmp" => \E r \in 1..e.old : r \in 1..cl /\ g = JoinTmp(r)
         /\ g.kind = "sessiontmp" => ~Over(d, pr, cl, g.base, e)
         /\ g.kind = "finalizing" => \E r \in 1..e.old : g = File("finalizing", 3 * r - 2, 0)
         /\ g.kind = "merging" => g.run <= e.runs /\ Over(d, pr, cl, g.base, e)
<1>1. LeftOver(d, pr, cl, g, e) /\ EpochOK(pr, cl, e) /\ cl \in 0..N
  BY DEF Good, FilesOK
<1>2. e.runs = 0 => \A r : r \notin 1..e.old
  BY <1>1 DEF EpochOK
<1>3. \A r \in 1..e.old : r \in 1..cl
  BY <1>1, SizesTyped DEF EpochOK
<1>4. \A b, c : File("finalizing", b, c).kind = "finalizing"
  BY FileIs
<1>5. g.kind = "sessiontmp" => \E r \in 1..e.old : r \in 1..cl /\ g = JoinTmp(r)
  BY <1>1, <1>3, <1>4 DEF LeftOver
<1>6. g.kind = "sessiontmp" => ~Over(d, pr, cl, g.base, e)
  BY <1>5, JoinTmpIs, JoinTmpNotOver
<1>7. g.kind = "finalizing" => \E r \in 1..e.old : g = File("finalizing", 3 * r - 2, 0)
  BY <1>1, JoinTmpIs DEF LeftOver
<1>8. g.kind = "merging" => e.runs # 0 /\ g.run <= e.runs /\ Over(d, pr, cl, g.base, e)
  BY <1>1, <1>4, JoinTmpIs DEF LeftOver
<1>9. e.runs # 0
  BY <1>2, <1>5, <1>7, <1>8 DEF TmpKinds
<1> QED BY <1>5, <1>6, <1>7, <1>8, <1>9

\* What a rewrite will publish: a name of the recording directory that is not
\* over, or a merged segment whose base is.
LEMMA OutputName ==
  ASSUME NEW e, NEW d, NEW pr, NEW cl, Good(d, pr, cl, e), NEW p \in Procs, pr[p].pc = "publish"
  PROVE  /\ \/ pr[p].lock # "merge" /\ pr[p].job.dst.kind = "dir" /\ ~Over(d, pr, cl, pr[p].job.dst.base, e)
            \/ pr[p].lock = "merge" /\ pr[p].job.dst.kind = "merged" /\ Over(d, pr, cl, pr[p].job.dst.base, e)
         /\ pr[p].job.dst \in Names
         /\ pr[p].lock # "merge" => \E r \in 1..cl : pr[p].job.dst = Raw(r) \/ pr[p].job.dst = Half(r)
<1>1. /\ PublishOK(d, pr, cl, p, pr[p], e) /\ SessionOK(d, pr, cl, p, pr[p], e) /\ Shape(cl, p, pr[p])
      /\ pr[p] \in Goroutine /\ pr[p].job.dst \in Names /\ cl \in 0..N
  BY DEF Good, ProcTyped, Named
<1>2. ~Dead(d, pr, pr[p].job.dst)
  BY DEF Dead
<1>3. CASE pr[p].lock = "merge"
  BY <1>1, <1>3 DEF PublishOK
<1>4. CASE pr[p].lock = "none"
  <2>1. pr[p].job.dst = Raw(p) /\ p # Scan
    BY <1>1, <1>4 DEF PublishOK, Shape
  <2>2. p \in Int /\ p \in 1..cl
    BY <1>1, <2>1, SizesTyped DEF Shape
  <2> QED BY <1>1, <1>2, <1>4, <2>1, <2>2, OwnNames, OverIs
<1>5. CASE pr[p].lock = "session"
  <2>1. PICK r \in 1..cl : pr[p].job.dst = Half(r)
    BY <1>1, <1>5 DEF SessionOK, InSession
  <2>2. r \in Int
    BY <1>1, SizesTyped
  <2> QED BY <1>1, <1>2, <1>5, <2>1, <2>2, OwnNames, OverIs
<1> QED BY <1>1, <1>3, <1>4, <1>5 DEF Goroutine

\* Every input of a rewrite is a file of the recording directory or a segment
\* whose base is over.
LEMMA InputName ==
  ASSUME NEW e, NEW d, NEW pr, NEW cl, Good(d, pr, cl, e), NEW p \in Procs, pr[p].pc = "publish",
         NEW g \in Inputs(pr[p])
  PROVE  \/ g.kind = "dir"
         \/ pr[p].lock = "merge" /\ g.kind \in SegKinds /\ Over(d, pr, cl, g.base, e)
<1>1. /\ PublishOK(d, pr, cl, p, pr[p], e) /\ SessionOK(d, pr, cl, p, pr[p], e)
      /\ pr[p] \in Goroutine /\ cl \in 0..N
  BY DEF Good, ProcTyped
<1>2. p \in Int /\ \A r \in 1..cl : r \in Int
  BY <1>1, SizesTyped DEF Scan
<1>3. CASE pr[p].lock = "merge"
  BY <1>1, <1>2, <1>3, OwnNames DEF PublishOK
<1>4. CASE pr[p].lock = "none"
  BY <1>1, <1>2, <1>4, OwnNames DEF PublishOK
<1>5. CASE pr[p].lock = "session"
  <2>1. PICK r \in 1..cl : Inputs(pr[p]) \subseteq {Raw(r), Half(r), Raw(p)}
    BY <1>1, <1>5 DEF SessionOK, InSession
  <2> QED BY <1>2, <2>1, OwnNames
<1> QED BY <1>1, <1>3, <1>4, <1>5 DEF Goroutine

\* What is dead stays dead, and so what is over stays over.
Lasting(d, pr, cl, d2, pr2, e) ==
  /\ \A r \in 1..cl :
        Dead(d, pr, Raw(r)) => /\ Dead(d2, pr2, Raw(r))
                               /\ Dead(d, pr, Half(r)) => Dead(d2, pr2, Half(r))
  /\ \A r \in 1..e.old : JoinTmp(r) \notin DOMAIN d => JoinTmp(r) \notin DOMAIN d2

\* What is over stays over if what is dead stays dead.
LEMMA OverLasts ==
  ASSUME NEW e, NEW d, NEW pr, NEW d2, NEW pr2, NEW cl \in 0..N, NEW cl2 \in 0..N, cl <= cl2,
         Lasting(d, pr, cl, d2, pr2, e), NEW b, Over(d, pr, cl, b, e)
  PROVE  Over(d2, pr2, cl2, b, e)
<1>1. CASE \E r \in 1..e.old : b = 3 * r /\ JoinTmp(r) \notin DOMAIN d
  BY <1>1 DEF Over, Lasting
<1>2. ASSUME NEW r \in 1..cl, Dead(d, pr, Raw(r)),
             b = 3 * r - 2 \/ (b = 3 * r - 1 /\ Dead(d, pr, Half(r)))
      PROVE  Over(d2, pr2, cl2, b, e)
  <2>1. r \in 1..cl2
    BY SizesTyped
  <2> QED BY <1>2, <2>1 DEF Over, Lasting
<1> QED BY <1>1, <1>2 DEF Over

\* A file is removed, parked when nothing will publish it again, moved to
\* corrupt/ while no merge of segments is at work, or a merge's scratch left by
\* a process that died becomes the only segment.
Taken(d, pr, f, g, e) ==
  /\ f.base = g.base
  /\ \/ /\ g.kind = "dir" /\ f.kind = "pending"
        /\ \A q \in Procs : pr[q].pc = "publish" => pr[q].job.dst # g
     \/ /\ g.kind = "sessiontmp" /\ f.kind = "pending" /\ ~Owned(pr, g)
     \/ /\ g.kind \in SegKinds /\ f.kind = "corrupt" /\ f = Corrupt(g)
        /\ \A q \in Procs : pr[q].lock # "merge"
     \/ /\ g.kind = "merging" /\ f.kind = "merged" /\ Segments(d) = {}
        /\ \A q \in Procs : pr[q].lock # "merge"

\* Another file may be replaced in corrupt/ only.
Tidies(d, pr, d2, e) ==
  /\ \A f \in DOMAIN d2 :
        \/ f \in DOMAIN d /\ d2[f] = d[f]
        \/ /\ f \notin DOMAIN d \/ (f.kind = "corrupt" /\ e.runs # 0)
           /\ \E g \in DOMAIN d \ DOMAIN d2 : Taken(d, pr, f, g, e) /\ d2[f] = d[g]
  /\ \A f \in DOMAIN d : Owned(pr, f) => f \in DOMAIN d2

\* Tidying brings nothing back.
LEMMA TidyLasts ==
  ASSUME NEW e, NEW d, NEW pr, NEW cl, Good(d, pr, cl, e), NEW d2, Tidies(d, pr, d2, e)
  PROVE  /\ \A f : f.kind = "dir" /\ f \in DOMAIN d2 => f \in DOMAIN d
         /\ \A f : f.kind = "dir" /\ Dead(d, pr, f) => Dead(d2, pr, f)
         /\ Lasting(d, pr, cl, d2, pr, e)
         /\ \A b : Over(d, pr, cl, b, e) => Over(d2, pr, cl, b, e)
<1>1. \A f : f.kind = "dir" /\ f \in DOMAIN d2 => f \in DOMAIN d
  BY DEF Tidies, Taken
<1>2. \A f : f.kind = "dir" /\ Dead(d, pr, f) => Dead(d2, pr, f)
  BY <1>1 DEF Dead
<1>3. cl \in 0..N /\ \A r \in 1..cl : Raw(r).kind = "dir" /\ Half(r).kind = "dir"
  BY Numbers DEF Good
<1>4. Lasting(d, pr, cl, d2, pr, e)
  <2>1. \A r \in 1..e.old : JoinTmp(r) \notin DOMAIN d => JoinTmp(r) \notin DOMAIN d2
    BY JoinTmpIs DEF Tidies, Taken
  <2> QED BY <1>2, <1>3, <2>1 DEF Lasting
<1>5. \A b : Over(d, pr, cl, b, e) => Over(d2, pr, cl, b, e)
  BY <1>3, <1>4, OverLasts
<1> QED BY <1>1, <1>2, <1>4, <1>5

\* While nobody merges segments, no merge owns its scratch.
LEMMA MergeScratchLeft ==
  ASSUME NEW e, NEW d, NEW pr, NEW cl, Good(d, pr, cl, e), \A q \in Procs : pr[q].lock # "merge",
         NEW g, g.kind = "merging"
  PROVE  ~Owned(pr, g)
<1> SUFFICES ASSUME NEW q \in Procs, pr[q].pc = "publish", pr[q].job.tmp = g PROVE FALSE
  BY DEF Owned
<1>1. PublishOK(d, pr, cl, q, pr[q], e) /\ SessionOK(d, pr, cl, q, pr[q], e) /\ pr[q] \in Goroutine
  BY DEF Good, ProcTyped
<1>2. pr[q].lock \in {"none", "session"}
  BY <1>1 DEF Goroutine
<1>3. g.kind \in {"finalizing", "sessiontmp"}
  BY <1>1, <1>2, FileIs DEF PublishOK, SessionOK, InSession
<1> QED BY <1>3

\* What takes another's place, and whether their base was over.
LEMMA TakenFrom ==
  ASSUME NEW e, NEW d, NEW pr, NEW cl, Good(d, pr, cl, e), NEW g \in DOMAIN d, NEW f, Taken(d, pr, f, g, e)
  PROVE  /\ f.base = g.base
         /\ \/ g.kind \in {"dir", "sessiontmp"} /\ f.kind = "pending" /\ ~Over(d, pr, cl, f.base, e)
            \/ /\ g.kind \in SegKinds /\ f = Corrupt(g) /\ f.kind = "corrupt" /\ Over(d, pr, cl, f.base, e)
               /\ \A q \in Procs : pr[q].lock # "merge"
            \/ /\ g.kind = "merging" /\ f.kind = "merged" /\ Over(d, pr, cl, f.base, e)
               /\ Segments(d) = {} /\ e.runs # 0 /\ \A q \in Procs : pr[q].lock # "merge"
<1>1. f.base = g.base /\ FilesOK(d, pr, cl, e)
  BY DEF Taken, Good
<1>2. CASE g.kind = "dir" /\ f.kind = "pending"
  BY <1>1, <1>2, AliveNotOver
<1>3. CASE g.kind = "sessiontmp" /\ f.kind = "pending" /\ ~Owned(pr, g)
  BY <1>1, <1>3, LeftOverIs DEF TmpKinds
<1>4. CASE /\ g.kind \in SegKinds /\ f.kind = "corrupt" /\ f = Corrupt(g)
           /\ \A q \in Procs : pr[q].lock # "merge"
  BY <1>1, <1>4 DEF FilesOK, SegKinds, ParkKinds
<1>5. CASE /\ g.kind = "merging" /\ f.kind = "merged" /\ Segments(d) = {}
           /\ \A q \in Procs : pr[q].lock # "merge"
  <2>1. ~Owned(pr, g)
    BY <1>5, MergeScratchLeft
  <2> QED BY <1>1, <1>5, <2>1, LeftOverIs DEF TmpKinds
<1> QED BY <1>1, <1>2, <1>3, <1>4, <1>5 DEF Taken

\* The file that takes a parked one's place meets nobody.
LEMMA TakenMeets ==
  ASSUME NEW e, NEW d, NEW pr, NEW cl, Good(d, pr, cl, e), NEW d2, Tidies(d, pr, d2, e),
         NEW f \in DOMAIN d2, NEW g \in DOMAIN d \ DOMAIN d2, Taken(d, pr, f, g, e)
  PROVE  /\ Over(d2, pr, cl, f.base, e)
         /\ f.kind \in ParkKinds
         /\ \A q \in Procs : pr[q].pc = "publish" => pr[q].job.dst.base # f.base /\ f \notin Inputs(pr[q])
         /\ \A q \in Procs : pr[q].pc \in {"orphan", "upload"} => pr[q].file # f
<1>1. FilesOK(d, pr, cl, e) /\ cl \in 0..N /\ DiskTyped(d, cl) /\ EpochOK(pr, cl, e)
  BY DEF Good
<1>2. f.base = g.base
  BY TakenFrom
<1>3. \/ g.kind \in {"dir", "sessiontmp"} /\ f.kind = "pending" /\ ~Over(d, pr, cl, f.base, e)
      \/ /\ f.kind \in {"corrupt", "merged"} /\ Over(d, pr, cl, f.base, e)
         /\ \A q \in Procs : pr[q].lock # "merge"
  BY TakenFrom
<1>4. g.kind = "sessiontmp" => \E r \in 1..e.old : r \in 1..cl /\ g = JoinTmp(r)
  BY LeftOverIs DEF Taken, TmpKinds, SegKinds
<1>5. Over(d2, pr, cl, f.base, e)
  <2>1. CASE Over(d, pr, cl, f.base, e)
    BY <2>1, TidyLasts
  <2>2. CASE g.kind = "dir"
    <3>1. PICK r \in 1..cl : g = Raw(r) \/ g = Half(r)
      BY <1>1, <2>2 DEF FilesOK
    <3>2. r \in Int
      BY <1>1, SizesTyped
    <3>3. Dead(d2, pr, g)
      BY <2>2 DEF Dead, Taken, SegKinds
    <3>4. CASE g = Raw(r)
      BY <1>1, <1>2, <3>2, <3>3, <3>4, OwnNames, OverIs
    <3>5. CASE g = Half(r)
      <4>1. Dead(d, pr, Raw(r))
        BY <1>1, <3>5 DEF FilesOK
      <4>2. Dead(d2, pr, Raw(r))
        BY <3>2, <4>1, OwnNames, TidyLasts
      <4> QED BY <1>1, <1>2, <3>2, <3>3, <3>5, <4>2, OwnNames, OverIs
    <3> QED BY <3>1, <3>4, <3>5
  <2>3. CASE g.kind = "sessiontmp"
    <3>1. PICK r \in 1..e.old : g = JoinTmp(r)
      BY <1>4, <2>3
    <3>2. f.base = 3 * r
      BY <1>2, <3>1, JoinTmpIs
    <3> QED BY <3>1, <3>2 DEF Over
  <2> QED BY <1>3, <2>1, <2>2, <2>3
<1>6. ASSUME NEW q \in Procs, pr[q].pc = "publish"
      PROVE  pr[q].job.dst.base # f.base /\ f \notin Inputs(pr[q])
  <2> DEFINE dst == pr[q].job.dst
  <2>1. \/ pr[q].lock # "merge" /\ dst.kind = "dir" /\ ~Over(d, pr, cl, dst.base, e)
        \/ pr[q].lock = "merge" /\ dst.kind = "merged" /\ Over(d, pr, cl, dst.base, e)
    BY <1>6, OutputName
  <2>2. dst \in Names /\ g \in Names
    BY <1>1, <1>6, OutputName DEF DiskTyped
  <2>3. f \in Inputs(pr[q]) => f.kind = "dir" \/ (pr[q].lock = "merge" /\ Over(d, pr, cl, f.base, e))
    BY <1>6, InputName
  <2>4. f \notin Inputs(pr[q])
    BY <1>3, <2>3
  <2>5. CASE Over(d, pr, cl, f.base, e)
    BY <1>3, <2>1, <2>4, <2>5
  <2>6. CASE g.kind = "dir" /\ ~Over(d, pr, cl, f.base, e)
    <3>1. dst # g
      BY <1>6, <2>6 DEF Taken, SegKinds
    <3>2. dst.base = g.base /\ dst.kind = "dir" => dst = g
      BY <2>2, <2>6, NameIs
    <3> QED BY <1>2, <2>1, <2>4, <2>6, <3>1, <3>2
  <2>7. CASE g.kind = "sessiontmp" /\ ~Over(d, pr, cl, f.base, e)
    <3>1. PICK r \in 1..cl : g = JoinTmp(r)
      BY <1>4, <2>7
    <3>2. f.base = 3 * r /\ r \in Int
      BY <1>1, <1>2, <3>1, JoinTmpIs, SizesTyped
    <3>3. CASE pr[q].lock # "merge"
      <4>1. PICK s \in 1..cl : dst = Raw(s) \/ dst = Half(s)
        BY <1>6, <3>3, OutputName
      <4>2. s \in Int
        BY <1>1, SizesTyped
      <4>3. dst.base \in {3 * s - 2, 3 * s - 1}
        BY <4>1, <4>2, OwnNames
      <4> QED BY <2>4, <3>2, <4>2, <4>3, JoinTmpIs
    <3> QED BY <2>1, <2>4, <2>7, <3>3
  <2> QED BY <1>3, <2>5, <2>6, <2>7
<1>7. ASSUME NEW q \in Procs, pr[q].pc \in {"orphan", "upload"}, pr[q].file = f PROVE FALSE
  <2>1. UploadOK(d, pr, cl, q, pr[q], e)
    BY DEF Good
  <2>2. \A r \in 1..cl : Raw(r).kind = "dir" /\ Half(r).kind = "dir"
    BY <1>1, Numbers
  <2>3. f.kind \in SegKinds /\ pr[q].lock = "merge" /\ Over(d, pr, cl, f.base, e)
    BY <1>3, <1>7, <2>1, <2>2, JoinTmpIs DEF UploadOK
  <2> QED BY <1>3, <2>3
<1> QED BY <1>3, <1>5, <1>6, <1>7 DEF ParkKinds

\* Tidying keeps the files in order.
LEMMA TidyFiles ==
  ASSUME NEW e, NEW d, NEW pr, NEW cl, Good(d, pr, cl, e), NEW d2, DiskTyped(d2, cl), Tidies(d, pr, d2, e)
  PROVE  FilesOK(d2, pr, cl, e)
<1>1. FilesOK(d, pr, cl, e) /\ cl \in 0..N
  BY DEF Good
<1>2. ASSUME NEW f \in DOMAIN d2
      PROVE  /\ f.kind = "dir" => \E r \in 1..cl : f = Raw(r) \/ f = Half(r)
             /\ f.kind \in TmpKinds => Owned(pr, f) \/ LeftOver(d2, pr, cl, f, e)
             /\ f.kind \in ParkKinds => Over(d2, pr, cl, f.base, e)
  <2>1. CASE f \in DOMAIN d
    <3>1. LeftOver(d, pr, cl, f, e) => LeftOver(d2, pr, cl, f, e)
      BY TidyLasts DEF LeftOver
    <3> QED BY <1>1, <2>1, <3>1, TidyLasts DEF FilesOK
  <2>2. CASE f \notin DOMAIN d
    <3>1. PICK g \in DOMAIN d \ DOMAIN d2 : Taken(d, pr, f, g, e)
      BY <2>2 DEF Tidies
    <3>2. Over(d2, pr, cl, f.base, e) /\ f.kind \in ParkKinds
      BY <3>1, TakenMeets
    <3> QED BY <3>2 DEF TmpKinds, ParkKinds
  <2> QED BY <2>1, <2>2
<1>a. ASSUME NEW x \in DOMAIN d2, x \notin DOMAIN d
      PROVE  \E h \in DOMAIN d \ DOMAIN d2 : x.base = h.base /\ Taken(d, pr, x, h, e)
  BY <1>a DEF Tidies, Taken
<1>b. SegKinds \subseteq Parks(e) /\ Parks(e) \subseteq ParkKinds /\ ("corrupt" \in Parks(e) <=> e.runs = 0)
  BY DEF Parks, SegKinds, ParkKinds
<1>3. ASSUME NEW f \in DOMAIN d2, NEW g \in DOMAIN d2,
             f.kind \in Parks(e), g.kind \in Parks(e), f.base = g.base
      PROVE  f = g
  <2>1. CASE f \in DOMAIN d /\ g \in DOMAIN d
    BY <1>1, <1>3, <2>1 DEF FilesOK
  <2>2. ASSUME NEW x \in DOMAIN d2, NEW y \in DOMAIN d2, x \notin DOMAIN d, y \in DOMAIN d,
               x.kind \in Parks(e), y.kind \in Parks(e), x.base = y.base
        PROVE  FALSE
    <3>1. PICK h \in DOMAIN d \ DOMAIN d2 : x.base = h.base /\ Taken(d, pr, x, h, e)
      BY <1>a, <2>2
    <3>2. Over(d, pr, cl, x.base, e)
      BY <1>1, <1>b, <2>2 DEF FilesOK
    <3>3. \/ h.kind \in SegKinds /\ x.kind = "corrupt"
          \/ h.kind = "merging" /\ Segments(d) = {} /\ e.runs # 0
      BY <3>1, <3>2, TakenFrom
    <3>4. CASE h.kind \in SegKinds /\ x.kind = "corrupt"
      <4>1. h.kind \in Parks(e) /\ h.base = y.base
        BY <1>b, <2>2, <3>1, <3>4
      <4>2. h = y
        BY <1>1, <2>2, <4>1 DEF FilesOK
      <4> QED BY <2>2, <4>2
    <3>5. CASE h.kind = "merging" /\ Segments(d) = {} /\ e.runs # 0
      BY <2>2, <3>5 DEF Segments, Parks, SegKinds
    <3> QED BY <3>3, <3>4, <3>5
  <2>3. CASE f \notin DOMAIN d /\ g \notin DOMAIN d
    <3>1. PICK h \in DOMAIN d \ DOMAIN d2 : f.base = h.base /\ Taken(d, pr, f, h, e)
      BY <1>a, <2>3
    <3>2. PICK i \in DOMAIN d \ DOMAIN d2 : g.base = i.base /\ Taken(d, pr, g, i, e)
      BY <1>a, <2>3
    <3>3. \/ f.kind = "pending" /\ ~Over(d, pr, cl, f.base, e)
          \/ h.kind \in SegKinds /\ f = Corrupt(h) /\ f.kind = "corrupt" /\ Over(d, pr, cl, f.base, e)
          \/ f.kind = "merged" /\ e.runs # 0 /\ Over(d, pr, cl, f.base, e)
      BY <3>1, TakenFrom
    <3>4. \/ g.kind = "pending" /\ ~Over(d, pr, cl, g.base, e)
          \/ i.kind \in SegKinds /\ g = Corrupt(i) /\ g.kind = "corrupt" /\ Over(d, pr, cl, g.base, e)
          \/ g.kind = "merged" /\ e.runs # 0 /\ Over(d, pr, cl, g.base, e)
      BY <3>2, TakenFrom
    <3>5. CASE f.kind = "corrupt"
      <4>1. g.kind = "corrupt"
        BY <1>3, <1>b, <3>3, <3>4, <3>5
      <4>2. h.kind \in Parks(e) /\ i.kind \in Parks(e) /\ h.base = i.base
        BY <1>3, <1>b, <3>1, <3>2, <3>3, <3>4, <3>5, <4>1
      <4>3. h = i
        BY <1>1, <4>2 DEF FilesOK
      <4> QED BY <3>3, <3>4, <3>5, <4>1, <4>3
    <3>6. CASE f.kind # "corrupt"
      <4>1. f.kind = g.kind /\ f.kind \in SegKinds /\ f \in Names /\ g \in Names
        BY <1>3, <1>b, <3>3, <3>4, <3>6 DEF SegKinds, DiskTyped
      <4> QED BY <1>3, <4>1, NameIs DEF SegKinds
    <3> QED BY <3>5, <3>6
  <2> QED BY <1>3, <2>1, <2>2, <2>3
<1>4. ASSUME NEW r \in 1..cl
      PROVE  /\ Raw(r) \in DOMAIN d2 => d2[Raw(r)] = {r}
             /\ Half(r) \in DOMAIN d2 => Dead(d2, pr, Raw(r))
  <2>1. Raw(r).kind = "dir" /\ Half(r).kind = "dir"
    BY <1>1, Numbers
  <2>2. \A f \in DOMAIN d2 : f.kind = "dir" => f \in DOMAIN d /\ d2[f] = d[f]
    BY DEF Tidies, Taken
  <2> QED BY <1>1, <2>1, <2>2, TidyLasts DEF FilesOK
<1>5. \A f, g \in DOMAIN d2 : f.kind \in Parks(e) /\ g.kind \in Parks(e) /\ f.base = g.base => f = g
  BY <1>3
<1> QED BY <1>2, <1>4, <1>5 DEF FilesOK

\* Tidying keeps all the rest in order too.
LEMMA TidyOK ==
  ASSUME NEW e, NEW d, NEW pr, NEW cl, Good(d, pr, cl, e), NEW d2, DiskTyped(d2, cl), Tidies(d, pr, d2, e)
  PROVE  Good(d2, pr, cl, e)
<1>1. /\ FilesOK(d, pr, cl, e) /\ cl \in 0..N
      /\ \A r \in 1..cl : r \in Int /\ Raw(r).kind = "dir" /\ Half(r).kind = "dir"
  BY Numbers DEF Good
<1>2. /\ \A f : f.kind = "dir" /\ f \in DOMAIN d2 => f \in DOMAIN d
      /\ \A f : f.kind = "dir" /\ Dead(d, pr, f) => Dead(d2, pr, f)
      /\ \A b : Over(d, pr, cl, b, e) => Over(d2, pr, cl, b, e)
  BY TidyLasts
<1>3. ASSUME NEW f \in DOMAIN d2, f \notin DOMAIN d
      PROVE  /\ \A q \in Procs : pr[q].pc = "publish" =>
                    pr[q].job.dst.base # f.base /\ f \notin Inputs(pr[q])
             /\ \A q \in Procs : pr[q].pc \in {"orphan", "upload"} => pr[q].file # f
  <2>1. PICK g \in DOMAIN d \ DOMAIN d2 : Taken(d, pr, f, g, e)
    BY <1>3 DEF Tidies
  <2> QED BY <2>1, TakenMeets
<1>4. \A f \in DOMAIN d2 : f \in DOMAIN d /\ f.kind # "corrupt" => d2[f] = d[f]
  BY DEF Tidies
<1>5. ASSUME NEW p \in Procs PROVE PublishOK(d2, pr, cl, p, pr[p], e)
  <2> SUFFICES ASSUME pr[p].pc = "publish" PROVE PublishOK(d2, pr, cl, p, pr[p], e)
    BY DEF PublishOK
  <2>1. PublishOK(d, pr, cl, p, pr[p], e) /\ SessionOK(d, pr, cl, p, pr[p], e) /\ pr[p] \in Goroutine
    BY DEF Good, ProcTyped
  <2>2. pr[p].job.tmp.kind \in TmpKinds
    <3>1. CASE pr[p].lock = "session"
      BY <2>1, <3>1, FileIs DEF SessionOK, InSession, TmpKinds
    <3>2. CASE pr[p].lock # "session"
      BY <2>1, <3>2, FileIs DEF PublishOK, TmpKinds, Goroutine
    <3> QED BY <3>1, <3>2
  <2>3. pr[p].job.tmp \in DOMAIN d2 /\ d2[pr[p].job.tmp] = d[pr[p].job.tmp]
    <3>1. Owned(pr, pr[p].job.tmp)
      BY DEF Owned
    <3> QED BY <1>4, <2>1, <2>2, <3>1 DEF PublishOK, Tidies, TmpKinds
  <2>4. \A g \in Inputs(pr[p]) : g \in DOMAIN d2 => d2[g] \subseteq d2[pr[p].job.tmp]
    <3>1. \A g \in Inputs(pr[p]) : g.kind # "corrupt"
      BY InputName DEF SegKinds
    <3> QED BY <1>3, <1>4, <2>1, <2>3, <3>1 DEF PublishOK
  <2>5. \A g \in DOMAIN d2 :
          g.kind \in {"dir"} \cup Parks(e) /\ g.base = pr[p].job.dst.base => g \in Inputs(pr[p])
    BY <1>3, <2>1 DEF PublishOK
  <2> QED BY <1>2, <2>1, <2>3, <2>4, <2>5 DEF PublishOK
<1>6. ASSUME NEW p \in Procs PROVE SessionOK(d2, pr, cl, p, pr[p], e)
  <2>1. SessionOK(d, pr, cl, p, pr[p], e)
    BY DEF Good
  <2> QED BY <1>1, <1>2, <2>1 DEF SessionOK
<1>7. ASSUME NEW p \in Procs PROVE UploadOK(d2, pr, cl, p, pr[p], e)
  <2>1. UploadOK(d, pr, cl, p, pr[p], e)
    BY DEF Good
  <2>2. /\ pr[p].pc \in {"orphan", "upload"} =>
             \/ pr[p].file.kind \in SegKinds /\ pr[p].lock = "merge" /\ Over(d2, pr, cl, pr[p].file.base, e)
             \/ p = Scan /\ \E r \in 1..cl : pr[p].file = Raw(r) \/ (pr[p].file = Half(r) /\ Dead(d2, pr, Raw(r)))
             \/ p = Scan /\ \E r \in 1..e.old : pr[p].file = JoinTmp(r)
    BY <1>1, <1>2, <2>1 DEF UploadOK
  <2>3. pr[p].pc = "upload" => (pr[p].file \in DOMAIN d2 => d2[pr[p].file] \subseteq pr[p].held)
    <3>1. pr[p].pc = "upload" => pr[p].file.kind # "corrupt"
      BY <1>1, <2>1, JoinTmpIs DEF UploadOK, SegKinds
    <3> QED BY <3>1, <1>3, <1>4, <2>1 DEF UploadOK
  <2> QED BY <2>1, <2>2, <2>3 DEF UploadOK
<1> QED BY <1>5, <1>6, <1>7, TidyFiles DEF Good

\* A goroutine goes on, and neither starts nor ends a rewrite.
Moves(d, pr, cl, q, u, e) ==
  /\ pr[q].pc # "publish" /\ u.pc \notin {"publish", "regroup", "deliver"}
  /\ q # Scan => pr[q].pc # "done"
  /\ Shape(cl, q, u) /\ UploadOK(d, pr, cl, q, u, e)
  /\ q = Scan /\ u.pc \in {"orphan", "upload"} =>
        \A s \in Procs : InSession(pr[s]) => pr[s].job.dst # u.file

\* A goroutine that goes on keeps the order.
LEMMA MoveOK ==
  ASSUME NEW e, NEW d, NEW pr, NEW cl, Good(d, pr, cl, e), NEW pr2, ProcTyped(pr2), Exclusive(pr2),
         \A q \in Procs : pr2[q] = pr[q] \/ Moves(d, pr, cl, q, pr2[q], e)
  PROVE  Good(d, pr2, cl, e)
<1>1. \A q \in Procs : /\ pr[q].pc = "publish" => pr2[q] = pr[q]
                       /\ pr2[q].pc \in {"publish", "regroup", "deliver"} => pr2[q] = pr[q]
                       /\ q # Scan /\ pr[q].pc = "done" => pr2[q] = pr[q]
  BY DEF Moves
<1>2. \A f : Dead(d, pr, f) <=> Dead(d, pr2, f)
  BY <1>1 DEF Dead
<1>3. \A b : Over(d, pr, cl, b, e) <=> Over(d, pr2, cl, b, e)
  BY <1>2 DEF Over
<1>4. FilesOK(d, pr2, cl, e)
  <2>1. FilesOK(d, pr, cl, e)
    BY DEF Good
  <2>2. \A f : Owned(pr, f) => Owned(pr2, f)
    BY <1>1 DEF Owned
  <2>3. \A f : LeftOver(d, pr, cl, f, e) => LeftOver(d, pr2, cl, f, e)
    BY <1>3 DEF LeftOver
  <2> QED BY <1>2, <1>3, <2>1, <2>2, <2>3 DEF FilesOK
<1>5. ASSUME NEW p \in Procs PROVE Shape(cl, p, pr2[p])
  BY DEF Good, Moves
<1>6. ASSUME NEW p \in Procs PROVE PublishOK(d, pr2, cl, p, pr2[p], e)
  <2> SUFFICES ASSUME pr2[p].pc = "publish" PROVE PublishOK(d, pr2, cl, p, pr2[p], e)
    BY DEF PublishOK
  <2>1. pr2[p] = pr[p] /\ PublishOK(d, pr, cl, p, pr[p], e)
    BY <1>1 DEF Good
  <2> QED BY <1>3, <2>1 DEF PublishOK
<1>7. ASSUME NEW p \in Procs PROVE SessionOK(d, pr2, cl, p, pr2[p], e)
  <2> SUFFICES ASSUME InSession(pr2[p]) PROVE SessionOK(d, pr2, cl, p, pr2[p], e)
    BY DEF SessionOK
  <2>1. pr2[p] = pr[p] /\ InSession(pr[p]) /\ SessionOK(d, pr, cl, p, pr[p], e) /\ cl \in 0..N
    BY <1>1 DEF Good, InSession
  <2>2. PICK r \in 1..cl :
       /\ r # p /\ r > e.old /\ pr[r].pc = "done" /\ pr[p].job.dst = Half(r)
       /\ pr[Scan].pc \in {"orphan", "upload"} => pr[Scan].file # Half(r)
       /\ Raw(r) \in DOMAIN d => pr[p].pc = "publish" /\ Raw(r) \in Inputs(pr[p])
       /\ pr[p].pc = "publish" =>
             /\ pr[p].job.tmp = File("sessiontmp", 3 * r, 0) /\ pr[p].job.then \in {"regroup", "deliver"}
             /\ Inputs(pr[p]) \subseteq {Raw(r), Half(r), Raw(p)}
       /\ pr[p].pc # "publish" => pr[p].file = Half(r)
    BY <2>1 DEF SessionOK
  <2>3. r \in Procs /\ r # Scan /\ Scan \in Procs
    BY <2>1, Numbers, SizesTyped
  <2>4. pr2[r].pc = "done"
    BY <1>1, <2>2, <2>3
  <2>5. pr2[Scan].pc \in {"orphan", "upload"} => pr2[Scan].file # Half(r)
    BY <2>1, <2>2, <2>3 DEF Moves
  <2> QED BY <2>1, <2>2, <2>4, <2>5 DEF SessionOK
<1>8. ASSUME NEW p \in Procs PROVE UploadOK(d, pr2, cl, p, pr2[p], e)
  <2>1. UploadOK(d, pr, cl, p, pr2[p], e)
    BY DEF Good, Moves
  <2> QED BY <1>2, <1>3, <2>1 DEF UploadOK
<1>9. EpochOK(pr2, cl, e)
  <2>1. cl \in 0..N /\ cl <= cl /\ EpochOK(pr, cl, e)
    BY SizesTyped DEF Good
  <2>2. \A r \in 1..cl : pr[r].pc = "done" => pr2[r].pc = "done"
    BY <1>1, <2>1, Numbers
  <2> QED BY <2>1, <2>2, EpochStays
<1> QED BY <1>4, <1>5, <1>6, <1>7, <1>8, <1>9 DEF Good

\* A rewrite is ready: its scratch is there, whole, and its inputs still are.
LEMMA StartOK ==
  ASSUME NEW e, NEW d, NEW pr, NEW cl, Good(d, pr, cl, e), NEW p \in Procs, NEW u, NEW d2, NEW pr2, NEW c,
         d2 = Put(d, u.job.tmp, c), pr2 = [pr EXCEPT ![p] = u],
         pr[p].pc # "publish", p # Scan => pr[p].pc # "done",
         u.pc = "publish", u.job.tmp \notin DOMAIN d, u.job.tmp.kind \in TmpKinds,
         DiskTyped(d2, cl), ProcTyped(pr2), Exclusive(pr2), Shape(cl, p, u),
         PublishOK(d2, pr2, cl, p, u, e), SessionOK(d2, pr2, cl, p, u, e), Lasting(d, pr, cl, d2, pr2, e)
  PROVE  Good(d2, pr2, cl, e)
<1>1. /\ pr2[p] = u /\ \A q \in Procs \ {p} : pr2[q] = pr[q]
      /\ DOMAIN d2 = DOMAIN d \cup {u.job.tmp} /\ \A f \in DOMAIN d : d2[f] = d[f]
  BY DEF Good, ProcTyped, Put
<1>2. cl \in 0..N /\ FilesOK(d, pr, cl, e) /\ \A r \in 1..cl : Raw(r).kind = "dir" /\ Half(r).kind = "dir"
  BY Numbers DEF Good
<1>3. \A b : Over(d, pr, cl, b, e) => Over(d2, pr2, cl, b, e)
  BY <1>2, OverLasts, SizesTyped
<1>4. FilesOK(d2, pr2, cl, e)
  <2>1. ASSUME NEW f \in DOMAIN d2, f.kind \in TmpKinds
        PROVE  Owned(pr2, f) \/ LeftOver(d2, pr2, cl, f, e)
    <3>1. f = u.job.tmp => Owned(pr2, f)
      BY <1>1 DEF Owned
    <3>2. Owned(pr, f) => Owned(pr2, f)
      BY <1>1 DEF Owned
    <3>3. LeftOver(d, pr, cl, f, e) => LeftOver(d2, pr2, cl, f, e)
      BY <1>3 DEF LeftOver
    <3> QED BY <1>1, <1>2, <2>1, <3>1, <3>2, <3>3 DEF FilesOK
  <2>2. \A f \in DOMAIN d2 : f.kind \notin TmpKinds => f \in DOMAIN d /\ d2[f] = d[f]
    BY <1>1
  <2>3. \A f \in DOMAIN d2 : /\ f.kind = "dir" => \E r \in 1..cl : f = Raw(r) \/ f = Half(r)
                             /\ f.kind \in ParkKinds => Over(d2, pr2, cl, f.base, e)
    BY <1>2, <1>3, <2>2 DEF FilesOK, TmpKinds, ParkKinds
  <2>4. \A f, g \in DOMAIN d2 :
          f.kind \in Parks(e) /\ g.kind \in Parks(e) /\ f.base = g.base => f = g
    BY <1>2, <2>2 DEF FilesOK, TmpKinds, Parks, SegKinds, ParkKinds
  <2>5. \A r \in 1..cl : /\ Raw(r) \in DOMAIN d2 => d2[Raw(r)] = {r}
                         /\ Half(r) \in DOMAIN d2 => Dead(d2, pr2, Raw(r))
    BY <1>2, <2>2 DEF FilesOK, TmpKinds, Lasting
  <2> QED BY <2>1, <2>3, <2>4, <2>5 DEF FilesOK
<1>5. ASSUME NEW q \in Procs PROVE Shape(cl, q, pr2[q])
  BY <1>1 DEF Good
<1>6. ASSUME NEW q \in Procs PROVE PublishOK(d2, pr2, cl, q, pr2[q], e)
  <2>a. pr[q].pc # "publish" => PublishOK(d2, pr2, cl, q, pr[q], e)
    BY DEF PublishOK
  <2>b. pr2[q] = IF q = p THEN u ELSE pr[q]
    BY <1>1
  <2> SUFFICES ASSUME q # p, pr[q].pc = "publish" PROVE PublishOK(d2, pr2, cl, q, pr[q], e)
    BY <2>a, <2>b
  <2>1. PublishOK(d, pr, cl, q, pr[q], e)
    BY DEF Good
  <2>2. pr[q].job.tmp \in DOMAIN d2 /\ d2[pr[q].job.tmp] = d[pr[q].job.tmp]
    BY <1>1, <2>1 DEF PublishOK
  <2>3. \A g \in Inputs(pr[q]) : g \in DOMAIN d2 => d2[g] \subseteq d2[pr[q].job.tmp]
    <3>1. \A g \in Inputs(pr[q]) : g.kind \notin TmpKinds
      BY InputName DEF SegKinds, TmpKinds
    <3> QED BY <1>1, <2>1, <2>2, <3>1 DEF PublishOK
  <2>4. \A g \in DOMAIN d2 :
          g.kind \in {"dir"} \cup Parks(e) /\ g.base = pr[q].job.dst.base => g \in Inputs(pr[q])
    BY <1>1, <2>1 DEF PublishOK, TmpKinds, Parks, SegKinds, ParkKinds
  <2> QED BY <1>3, <2>1, <2>2, <2>3, <2>4 DEF PublishOK
<1>7. ASSUME NEW q \in Procs PROVE SessionOK(d2, pr2, cl, q, pr2[q], e)
  <2>a. ~InSession(pr[q]) => SessionOK(d2, pr2, cl, q, pr[q], e)
    BY DEF SessionOK
  <2>b. pr2[q] = IF q = p THEN u ELSE pr[q]
    BY <1>1
  <2> SUFFICES ASSUME q # p, InSession(pr[q]) PROVE SessionOK(d2, pr2, cl, q, pr[q], e)
    BY <2>a, <2>b
  <2>1. SessionOK(d, pr, cl, q, pr[q], e)
    BY DEF Good
  <2>2. \A r \in 1..cl : pr[r].pc = "done" => pr2[r].pc = "done"
    BY <1>1, <1>2, Numbers
  <2>3. pr2[Scan].pc \in {"orphan", "upload"} =>
          pr[Scan].pc \in {"orphan", "upload"} /\ pr[Scan].file = pr2[Scan].file
    BY <1>1, SizesTyped
  <2>4. \A r \in 1..cl : Raw(r) \in DOMAIN d2 => Raw(r) \in DOMAIN d
    BY <1>1, <1>2 DEF TmpKinds
  <2> QED BY <2>1, <2>2, <2>3, <2>4 DEF SessionOK
<1>8. ASSUME NEW q \in Procs PROVE UploadOK(d2, pr2, cl, q, pr2[q], e)
  <2>a. UploadOK(d2, pr2, cl, p, u, e)
    BY DEF UploadOK
  <2>b. pr2[q] = IF q = p THEN u ELSE pr[q]
    BY <1>1
  <2> SUFFICES ASSUME q # p PROVE UploadOK(d2, pr2, cl, q, pr[q], e)
    BY <2>a, <2>b
  <2>1. UploadOK(d, pr, cl, q, pr[q], e)
    BY DEF Good
  <2>2. /\ pr[q].pc \in {"orphan", "upload"} =>
             \/ pr[q].file.kind \in SegKinds /\ pr[q].lock = "merge" /\ Over(d2, pr2, cl, pr[q].file.base, e)
             \/ q = Scan /\ \E r \in 1..cl : pr[q].file = Raw(r) \/ (pr[q].file = Half(r) /\ Dead(d2, pr2, Raw(r)))
             \/ q = Scan /\ \E r \in 1..e.old : pr[q].file = JoinTmp(r)
    BY <1>3, <2>1 DEF UploadOK, Lasting
  <2>3. pr[q].pc \in {"orphan", "upload"} => (pr[q].file \in DOMAIN d2 => pr[q].file \in DOMAIN d)
    <3>1. \A r \in 1..e.old : JoinTmp(r) \in DOMAIN d2 => JoinTmp(r) \in DOMAIN d
      BY DEF Lasting
    <3>2. pr[q].pc \in {"orphan", "upload"} =>
             pr[q].file.kind \notin TmpKinds \/ \E r \in 1..e.old : pr[q].file = JoinTmp(r)
      BY <1>2, <2>1 DEF UploadOK, SegKinds, TmpKinds
    <3> QED BY <1>1, <3>1, <3>2
  <2>4. pr[q].pc = "upload" => (pr[q].file \in DOMAIN d2 => d2[pr[q].file] \subseteq pr[q].held)
    BY <1>1, <2>1, <2>3 DEF UploadOK
  <2> QED BY <2>1, <2>2, <2>4 DEF UploadOK
<1>9. EpochOK(pr2, cl, e)
  <2>1. cl <= cl /\ EpochOK(pr, cl, e)
    BY <1>2, SizesTyped DEF Good
  <2>2. \A r \in 1..cl : pr[r].pc = "done" => pr2[r].pc = "done"
    BY <1>1, <1>2, Numbers
  <2> QED BY <1>2, <2>1, <2>2, EpochStays
<1> QED BY <1>2, <1>4, <1>5, <1>6, <1>7, <1>8, <1>9 DEF Good

\* An input is gone, and its rewrite has one less to delete.
LEMMA ShrinkOK ==
  ASSUME NEW e, NEW d, NEW pr, NEW cl, Good(d, pr, cl, e), NEW p \in Procs, NEW u, NEW pr2, NEW h,
         pr2 = [pr EXCEPT ![p] = u], ProcTyped(pr2), pr[p].pc = "publish", u.pc = "publish",
         u.lock = pr[p].lock, u.job.tmp = pr[p].job.tmp, u.job.dst = pr[p].job.dst,
         u.job.then = pr[p].job.then, Inputs(u) \subseteq Inputs(pr[p]),
         Inputs(pr[p]) \subseteq Inputs(u) \cup {h}, h \notin DOMAIN d
  PROVE  Good(d, pr2, cl, e)
<1>1. /\ pr2[p] = u /\ \A q \in Procs \ {p} : pr2[q] = pr[q]
      /\ \A q \in Procs : /\ pr2[q].pc = pr[q].pc /\ pr2[q].lock = pr[q].lock
                          /\ pr2[q].job.tmp = pr[q].job.tmp /\ pr2[q].job.dst = pr[q].job.dst
  BY DEF Good, ProcTyped
<1>2. \A f : Dead(d, pr, f) <=> Dead(d, pr2, f)
  BY <1>1 DEF Dead
<1>3. \A b : Over(d, pr, cl, b, e) <=> Over(d, pr2, cl, b, e)
  BY <1>2 DEF Over
<1>4. FilesOK(d, pr2, cl, e)
  <2>1. FilesOK(d, pr, cl, e)
    BY DEF Good
  <2>2. \A f : Owned(pr, f) => Owned(pr2, f)
    BY <1>1 DEF Owned
  <2>3. \A f : LeftOver(d, pr, cl, f, e) => LeftOver(d, pr2, cl, f, e)
    BY <1>3 DEF LeftOver
  <2> QED BY <1>2, <1>3, <2>1, <2>2, <2>3 DEF FilesOK
<1>5. Exclusive(pr2)
  BY <1>1 DEF Good, Exclusive
<1>6. ASSUME NEW q \in Procs PROVE Shape(cl, q, pr2[q])
  <2>1. Shape(cl, q, pr[q])
    BY DEF Good
  <2> QED BY <1>1, <2>1 DEF Shape
<1>7. ASSUME NEW q \in Procs PROVE PublishOK(d, pr2, cl, q, pr2[q], e)
  <2>1. PublishOK(d, pr, cl, q, pr[q], e)
    BY DEF Good
  <2>2. CASE q # p
    <3>1. pr2[q] = pr[q]
      BY <1>1, <2>2
    <3> QED BY <1>3, <2>1, <3>1 DEF PublishOK
  <2>3. CASE q = p
    <3> SUFFICES PublishOK(d, pr2, cl, p, u, e)
      BY <1>1, <2>3
    <3>1. PublishOK(d, pr, cl, p, pr[p], e)
      BY <2>1, <2>3
    <3>2. \A g \in DOMAIN d :
            g.kind \in {"dir"} \cup Parks(e) /\ g.base = u.job.dst.base => g \in Inputs(u)
      BY <3>1 DEF PublishOK
    <3>3. \A g \in Inputs(u) : g \in DOMAIN d => d[g] \subseteq d[u.job.tmp]
      BY <3>1 DEF PublishOK
    <3>4. u.lock = "none" =>
            /\ u.job.tmp = File("finalizing", 3 * p - 2, 0) /\ u.job.dst = Raw(p)
            /\ u.job.then = "session" /\ Inputs(u) \subseteq {Raw(p)} /\ d[u.job.tmp] = {p}
      BY <3>1 DEF PublishOK
    <3>5. u.lock = "merge" =>
            /\ u.job.tmp = File("merging", u.job.dst.base, e.runs + 1) /\ u.job.dst.kind = "merged"
            /\ Over(d, pr2, cl, u.job.dst.base, e)
            /\ u.job.then \in {"egress", "done", "orphan"} /\ (p = Scan => u.job.then # "egress")
            /\ \A g \in Inputs(u) : \/ p # Scan /\ g = Raw(p)
                                    \/ g.kind \in SegKinds /\ Over(d, pr2, cl, g.base, e)
      BY <1>3, <3>1 DEF PublishOK
    <3> QED BY <3>1, <3>2, <3>3, <3>4, <3>5 DEF PublishOK
  <2> QED BY <2>2, <2>3
<1>8. ASSUME NEW q \in Procs PROVE SessionOK(d, pr2, cl, q, pr2[q], e)
  <2>1. SessionOK(d, pr, cl, q, pr[q], e) /\ cl \in 0..N /\ Shape(cl, p, pr[p])
    BY DEF Good
  <2>2. \A r \in 1..cl : pr2[r].pc = pr[r].pc
    BY <1>1, <2>1, Numbers
  <2>3. pr2[Scan].pc \in {"orphan", "upload"} =>
          pr[Scan].pc \in {"orphan", "upload"} /\ pr[Scan].file = pr2[Scan].file
    BY <1>1, SizesTyped
  <2>4. CASE q # p
    BY <1>1, <2>1, <2>2, <2>3, <2>4 DEF SessionOK
  <2>5. CASE q = p
    <3> SUFFICES ASSUME InSession(u) PROVE SessionOK(d, pr2, cl, p, u, e)
      BY <1>1, <2>5 DEF SessionOK
    <3>1. PICK r \in 1..cl :
       /\ r # p /\ r > e.old /\ pr[r].pc = "done" /\ pr[p].job.dst = Half(r)
       /\ pr[Scan].pc \in {"orphan", "upload"} => pr[Scan].file # Half(r)
       /\ Raw(r) \in DOMAIN d => pr[p].pc = "publish" /\ Raw(r) \in Inputs(pr[p])
       /\ pr[p].pc = "publish" =>
             /\ pr[p].job.tmp = File("sessiontmp", 3 * r, 0) /\ pr[p].job.then \in {"regroup", "deliver"}
             /\ Inputs(pr[p]) \subseteq {Raw(r), Half(r), Raw(p)}
       /\ pr[p].pc # "publish" => pr[p].file = Half(r)
      BY <2>1, <2>5 DEF SessionOK, InSession
    <3>2. Raw(r) \in DOMAIN d => Raw(r) \in Inputs(u)
      BY <3>1
    <3> QED BY <2>2, <2>3, <3>1, <3>2 DEF SessionOK
  <2> QED BY <2>4, <2>5
<1>9. ASSUME NEW q \in Procs PROVE UploadOK(d, pr2, cl, q, pr2[q], e)
  <2>1. UploadOK(d, pr, cl, q, pr[q], e)
    BY DEF Good
  <2>2. CASE q # p
    BY <1>1, <1>2, <1>3, <2>1, <2>2 DEF UploadOK
  <2>3. CASE q = p
    BY <1>1, <2>3 DEF UploadOK
  <2> QED BY <2>2, <2>3
<1>10. EpochOK(pr2, cl, e)
  <2>1. cl \in 0..N /\ EpochOK(pr, cl, e)
    BY DEF Good
  <2>2. \A r \in 1..cl : pr2[r].pc = pr[r].pc
    BY <1>1, <2>1, Numbers
  <2>3. cl <= cl
    BY <2>1, SizesTyped
  <2> QED BY <2>1, <2>2, <2>3, EpochStays
<1> QED BY <1>4, <1>5, <1>6, <1>7, <1>8, <1>9, <1>10 DEF Good

\* Two rewrites at once have different scratches and different outputs, and
\* neither takes in what the other makes.
LEMMA RewritesApart ==
  ASSUME NEW e, NEW d, NEW pr, NEW cl, Good(d, pr, cl, e), NEW p \in Procs, NEW q \in Procs, p # q,
         pr[p].pc = "publish", pr[q].pc = "publish"
  PROVE  /\ pr[p].job.tmp # pr[q].job.tmp
         /\ pr[p].job.dst.base # pr[q].job.dst.base
         /\ pr[p].job.dst \notin Inputs(pr[q])
<1> DEFINE P == pr[p]
           Q == pr[q]
<1>1. /\ PublishOK(d, pr, cl, p, P, e) /\ SessionOK(d, pr, cl, p, P, e) /\ P \in Goroutine
      /\ PublishOK(d, pr, cl, q, Q, e) /\ SessionOK(d, pr, cl, q, Q, e) /\ Q \in Goroutine
      /\ cl \in 0..N /\ p \in Int /\ q \in Int /\ \A r \in 1..cl : r \in Int
  BY SizesTyped DEF Good, ProcTyped, Scan
<1>2. P.lock = Q.lock => P.lock = "none"
  BY DEF Good, Exclusive
<1>3. /\ \/ P.lock # "merge" /\ P.job.dst.kind = "dir" /\ ~Over(d, pr, cl, P.job.dst.base, e)
         \/ P.lock = "merge" /\ P.job.dst.kind = "merged" /\ Over(d, pr, cl, P.job.dst.base, e)
      /\ \/ Q.lock # "merge" /\ Q.job.dst.kind = "dir" /\ ~Over(d, pr, cl, Q.job.dst.base, e)
         \/ Q.lock = "merge" /\ Q.job.dst.kind = "merged" /\ Over(d, pr, cl, Q.job.dst.base, e)
  BY OutputName
<1>4. /\ P.lock = "none" => P.job.tmp = File("finalizing", 3 * p - 2, 0) /\ P.job.dst = Raw(p)
      /\ P.lock = "merge" => P.job.tmp.kind = "merging"
      /\ Q.lock = "none" => Q.job.tmp = File("finalizing", 3 * q - 2, 0) /\ Q.job.dst = Raw(q)
      /\ Q.lock = "none" => Inputs(Q) \subseteq {Raw(q)}
      /\ Q.lock = "merge" => Q.job.tmp.kind = "merging"
      /\ Q.lock = "merge" => \A g \in Inputs(Q) : g = Raw(q) \/ g.kind \in SegKinds
  <2>1. /\ P.lock = "none" => P.job.tmp = File("finalizing", 3 * p - 2, 0) /\ P.job.dst = Raw(p)
        /\ P.lock = "merge" => P.job.tmp.kind = "merging"
    BY <1>1, FileIs DEF PublishOK
  <2>2. /\ Q.lock = "none" => Q.job.tmp = File("finalizing", 3 * q - 2, 0) /\ Q.job.dst = Raw(q)
        /\ Q.lock = "none" => Inputs(Q) \subseteq {Raw(q)}
        /\ Q.lock = "merge" => Q.job.tmp.kind = "merging"
    BY <1>1, FileIs DEF PublishOK
  <2>3. Q.lock = "merge" => \A g \in Inputs(Q) : g = Raw(q) \/ g.kind \in SegKinds
    BY <1>1 DEF PublishOK
  <2> QED BY <2>1, <2>2, <2>3
<1>5. P.lock = "session" =>
        \E r \in 1..cl : P.job.dst = Half(r) /\ P.job.tmp.kind = "sessiontmp"
  BY <1>1, FileIs DEF SessionOK, InSession
<1>6. Q.lock = "session" =>
        \E r \in 1..cl : /\ Q.job.dst = Half(r) /\ Q.job.tmp.kind = "sessiontmp" /\ pr[r].pc = "done"
                         /\ Inputs(Q) \subseteq {Raw(r), Half(r), Raw(q)}
  BY <1>1, FileIs DEF SessionOK, InSession
<1>7. P.lock \in {"none", "session", "merge"} /\ Q.lock \in {"none", "session", "merge"}
  BY <1>1 DEF Goroutine
<1> HIDE DEF P, Q
<1>8. P.job.tmp # Q.job.tmp
  <2>1. CASE P.lock = "none" /\ Q.lock = "none"
    <3>1. 3 * p - 2 # 3 * q - 2
      BY <1>1
    <3> QED BY <1>4, <2>1, <3>1, FileIs
  <2>2. CASE P.lock # "none" \/ Q.lock # "none"
    <3>1. P.lock = "none" => P.job.tmp.kind = "finalizing"
      BY <1>4, FileIs
    <3>2. Q.lock = "none" => Q.job.tmp.kind = "finalizing"
      BY <1>4, FileIs
    <3> QED BY <1>2, <1>4, <1>5, <1>6, <1>7, <2>2, <3>1, <3>2
  <2> QED BY <2>1, <2>2
<1>9. P.job.dst.base # Q.job.dst.base
  <2>1. CASE P.lock = "merge" \/ Q.lock = "merge"
    BY <1>2, <1>3, <2>1
  <2>2. CASE P.lock # "merge" /\ Q.lock # "merge"
    <3>1. CASE P.lock = "none" /\ Q.lock = "none"
      <4>1. P.job.dst.base = 3 * p - 2 /\ Q.job.dst.base = 3 * q - 2
        BY <1>1, <1>4, <3>1, OwnNames
      <4> QED BY <1>1, <4>1, OwnNamesDiffer
    <3>2. CASE P.lock = "none" /\ Q.lock = "session"
      <4>1. PICK r \in 1..cl : Q.job.dst = Half(r)
        BY <1>6, <3>2
      <4>2. P.job.dst.base = 3 * p - 2 /\ Q.job.dst.base = 3 * r - 1
        BY <1>1, <1>4, <3>2, <4>1, OwnNames
      <4> QED BY <1>1, <4>2, OwnNamesDiffer
    <3>3. CASE P.lock = "session" /\ Q.lock = "none"
      <4>1. PICK r \in 1..cl : P.job.dst = Half(r)
        BY <1>5, <3>3
      <4>2. P.job.dst.base = 3 * r - 1 /\ Q.job.dst.base = 3 * q - 2
        BY <1>1, <1>4, <3>3, <4>1, OwnNames
      <4> QED BY <1>1, <4>2, OwnNamesDiffer
    <3> QED BY <1>2, <1>7, <2>2, <3>1, <3>2, <3>3
  <2> QED BY <2>1, <2>2
<1>10. P.job.dst \notin Inputs(Q)
  <2>1. CASE P.lock = "none"
    <3>1. P.job.dst = Raw(p) /\ P.job.dst.kind = "dir" /\ Raw(p) # Raw(q)
      BY <1>1, <1>4, <2>1, OwnNames, OwnNamesDiffer
    <3>2. CASE Q.lock = "session"
      <4>1. PICK r \in 1..cl : pr[r].pc = "done" /\ Inputs(Q) \subseteq {Raw(r), Half(r), Raw(q)}
        BY <1>6, <3>2
      <4>2. r # p
        BY <4>1
      <4> QED BY <1>1, <3>1, <4>1, <4>2, OwnNamesDiffer
    <3>3. CASE Q.lock # "session"
      BY <1>4, <1>7, <3>1, <3>3 DEF SegKinds
    <3> QED BY <3>2, <3>3
  <2>2. CASE P.lock = "session"
    <3>1. PICK r \in 1..cl : P.job.dst = Half(r)
      BY <1>5, <2>2
    <3>2. P.job.dst # Raw(q) /\ P.job.dst.kind = "dir"
      BY <1>1, <3>1, OwnNames, OwnNamesDiffer
    <3> QED BY <1>2, <1>4, <1>7, <2>2, <3>2 DEF SegKinds
  <2>3. CASE P.lock = "merge"
    <3>1. Q.lock # "merge" /\ P.job.dst.kind = "merged"
      BY <1>2, <1>3, <2>3
    <3>2. \A g \in Inputs(Q) : g.kind = "dir"
      <4>1. ASSUME NEW g \in Inputs(Q) PROVE g.kind = "dir"
        BY <3>1, InputName DEF Q
      <4> QED BY <4>1
    <3> QED BY <3>1, <3>2
  <2> QED BY <1>7, <2>1, <2>2, <2>3
<1> QED BY <1>8, <1>9, <1>10 DEF P, Q

\* The scratch of a rewrite takes its name, and the goroutine goes on with it.
Publishes(d, pr, p, d2, pr2) ==
  /\ pr[p].pc = "publish" /\ Inputs(pr[p]) = {}
  /\ d2 = Rename(d, pr[p].job.tmp, pr[p].job.dst)
  /\ pr2 = [pr EXCEPT ![p] =
              IF pr[p].job.then = "done" THEN At("done", NoFile, "none", NoJob)
              ELSE At(pr[p].job.then, pr[p].job.dst, pr[p].lock, pr[p].job)]

\* A rewrite ends: its output replaces its inputs, and no file's content is lost.
LEMMA PublishedOK ==
  ASSUME NEW e, NEW d, NEW pr, NEW cl, Good(d, pr, cl, e), NEW p \in Procs, NEW d2, NEW pr2,
         Publishes(d, pr, p, d2, pr2), DiskTyped(d2, cl), ProcTyped(pr2)
  PROVE  /\ Good(d2, pr2, cl, e) /\ Lasting(d, pr, cl, d2, pr2, e)
         /\ \A f \in DOMAIN d : \E g \in DOMAIN d2 : d2[g] = d[f]
<1> SUFFICES ASSUME pr[p].pc = "publish", Inputs(pr[p]) = {}
             PROVE  /\ Good(d2, pr2, cl, e) /\ Lasting(d, pr, cl, d2, pr2, e)
                    /\ \A f \in DOMAIN d : \E g \in DOMAIN d2 : d2[g] = d[f]
  BY DEF Publishes
<1> DEFINE u == pr2[p]
           tmp == pr[p].job.tmp
           dst == pr[p].job.dst
           then == pr[p].job.then
<1>0. /\ d2 = Rename(d, tmp, dst)
      /\ pr2 = [pr EXCEPT ![p] = IF then = "done" THEN At("done", NoFile, "none", NoJob)
                                 ELSE At(then, dst, pr[p].lock, pr[p].job)]
  BY DEF Publishes
<1>1. /\ pr2[p] = u /\ (\A q \in Procs \ {p} : pr2[q] = pr[q])
      /\ PublishOK(d, pr, cl, p, pr[p], e) /\ SessionOK(d, pr, cl, p, pr[p], e) /\ Shape(cl, p, pr[p])
      /\ pr[p] \in Goroutine /\ FilesOK(d, pr, cl, e) /\ cl \in 0..N
      /\ \A r \in 1..cl : Raw(r).kind = "dir" /\ Half(r).kind = "dir"
  BY <1>0, Numbers DEF Good, ProcTyped
<1>2. tmp \in DOMAIN d /\ \A g \in DOMAIN d : g.kind \in {"dir"} \cup Parks(e) => g.base # dst.base
  BY <1>1 DEF PublishOK
<1>3. dst.kind \in {"dir", "merged"} /\ dst \notin DOMAIN d
  <2>1. dst.kind \in {"dir", "merged"}
    BY OutputName
  <2> QED BY <1>2, <2>1 DEF Parks, SegKinds, ParkKinds
<1>4. tmp.kind \in TmpKinds
  <2>1. CASE pr[p].lock = "session"
    <3>1. \E r \in 1..cl : tmp = File("sessiontmp", 3 * r, 0)
      BY <1>1, <2>1 DEF SessionOK, InSession
    <3> QED BY <3>1, FileIs DEF TmpKinds
  <2>2. CASE pr[p].lock # "session"
    BY <1>1, <2>2, FileIs DEF PublishOK, TmpKinds, Goroutine
  <2> QED BY <2>1, <2>2
<1>5. /\ DOMAIN d2 = (DOMAIN d \ {tmp}) \cup {dst} /\ d2[dst] = d[tmp]
      /\ \A f \in DOMAIN d \ {tmp} : d2[f] = d[f]
  BY <1>0, <1>2, <1>3 DEF Rename, Put, Without, Restrict
<1>6. /\ u.pc = then /\ u.job.dst = (IF then = "done" THEN NoFile ELSE dst)
      /\ u.file = (IF then = "done" THEN NoFile ELSE dst)
      /\ u.lock = (IF then = "done" THEN "none" ELSE pr[p].lock)
      /\ then \in {"session", "regroup", "deliver", "egress", "done", "orphan"}
  <2>1. u = IF then = "done" THEN At("done", NoFile, "none", NoJob)
            ELSE At(then, dst, pr[p].lock, pr[p].job)
    BY <1>0 DEF Good, ProcTyped
  <2>2. then \in {"session", "regroup", "deliver", "egress", "done", "orphan"}
    BY <1>1 DEF Goroutine, Job
  <2> QED BY <2>1, <2>2, AtIs DEF NoJob
<1>7. /\ pr[p].lock = "none" => /\ p \in 1..cl /\ dst = Raw(p) /\ tmp = File("finalizing", 3 * p - 2, 0)
                                /\ then = "session" /\ d[tmp] = {p}
      /\ pr[p].lock = "merge" => /\ dst.kind = "merged" /\ Over(d, pr, cl, dst.base, e)
                                 /\ then \in {"egress", "done", "orphan"} /\ (p = Scan => then # "egress")
  <2>1. pr[p].lock = "none" => p \in 1..cl
    BY <1>1, SizesTyped DEF Shape
  <2> QED BY <1>1, <2>1 DEF PublishOK
<1>8. pr[p].lock = "session" =>
        \E r \in 1..cl : /\ r # p /\ r > e.old /\ pr[r].pc = "done" /\ dst = Half(r) /\ then \in {"regroup", "deliver"}
                         /\ pr[Scan].pc \in {"orphan", "upload"} => pr[Scan].file # Half(r)
                         /\ Raw(r) \notin DOMAIN d /\ tmp = JoinTmp(r)
  BY <1>1 DEF SessionOK, InSession, JoinTmp
<1> HIDE DEF u, tmp, dst, then
<1>9. \A q \in Procs \ {p} : pr[q].pc = "publish" =>
        tmp # pr[q].job.tmp /\ dst.base # pr[q].job.dst.base /\ dst \notin Inputs(pr[q])
  BY RewritesApart DEF tmp, dst
<1>10. ASSUME NEW f, f.kind = "dir" PROVE Dead(d, pr, f) <=> Dead(d2, pr2, f)
  <2>1. CASE f = dst
    <3>1. ~Dead(d, pr, f)
      BY <2>1 DEF Dead, dst
    <3>2. ~Dead(d2, pr2, f)
      BY <1>5, <2>1 DEF Dead
    <3> QED BY <3>1, <3>2
  <2>2. CASE f # dst
    <3>1. f \in DOMAIN d <=> f \in DOMAIN d2
      BY <1>4, <1>5, <1>10, <2>2 DEF TmpKinds
    <3>2. u.pc # "publish"
      BY <1>6
    <3> QED BY <1>1, <2>2, <3>1, <3>2 DEF Dead, dst
  <2> QED BY <2>1, <2>2
<1>a. \A s \in 1..e.old : tmp # JoinTmp(s) /\ (JoinTmp(s) \in DOMAIN d <=> JoinTmp(s) \in DOMAIN d2)
  <2> SUFFICES ASSUME NEW s \in 1..e.old
               PROVE  tmp # JoinTmp(s) /\ (JoinTmp(s) \in DOMAIN d <=> JoinTmp(s) \in DOMAIN d2)
    OBVIOUS
  <2>1. JoinTmp(s) # dst
    BY <1>3, JoinTmpIs
  <2>2. CASE pr[p].lock = "session"
    <3>1. PICK r \in 1..cl : r > e.old /\ tmp = JoinTmp(r)
      BY <1>8, <2>2
    <3>2. s \in Int /\ r \in Int /\ s # r
      BY <1>1, <3>1, SizesTyped DEF Good, EpochOK
    <3> QED BY <1>5, <2>1, <3>1, <3>2, JoinTmpIs
  <2>3. CASE pr[p].lock # "session"
    <3>1. tmp.kind # "sessiontmp"
      BY <1>1, <2>3, FileIs DEF PublishOK, Goroutine, tmp
    <3> QED BY <1>5, <2>1, <3>1, JoinTmpIs
  <2> QED BY <2>2, <2>3
<1>11. \A b : Over(d, pr, cl, b, e) <=> Over(d2, pr2, cl, b, e)
  BY <1>1, <1>10, <1>a DEF Over
<1>12. Exclusive(pr2)
  <2>1. Exclusive(pr)
    BY DEF Good
  <2> QED BY <1>1, <1>6, <2>1 DEF Exclusive
<1>13. FilesOK(d2, pr2, cl, e)
  <2>1. ASSUME NEW f \in DOMAIN d2
        PROVE  /\ f.kind = "dir" => \E r \in 1..cl : f = Raw(r) \/ f = Half(r)
               /\ f.kind \in TmpKinds => Owned(pr2, f) \/ LeftOver(d2, pr2, cl, f, e)
               /\ f.kind \in ParkKinds => Over(d2, pr2, cl, f.base, e)
    <3>1. CASE f = dst
      BY <1>1, <1>3, <1>7, <1>8, <1>11, <3>1, OutputName DEF TmpKinds, ParkKinds, dst, Goroutine
    <3>2. CASE f # dst
      <4>1. f \in DOMAIN d /\ f # tmp
        BY <1>5, <3>2, <1>3
      <4>2. Owned(pr, f) => Owned(pr2, f)
        <5> SUFFICES ASSUME NEW q \in Procs, pr[q].pc = "publish", pr[q].job.tmp = f PROVE Owned(pr2, f)
          BY DEF Owned
        <5>1. q # p
          BY <4>1 DEF tmp
        <5> QED BY <1>1, <5>1 DEF Owned
      <4>3. LeftOver(d, pr, cl, f, e) => LeftOver(d2, pr2, cl, f, e)
        BY <1>11 DEF LeftOver
      <4> QED BY <1>1, <1>11, <4>1, <4>2, <4>3 DEF FilesOK
    <3> QED BY <3>1, <3>2
  <2>2. ASSUME NEW f \in DOMAIN d2, NEW g \in DOMAIN d2,
               f.kind \in Parks(e), g.kind \in Parks(e), f.base = g.base
        PROVE  f = g
    <3>1. CASE f # dst /\ g # dst
      BY <1>1, <1>5, <2>2, <3>1 DEF FilesOK
    <3>2. CASE f = dst \/ g = dst
      BY <1>2, <1>5, <2>2, <3>2
    <3> QED BY <3>1, <3>2
  <2>3. ASSUME NEW r \in 1..cl
        PROVE  /\ Raw(r) \in DOMAIN d2 => d2[Raw(r)] = {r}
               /\ Half(r) \in DOMAIN d2 => Dead(d2, pr2, Raw(r))
    <3>1. r \in Int /\ p \in Int
      BY <1>1, SizesTyped DEF Scan
    <3>2. Raw(r) \in DOMAIN d2 => d2[Raw(r)] = {r}
      <4>1. CASE Raw(r) # dst
        BY <1>1, <1>4, <1>5, <4>1 DEF FilesOK, TmpKinds
      <4>2. CASE Raw(r) = dst
        <5>1. pr[p].lock = "none"
          BY <1>1, <1>7, <1>8, <3>1, <4>2, OwnNamesDiffer DEF Goroutine
        <5>2. r = p
          BY <1>7, <3>1, <4>2, <5>1, OwnNamesDiffer
        <5> QED BY <1>5, <1>7, <4>2, <5>1, <5>2
      <4> QED BY <4>1, <4>2
    <3>3. Half(r) \in DOMAIN d2 => Dead(d2, pr2, Raw(r))
      <4>1. CASE Half(r) # dst
        BY <1>1, <1>4, <1>5, <1>10, <4>1 DEF FilesOK, TmpKinds
      <4>2. CASE Half(r) = dst
        <5>1. pr[p].lock = "session"
          BY <1>1, <1>7, <3>1, <4>2, OwnNamesDiffer DEF Goroutine
        <5>2. PICK s \in 1..cl : pr[s].pc = "done" /\ dst = Half(s) /\ Raw(s) \notin DOMAIN d
          BY <1>8, <5>1
        <5>3. s = r
          BY <1>1, <3>1, <4>2, <5>2, OwnNamesDiffer, SizesTyped
        <5>4. ASSUME NEW q \in Procs, pr[q].pc = "publish", pr[q].job.dst = Raw(r) PROVE FALSE
          <6>1. PublishOK(d, pr, cl, q, pr[q], e) /\ SessionOK(d, pr, cl, q, pr[q], e) /\ pr[q] \in Goroutine
            BY DEF Good, ProcTyped
          <6>2. q \in Int /\ Raw(r).kind = "dir"
            BY <1>1, SizesTyped DEF Scan
          <6>3. pr[q].lock # "merge"
            BY <5>4, <6>1, <6>2 DEF PublishOK
          <6>4. pr[q].lock # "session"
            <7> SUFFICES ASSUME pr[q].lock = "session" PROVE FALSE
              OBVIOUS
            <7>1. PICK t \in 1..cl : Raw(r) = Half(t)
              BY <5>4, <6>1 DEF SessionOK, InSession
            <7>2. t \in Int
              BY <1>1, SizesTyped
            <7> QED BY <3>1, <7>1, <7>2, OwnNamesDiffer
          <6>5. pr[q].job.dst = Raw(q)
            BY <5>4, <6>1, <6>3, <6>4 DEF PublishOK, Goroutine
          <6>6. q = r
            BY <3>1, <5>4, <6>2, <6>5, OwnNamesDiffer
          <6> QED BY <5>2, <5>3, <5>4, <6>6
        <5>5. Dead(d, pr, Raw(r))
          BY <5>2, <5>3, <5>4 DEF Dead
        <5> QED BY <1>1, <1>10, <5>5
      <4> QED BY <4>1, <4>2
    <3> QED BY <3>2, <3>3
  <2> QED BY <2>1, <2>2, <2>3 DEF FilesOK
<1>14. ASSUME NEW q \in Procs PROVE Shape(cl, q, pr2[q])
  <2>1. CASE q # p
    BY <1>1, <2>1 DEF Good
  <2>2. CASE q = p
    <3>1. pr[p].lock \in {"none", "session", "merge"}
      BY <1>1 DEF Goroutine
    <3>2. p # Scan => ~(p > cl)
      BY <1>1 DEF Shape
    <3> QED BY <1>1, <1>6, <1>7, <1>8, <2>2, <3>1, <3>2 DEF Shape
  <2> QED BY <2>1, <2>2
<1>15. ASSUME NEW q \in Procs PROVE PublishOK(d2, pr2, cl, q, pr2[q], e)
  <2> SUFFICES ASSUME q # p, pr[q].pc = "publish" PROVE PublishOK(d2, pr2, cl, q, pr[q], e)
    <3>1. u.pc # "publish"
      BY <1>6
    <3> QED BY <1>1, <3>1 DEF PublishOK
  <2>1. PublishOK(d, pr, cl, q, pr[q], e)
    BY DEF Good
  <2>2. /\ pr[q].job.tmp \in DOMAIN d2 /\ d2[pr[q].job.tmp] = d[pr[q].job.tmp]
        /\ dst.base # pr[q].job.dst.base /\ dst \notin Inputs(pr[q])
    BY <1>5, <1>9, <2>1 DEF PublishOK
  <2>3. \A g \in Inputs(pr[q]) : g \in DOMAIN d2 => d2[g] \subseteq d2[pr[q].job.tmp]
    BY <1>5, <2>1, <2>2 DEF PublishOK
  <2>4. \A g \in DOMAIN d2 :
          g.kind \in {"dir"} \cup Parks(e) /\ g.base = pr[q].job.dst.base => g \in Inputs(pr[q])
    BY <1>5, <2>1, <2>2 DEF PublishOK
  <2> QED BY <1>11, <2>1, <2>2, <2>3, <2>4 DEF PublishOK
<1>16. ASSUME NEW q \in Procs PROVE SessionOK(d2, pr2, cl, q, pr2[q], e)
  <2>2. \A r \in 1..cl : pr[r].pc = "done" => pr2[r].pc = "done"
    BY <1>1, Numbers
  <2>3. \A r \in 1..cl :
          (pr[Scan].pc \in {"orphan", "upload"} => pr[Scan].file # Half(r))
             => (pr2[Scan].pc \in {"orphan", "upload"} => pr2[Scan].file # Half(r))
    <3>1. CASE p # Scan
      BY <1>1, <3>1, SizesTyped
    <3>2. CASE p = Scan
      <4>1. pr[p].lock = "merge"
        BY <1>1, <3>2 DEF Shape
      <4> QED BY <1>1, <1>6, <1>7, <3>2, <4>1
    <3> QED BY <3>1, <3>2
  <2>4. CASE q = p
    <3> SUFFICES ASSUME InSession(u) PROVE SessionOK(d2, pr2, cl, p, u, e)
      BY <1>1, <2>4 DEF SessionOK
    <3>1. pr[p].lock = "session" /\ then # "done" /\ u.file = dst /\ u.job.dst = dst /\ u.pc # "publish"
      BY <1>6 DEF InSession
    <3>2. PICK r \in 1..cl :
             /\ r # p /\ r > e.old /\ pr[r].pc = "done" /\ dst = Half(r) /\ Raw(r) \notin DOMAIN d
             /\ pr[Scan].pc \in {"orphan", "upload"} => pr[Scan].file # Half(r)
      BY <1>8, <3>1
    <3>3. r \in Int
      BY <1>1, SizesTyped
    <3>4. Raw(r) \notin DOMAIN d2
      BY <1>5, <3>2, <3>3, OwnNamesDiffer
    <3> QED BY <2>2, <2>3, <3>1, <3>2, <3>4 DEF SessionOK
  <2>5. CASE q # p
    <3> SUFFICES ASSUME InSession(pr[q]) PROVE SessionOK(d2, pr2, cl, q, pr[q], e)
      BY <1>1, <2>5 DEF SessionOK
    <3>1. SessionOK(d, pr, cl, q, pr[q], e)
      BY DEF Good
    <3>2. PICK r \in 1..cl :
       /\ r # q /\ r > e.old /\ pr[r].pc = "done" /\ pr[q].job.dst = Half(r)
       /\ pr[Scan].pc \in {"orphan", "upload"} => pr[Scan].file # Half(r)
       /\ Raw(r) \in DOMAIN d => pr[q].pc = "publish" /\ Raw(r) \in Inputs(pr[q])
       /\ pr[q].pc = "publish" =>
             /\ pr[q].job.tmp = File("sessiontmp", 3 * r, 0) /\ pr[q].job.then \in {"regroup", "deliver"}
             /\ Inputs(pr[q]) \subseteq {Raw(r), Half(r), Raw(q)}
       /\ pr[q].pc # "publish" => pr[q].file = Half(r)
      BY <3>1 DEF SessionOK
    <3>3. Raw(r) # dst
      <4> SUFFICES ASSUME Raw(r) = dst PROVE FALSE
        OBVIOUS
      <4>1. r \in Int /\ p \in Int /\ r # p
        BY <1>1, <3>2, SizesTyped DEF Scan
      <4>2. pr[p].lock # "session"
        <5> SUFFICES ASSUME pr[p].lock = "session" PROVE FALSE
          OBVIOUS
        <5>1. PICK s \in 1..cl : dst = Half(s)
          BY <1>8
        <5>2. s \in Int
          BY <1>1, SizesTyped
        <5> QED BY <4>1, <5>1, <5>2, OwnNamesDiffer
      <4>3. pr[p].lock # "merge"
        BY <1>1, <1>7
      <4> QED BY <1>1, <1>7, <4>1, <4>2, <4>3, OwnNamesDiffer DEF Goroutine
    <3>4. Raw(r) \in DOMAIN d2 => Raw(r) \in DOMAIN d
      BY <1>5, <3>3
    <3> QED BY <2>2, <2>3, <3>2, <3>4 DEF SessionOK
  <2> QED BY <2>4, <2>5
<1>17. ASSUME NEW q \in Procs PROVE UploadOK(d2, pr2, cl, q, pr2[q], e)
  <2>1. CASE q = p
    <3>1. u.pc # "upload"
      BY <1>6
    <3>2. u.pc = "orphan" => pr[p].lock = "merge" /\ u.lock = "merge" /\ u.file = dst
      BY <1>1, <1>6, <1>7, <1>8 DEF Goroutine
    <3>3. u.pc = "orphan" => u.file.kind \in SegKinds /\ u.lock = "merge" /\ Over(d2, pr2, cl, u.file.base, e)
      BY <1>7, <1>11, <3>2 DEF SegKinds
    <3> QED BY <1>1, <2>1, <3>1, <3>3 DEF UploadOK
  <2>2. CASE q # p
    <3> DEFINE v == pr[q]
    <3>1. UploadOK(d, pr, cl, q, v, e) /\ Shape(cl, q, v)
      BY DEF Good
    <3>2. v.pc \in {"orphan", "upload"} =>
             \/ v.file.kind \in SegKinds /\ v.lock = "merge" /\ Over(d2, pr2, cl, v.file.base, e)
             \/ q = Scan /\ \E r \in 1..cl : v.file = Raw(r) \/ (v.file = Half(r) /\ Dead(d2, pr2, Raw(r)))
             \/ q = Scan /\ \E r \in 1..e.old : v.file = JoinTmp(r)
      BY <1>1, <1>10, <1>11, <3>1 DEF UploadOK
    <3>3. v.pc = "upload" => (v.file \in DOMAIN d2 => d2[v.file] \subseteq v.held)
      <4> SUFFICES ASSUME v.pc = "upload", v.file \in DOMAIN d2 PROVE d2[v.file] \subseteq v.held
        OBVIOUS
      <4>1. CASE v.file # dst
        BY <1>5, <3>1, <4>1 DEF UploadOK
      <4>2. CASE v.file = dst
        <5>1. CASE pr[p].lock = "none"
          BY <1>5, <1>7, <3>1, <4>2, <5>1 DEF UploadOK
        <5>2. CASE pr[p].lock = "session"
          <6>1. PICK r \in 1..cl : dst = Half(r) /\ (pr[Scan].file # Half(r) \/ q # Scan)
            BY <1>8, <5>2
          <6>2. q # Scan /\ dst.kind = "dir"
            BY <1>1, <4>2, <6>1
          <6> QED BY <3>1, <4>2, <6>2 DEF UploadOK, SegKinds
        <5>3. CASE pr[p].lock = "merge"
          <6>1. v.lock # "merge"
            BY <2>2, <5>3 DEF Good, Exclusive
          <6>2. \A r \in 1..cl : dst # Raw(r) /\ dst # Half(r)
            BY <1>1, <1>7, <5>3
          <6>3. \A r \in 1..e.old : dst # JoinTmp(r)
            BY <1>7, <5>3, JoinTmpIs
          <6> QED BY <3>1, <4>2, <6>1, <6>2, <6>3 DEF UploadOK
        <5> QED BY <1>1, <5>1, <5>2, <5>3 DEF Goroutine
      <4> QED BY <4>1, <4>2
    <3> QED BY <1>1, <2>2, <3>1, <3>2, <3>3 DEF UploadOK
  <2> QED BY <2>1, <2>2
<1>b. EpochOK(pr2, cl, e)
  <2>1. EpochOK(pr, cl, e) /\ cl <= cl
    BY <1>1, SizesTyped DEF Good
  <2>2. \A r \in 1..cl : pr[r].pc = "done" => pr2[r].pc = "done"
    BY <1>1, Numbers
  <2> QED BY <1>1, <2>1, <2>2, EpochStays
<1>18. Good(d2, pr2, cl, e)
  BY <1>1, <1>12, <1>13, <1>14, <1>15, <1>16, <1>17, <1>b DEF Good
<1>19. Lasting(d, pr, cl, d2, pr2, e)
  BY <1>1, <1>10, <1>a DEF Lasting
<1>20. \A f \in DOMAIN d : \E g \in DOMAIN d2 : d2[g] = d[f]
  BY <1>5
<1> QED BY <1>18, <1>19, <1>20

\* A new recording gets names of its own.
LEMMA CloseOK ==
  ASSUME NEW e, NEW d, NEW pr, NEW cl, Good(d, pr, cl, e), cl + 1 \in Recs, NEW d2, NEW pr2,
         d2 = Put(d, Raw(cl + 1), {cl + 1}),
         pr2 = [pr EXCEPT ![cl + 1] = At("queued", NoFile, "none", NoJob)],
         DiskTyped(d2, cl + 1), ProcTyped(pr2)
  PROVE  Good(d2, pr2, cl + 1, e) /\ Lasting(d, pr, cl, d2, pr2, e)
<1> DEFINE n == cl + 1
           u == At("queued", NoFile, "none", NoJob)
<1>1. /\ cl \in 0..N /\ n \in 0..N /\ n \in Int /\ n \in Procs /\ n # Scan /\ cl \in Int /\ cl <= n
      /\ n \notin 1..cl /\ 1..n = 1..cl \cup {n}
  BY SizesTyped DEF Good
<1>2. Shape(cl, n, pr[n]) /\ FilesOK(d, pr, cl, e) /\ pr \in [Procs -> Goroutine] /\ Exclusive(pr)
  BY <1>1 DEF Good, ProcTyped
<1>3. pr[n].pc = "idle" /\ pr[n].lock = "none"
  BY <1>1, <1>2 DEF Shape
<1>4. u.pc = "queued" /\ u.lock = "none"
  BY AtIs
<1> HIDE DEF u
<1>5. /\ pr2[n] = u /\ \A q \in Procs \ {n} : pr2[q] = pr[q]
      /\ \A q \in Procs : /\ pr[q].pc \notin {"idle"} => pr2[q] = pr[q]
                          /\ pr2[q].pc \notin {"queued"} => pr2[q] = pr[q]
                          /\ pr2[q].lock = pr[q].lock
  BY <1>1, <1>2, <1>3, <1>4 DEF u
<1>6. \A r \in 1..cl : /\ r \in Int /\ Raw(r) # Raw(n) /\ Half(r) # Raw(n)
                       /\ 3 * r - 2 # 3 * n - 2 /\ 3 * r - 1 # 3 * n - 2
  <2> SUFFICES ASSUME NEW r \in 1..cl
               PROVE  /\ r \in Int /\ Raw(r) # Raw(n) /\ Half(r) # Raw(n)
                      /\ 3 * r - 2 # 3 * n - 2 /\ 3 * r - 1 # 3 * n - 2
    OBVIOUS
  <2>1. r \in Int /\ r # n
    BY <1>1
  <2> QED BY <1>1, <2>1, OwnNamesDiffer
<1>7. Raw(n).kind = "dir" /\ Raw(n).base = 3 * n - 2
  BY <1>1, OwnNames
<1>8. Raw(n) \notin DOMAIN d
  BY <1>2, <1>6, <1>7 DEF FilesOK
<1>9. DOMAIN d2 = DOMAIN d \cup {Raw(n)} /\ d2[Raw(n)] = {n} /\ \A f \in DOMAIN d : d2[f] = d[f]
  BY <1>8 DEF Put
<1> HIDE DEF n
<1>10. \A f : f # Raw(n) => (Dead(d, pr, f) <=> Dead(d2, pr2, f))
  BY <1>5, <1>9 DEF Dead
<1>a. e.old \in 0..cl /\ \A s \in 1..e.old : s \in 1..cl /\ s \in Int
  BY <1>1, SizesTyped DEF Good, EpochOK
<1>b. \A s \in 1..e.old : JoinTmp(s) \in DOMAIN d2 => JoinTmp(s) \in DOMAIN d
  BY <1>7, <1>9, JoinTmpIs
<1>11. Lasting(d, pr, cl, d2, pr2, e)
  BY <1>6, <1>10, <1>b DEF Lasting
<1>12. \A b : Over(d, pr, cl, b, e) => Over(d2, pr2, n, b, e)
  BY <1>1, <1>11, OverLasts
<1>13. ~Over(d, pr, cl, 3 * n - 2, e)
  BY <1>1, <1>6, <1>a, JoinTmpIs DEF Over
<1>14. Exclusive(pr2)
  BY <1>2, <1>5 DEF Exclusive
<1>15. FilesOK(d2, pr2, n, e)
  <2>1. ASSUME NEW f \in DOMAIN d2
        PROVE  /\ f.kind = "dir" => \E r \in 1..n : f = Raw(r) \/ f = Half(r)
               /\ f.kind \in TmpKinds => Owned(pr2, f) \/ LeftOver(d2, pr2, n, f, e)
               /\ f.kind \in ParkKinds => Over(d2, pr2, n, f.base, e)
    <3>1. CASE f = Raw(n)
      BY <1>1, <1>7, <3>1 DEF TmpKinds, ParkKinds
    <3>2. CASE f # Raw(n)
      <4>1. f \in DOMAIN d
        BY <1>9, <3>2
      <4>2. Owned(pr, f) => Owned(pr2, f)
        BY <1>5 DEF Owned
      <4>3. LeftOver(d, pr, cl, f, e) => LeftOver(d2, pr2, n, f, e)
        BY <1>12 DEF LeftOver
      <4> QED BY <1>1, <1>2, <1>12, <4>1, <4>2, <4>3 DEF FilesOK
    <3> QED BY <3>1, <3>2
  <2>2. \A f, g \in DOMAIN d2 :
          f.kind \in Parks(e) /\ g.kind \in Parks(e) /\ f.base = g.base => f = g
    BY <1>2, <1>7, <1>9 DEF FilesOK, Parks, SegKinds, ParkKinds
  <2>3. ASSUME NEW r \in 1..n
        PROVE  /\ Raw(r) \in DOMAIN d2 => d2[Raw(r)] = {r}
               /\ Half(r) \in DOMAIN d2 => Dead(d2, pr2, Raw(r))
    <3>1. CASE r = n
      <4>1. Half(n) # Raw(n) /\ Half(n).kind = "dir"
        BY <1>1, OwnNames, OwnNamesDiffer
      <4>2. \A s \in 1..cl : Half(n) # Raw(s) /\ Half(n) # Half(s)
        BY <1>1, <1>6, OwnNamesDiffer
      <4>3. Half(n) \notin DOMAIN d2
        BY <1>2, <1>9, <4>1, <4>2 DEF FilesOK
      <4> QED BY <1>9, <3>1, <4>3
    <3>2. CASE r \in 1..cl
      BY <1>2, <1>6, <1>9, <1>10, <3>2 DEF FilesOK
    <3> QED BY <1>1, <3>1, <3>2
  <2> QED BY <2>1, <2>2, <2>3 DEF FilesOK
<1>16. ASSUME NEW q \in Procs PROVE Shape(n, q, pr2[q])
  <2>1. CASE q = n
    BY <1>1, <1>4, <1>5, <2>1 DEF Shape
  <2>2. CASE q # n
    <3>1. Shape(cl, q, pr[q]) /\ pr2[q] = pr[q]
      BY <1>5, <2>2 DEF Good
    <3>2. q > n <=> q > cl
      BY <1>1, <2>2, SizesTyped DEF n, Scan
    <3> QED BY <3>1, <3>2 DEF Shape
  <2> QED BY <2>1, <2>2
<1>17. ASSUME NEW q \in Procs PROVE PublishOK(d2, pr2, n, q, pr2[q], e)
  <2>a. pr2[q].pc # "publish" => PublishOK(d2, pr2, n, q, pr2[q], e)
    BY DEF PublishOK
  <2>b. pr2[q].pc = "publish" => pr2[q] = pr[q]
    BY <1>5
  <2> SUFFICES ASSUME pr[q].pc = "publish" PROVE PublishOK(d2, pr2, n, q, pr[q], e)
    BY <2>a, <2>b
  <2>1. PublishOK(d, pr, cl, q, pr[q], e) /\ Shape(cl, q, pr[q]) /\ SessionOK(d, pr, cl, q, pr[q], e)
        /\ pr[q] \in Goroutine
    BY DEF Good, ProcTyped
  <2>2. q \in Int /\ q # n
    BY <1>1, <1>3, SizesTyped DEF Scan
  <2>3. Raw(n).base # pr[q].job.dst.base
    <3>1. CASE pr[q].lock = "merge"
      BY <1>7, <1>13, <2>1, <3>1 DEF PublishOK
    <3>2. CASE pr[q].lock = "none"
      <4>1. pr[q].job.dst.base = 3 * q - 2
        BY <2>1, <2>2, <3>2, OwnNames DEF PublishOK
      <4> QED BY <1>1, <1>7, <2>2, <4>1, OwnNamesDiffer
    <3>3. CASE pr[q].lock = "session"
      <4>1. PICK r \in 1..cl : pr[q].job.dst = Half(r)
        BY <2>1, <3>3 DEF SessionOK, InSession
      <4> QED BY <1>6, <1>7, <4>1, OwnNames
    <3> QED BY <2>1, <3>1, <3>2, <3>3 DEF Goroutine
  <2>4. Raw(n) \notin Inputs(pr[q])
    <3>1. Raw(n) # Raw(q)
      BY <1>1, <2>2, OwnNamesDiffer
    <3>2. CASE pr[q].lock = "session"
      <4>1. PICK r \in 1..cl : Inputs(pr[q]) \subseteq {Raw(r), Half(r), Raw(q)}
        BY <2>1, <3>2 DEF SessionOK, InSession
      <4> QED BY <1>6, <3>1, <4>1
    <3>3. CASE pr[q].lock # "session"
      BY <1>7, <2>1, <3>1, <3>3 DEF PublishOK, Goroutine, SegKinds
    <3> QED BY <3>2, <3>3
  <2>5. pr[q].job.tmp \in DOMAIN d2 /\ d2[pr[q].job.tmp] = d[pr[q].job.tmp]
    BY <1>9, <2>1 DEF PublishOK
  <2>6. \A g \in Inputs(pr[q]) : g \in DOMAIN d2 => d2[g] \subseteq d2[pr[q].job.tmp]
    BY <1>9, <2>1, <2>4, <2>5 DEF PublishOK
  <2>7. \A g \in DOMAIN d2 :
          g.kind \in {"dir"} \cup Parks(e) /\ g.base = pr[q].job.dst.base => g \in Inputs(pr[q])
    BY <1>9, <2>1, <2>3 DEF PublishOK
  <2> QED BY <1>12, <2>1, <2>5, <2>6, <2>7 DEF PublishOK
<1>18. ASSUME NEW q \in Procs PROVE SessionOK(d2, pr2, n, q, pr2[q], e)
  <2> SUFFICES ASSUME InSession(pr[q]) PROVE SessionOK(d2, pr2, n, q, pr[q], e)
    BY <1>5 DEF SessionOK, InSession
  <2>1. SessionOK(d, pr, cl, q, pr[q], e)
    BY DEF Good
  <2>2. PICK r \in 1..cl :
       /\ r # q /\ r > e.old /\ pr[r].pc = "done" /\ pr[q].job.dst = Half(r)
       /\ pr[Scan].pc \in {"orphan", "upload"} => pr[Scan].file # Half(r)
       /\ Raw(r) \in DOMAIN d => pr[q].pc = "publish" /\ Raw(r) \in Inputs(pr[q])
       /\ pr[q].pc = "publish" =>
             /\ pr[q].job.tmp = File("sessiontmp", 3 * r, 0) /\ pr[q].job.then \in {"regroup", "deliver"}
             /\ Inputs(pr[q]) \subseteq {Raw(r), Half(r), Raw(q)}
       /\ pr[q].pc # "publish" => pr[q].file = Half(r)
    BY <2>1 DEF SessionOK
  <2>3. r \in Procs /\ Scan \in Procs /\ pr2[Scan] = pr[Scan]
    BY <1>1, <1>5, Numbers, SizesTyped
  <2>4. pr2[r].pc = "done" /\ r \in 1..n /\ (Raw(r) \in DOMAIN d2 => Raw(r) \in DOMAIN d)
    BY <1>1, <1>5, <1>6, <1>9, <2>2, <2>3
  <2> QED BY <2>2, <2>3, <2>4 DEF SessionOK
<1>19. ASSUME NEW q \in Procs PROVE UploadOK(d2, pr2, n, q, pr2[q], e)
  <2> SUFFICES ASSUME pr[q].pc \in {"orphan", "upload"} PROVE UploadOK(d2, pr2, n, q, pr[q], e)
    BY <1>5 DEF UploadOK
  <2>1. UploadOK(d, pr, cl, q, pr[q], e)
    BY DEF Good
  <2>2. \/ pr[q].file.kind \in SegKinds /\ pr[q].lock = "merge" /\ Over(d2, pr2, n, pr[q].file.base, e)
        \/ q = Scan /\ \E r \in 1..n : pr[q].file = Raw(r) \/ (pr[q].file = Half(r) /\ Dead(d2, pr2, Raw(r)))
        \/ q = Scan /\ \E r \in 1..e.old : pr[q].file = JoinTmp(r)
    BY <1>1, <1>6, <1>10, <1>12, <2>1 DEF UploadOK
  <2>3. pr[q].file # Raw(n)
    BY <1>6, <1>7, <2>1, JoinTmpIs DEF UploadOK, SegKinds
  <2>4. pr[q].pc = "upload" =>
          /\ pr[q].file \in DOMAIN d2 => d2[pr[q].file] \subseteq pr[q].held
          /\ \A r \in 1..n : pr[q].file = Raw(r) => r \in pr[q].held
    BY <1>1, <1>9, <2>1, <2>3 DEF UploadOK
  <2> QED BY <2>2, <2>4 DEF UploadOK
<1>c. EpochOK(pr2, n, e)
  <2>1. EpochOK(pr, cl, e) /\ n \in 0..N
    BY <1>1 DEF Good
  <2>2. \A r \in 1..cl : pr[r].pc = "done" => pr2[r].pc = "done"
    BY <1>1, <1>5, Numbers
  <2> QED BY <1>1, <2>1, <2>2, EpochStays
<1>20. Good(d2, pr2, n, e)
  BY <1>1, <1>14, <1>15, <1>16, <1>17, <1>18, <1>19, <1>c DEF Good, n
<1> QED BY <1>11, <1>20 DEF n

OnFile(u, f) == u.pc \in {"orphan", "upload"} /\ u.file = f
Flushing(pr) == \E p \in Procs : pr[p].pc = "flush"

\* The file held for the next fragment is the recording of a goroutine that is
\* done, or the file a merge made of it: that one is marked and not uploaded,
\* unless it is gone or being sent off.
GroupOK(d, pr, cl, gr, fl, e) ==
  gr # NoFile =>
    \E r \in 1..cl :
       /\ pr[r].pc = "done" /\ r > e.old
       /\ \/ gr = Raw(r)
          \/ /\ gr = Half(r) /\ Dead(d, pr, Raw(r))
             /\ Dead(d, pr, gr) \/ Flushing(pr) \/ (gr \in fl /\ ~OnFile(pr[Scan], gr))

Sound(d, pr, cl, gr, fl, e) == Good(d, pr, cl, e) /\ GroupOK(d, pr, cl, gr, fl, e)

\* The file held for the next fragment stays what it was.
LEMMA GroupLasts ==
  ASSUME NEW e, NEW d, NEW pr, NEW cl \in 0..N, NEW gr, NEW fl, GroupOK(d, pr, cl, gr, fl, e),
         NEW d2, NEW pr2, NEW cl2 \in 0..N, NEW fl2, cl <= cl2, Lasting(d, pr, cl, d2, pr2, e),
         \A r \in 1..cl : pr[r].pc = "done" => pr2[r].pc = "done",
         Flushing(pr) => Flushing(pr2),
         gr \in fl /\ ~OnFile(pr[Scan], gr) => gr \in fl2,
         OnFile(pr2[Scan], gr) => OnFile(pr[Scan], gr)
  PROVE  GroupOK(d2, pr2, cl2, gr, fl2, e)
<1> SUFFICES ASSUME gr # NoFile PROVE GroupOK(d2, pr2, cl2, gr, fl2, e)
  BY DEF GroupOK
<1>1. PICK r \in 1..cl :
       /\ pr[r].pc = "done" /\ r > e.old
       /\ \/ gr = Raw(r)
          \/ /\ gr = Half(r) /\ Dead(d, pr, Raw(r))
             /\ Dead(d, pr, gr) \/ Flushing(pr) \/ (gr \in fl /\ ~OnFile(pr[Scan], gr))
  BY DEF GroupOK
<1>2. r \in 1..cl2
  BY SizesTyped
<1>3. Dead(d, pr, Raw(r)) => /\ Dead(d2, pr2, Raw(r))
                             /\ Dead(d, pr, Half(r)) => Dead(d2, pr2, Half(r))
  BY DEF Lasting
<1> QED BY <1>1, <1>2, <1>3 DEF GroupOK

\* Tidying, and the held file.
LEMMA TidySound ==
  ASSUME NEW e, NEW d, NEW pr, NEW cl, NEW gr, NEW fl, Sound(d, pr, cl, gr, fl, e),
         NEW d2, DiskTyped(d2, cl), Tidies(d, pr, d2, e)
  PROVE  Sound(d2, pr, cl, gr, fl, e)
<1>1. Good(d, pr, cl, e) /\ GroupOK(d, pr, cl, gr, fl, e) /\ cl \in 0..N /\ cl <= cl
  BY SizesTyped DEF Sound, Good
<1>2. Lasting(d, pr, cl, d2, pr, e)
  BY <1>1, TidyLasts
<1>3. GroupOK(d2, pr, cl, gr, fl, e)
  BY <1>1, <1>2, GroupLasts
<1> QED BY <1>1, <1>3, TidyOK DEF Sound

\* A goroutine that goes on, and the held file.
LEMMA MoveSound ==
  ASSUME NEW e, NEW d, NEW pr, NEW cl, NEW gr, NEW fl, Sound(d, pr, cl, gr, fl, e), NEW fl2,
         NEW p \in Procs, NEW u, NEW pr2, pr2 = [pr EXCEPT ![p] = u],
         ProcTyped(pr2), u.lock = "none" \/ \A q \in Procs \ {p} : pr[q].lock # u.lock,
         Moves(d, pr, cl, p, u, e),
         pr[p].pc # "flush", gr \in fl /\ ~OnFile(pr[Scan], gr) => gr \in fl2,
         p = Scan /\ OnFile(u, gr) => OnFile(pr[Scan], gr)
  PROVE  Sound(d, pr2, cl, gr, fl2, e)
<1>1. /\ Good(d, pr, cl, e) /\ GroupOK(d, pr, cl, gr, fl, e) /\ cl \in 0..N /\ cl <= cl
      /\ pr \in [Procs -> Goroutine] /\ Exclusive(pr)
  BY SizesTyped DEF Sound, Good, ProcTyped
<1>2. pr2[p] = u /\ \A q \in Procs \ {p} : pr2[q] = pr[q]
  BY <1>1
<1>3. Exclusive(pr2)
  BY <1>1, <1>2 DEF Exclusive
<1>4. Good(d, pr2, cl, e)
  BY <1>1, <1>2, <1>3, MoveOK
<1>5. \A f : Dead(d, pr, f) => Dead(d, pr2, f)
  BY <1>2 DEF Dead, Moves
<1>6. Lasting(d, pr, cl, d, pr2, e)
  BY <1>5 DEF Lasting
<1>7. \A r \in 1..cl : pr[r].pc = "done" => pr2[r].pc = "done"
  <2> SUFFICES ASSUME NEW r \in 1..cl, pr[r].pc = "done" PROVE pr2[r].pc = "done"
    OBVIOUS
  <2>1. r \in Procs /\ r # Scan
    BY <1>1, Numbers
  <2> QED BY <1>2, <2>1 DEF Moves
<1>8. Flushing(pr) => Flushing(pr2)
  BY <1>2 DEF Flushing
<1>9. OnFile(pr2[Scan], gr) => OnFile(pr[Scan], gr)
  BY <1>2, SizesTyped
<1>10. GroupOK(d, pr2, cl, gr, fl2, e)
  BY <1>1, <1>6, <1>7, <1>8, <1>9, GroupLasts
<1> QED BY <1>4, <1>10 DEF Sound

\* What a step leaves of the footage.
Footage(d, st, disc) == (UNION {d[f] : f \in DOMAIN d}) \cup (UNION st) \cup disc

\* Footage is kept if every file's is.
LEMMA FootageKept ==
  ASSUME NEW d, NEW st, NEW disc, NEW d2, NEW st2, NEW disc2,
         \A f \in DOMAIN d : d[f] \subseteq Footage(d2, st2, disc2),
         st \subseteq st2, disc \subseteq disc2
  PROVE  Footage(d, st, disc) \subseteq Footage(d2, st2, disc2)
BY DEF Footage

\* What a rewrite owns is scratch.
LEMMA OwnedIs ==
  ASSUME NEW e, NEW d, NEW pr, NEW cl, Good(d, pr, cl, e), NEW f, Owned(pr, f)
  PROVE  f.kind \in TmpKinds
<1>1. PICK p \in Procs : pr[p].pc = "publish" /\ pr[p].job.tmp = f
  BY DEF Owned
<1>2. PublishOK(d, pr, cl, p, pr[p], e) /\ SessionOK(d, pr, cl, p, pr[p], e) /\ pr[p] \in Goroutine
  BY DEF Good, ProcTyped
<1>3. CASE pr[p].lock = "session"
  BY <1>1, <1>2, <1>3, FileIs DEF SessionOK, InSession, TmpKinds
<1>4. CASE pr[p].lock # "session"
  BY <1>1, <1>2, <1>4, FileIs DEF PublishOK, TmpKinds, Goroutine
<1> QED BY <1>3, <1>4

\* No merge owns the scratch of one that died.
LEMMA OldJoinTmpFree ==
  ASSUME NEW e, NEW d, NEW pr, NEW cl, Good(d, pr, cl, e), NEW r \in 1..e.old
  PROVE  ~Owned(pr, JoinTmp(r))
<1> SUFFICES ASSUME NEW p \in Procs, pr[p].pc = "publish", pr[p].job.tmp = JoinTmp(r) PROVE FALSE
  BY DEF Owned
<1>1. PublishOK(d, pr, cl, p, pr[p], e) /\ SessionOK(d, pr, cl, p, pr[p], e) /\ pr[p] \in Goroutine
      /\ EpochOK(pr, cl, e) /\ cl \in 0..N
  BY DEF Good, ProcTyped
<1>2. JoinTmp(r).kind = "sessiontmp"
  BY JoinTmpIs
<1>3. pr[p].lock = "session"
  BY <1>1, <1>2, FileIs DEF PublishOK, Goroutine
<1>4. PICK s \in 1..cl : s > e.old /\ pr[p].job.tmp = JoinTmp(s)
  BY <1>1, <1>3 DEF SessionOK, InSession, JoinTmp
<1>5. s \in Int /\ r \in Int /\ s # r
  BY <1>1, <1>4, SizesTyped DEF EpochOK
<1>6. JoinTmp(r).base = 3 * r /\ JoinTmp(s).base = 3 * s
  BY JoinTmpIs
<1>7. 3 * r = 3 * s
  BY <1>4, <1>6
<1> QED BY <1>5, <1>7

(* The ways the steps tidy. *)
LEMMA RemoveTidies ==
  ASSUME NEW e, NEW d, NEW pr, NEW cl, Good(d, pr, cl, e), NEW f, ~Owned(pr, f)
  PROVE  Tidies(d, pr, Without(d, {f}), e)
BY DEF Tidies, Without, Restrict

\* Parking a file tidies: nothing has its place in .pending yet.
LEMMA ParkTidies ==
  ASSUME NEW e, NEW d, NEW pr, NEW cl, Good(d, pr, cl, e), NEW f \in DOMAIN d,
         \/ f.kind = "dir" /\ \A q \in Procs : pr[q].pc = "publish" => pr[q].job.dst # f
         \/ f.kind = "sessiontmp" /\ ~Owned(pr, f)
  PROVE  /\ Tidies(d, pr, Rename(d, f, Parked(f)), e)
         /\ Parked(f) \notin DOMAIN d /\ Parked(f).kind = "pending"
         /\ DOMAIN Rename(d, f, Parked(f)) = (DOMAIN d \ {f}) \cup {Parked(f)}
         /\ Rename(d, f, Parked(f))[Parked(f)] = d[f]
         /\ \A g \in DOMAIN d \ {f} : Rename(d, f, Parked(f))[g] = d[g]
<1> DEFINE g == Parked(f)
           d2 == Rename(d, f, g)
<1>1. g = File("pending", f.base, 0)
  BY DEF Parked
<1>2. g.kind = "pending" /\ g.base = f.base
  BY <1>1, FileIs
<1>3. ~Over(d, pr, cl, f.base, e) /\ ~Owned(pr, f)
  BY AliveNotOver, LeftOverIs, OwnedIs DEF TmpKinds
<1>4. g \notin DOMAIN d
  BY <1>2, <1>3 DEF Good, FilesOK, ParkKinds
<1> HIDE DEF g
<1>5. /\ DOMAIN d2 = (DOMAIN d \ {f}) \cup {g} /\ d2[g] = d[f]
      /\ \A h \in DOMAIN d \ {f} : d2[h] = d[h]
  BY <1>4 DEF Rename, Put, Without, Restrict
<1> HIDE DEF d2
<1>6. f # g /\ f \in DOMAIN d \ DOMAIN d2
  BY <1>4, <1>5
<1>7. Taken(d, pr, g, f, e)
  BY <1>2 DEF Taken
<1>8. Tidies(d, pr, d2, e)
  BY <1>3, <1>4, <1>5, <1>6, <1>7 DEF Tidies
<1> QED BY <1>2, <1>4, <1>5, <1>8 DEF d2, g

\* So does quarantine, when no merge is at work: only what was in corrupt/ may
\* be gone.
Survives(d, q, e) ==
  \A f \in DOMAIN d : \/ \E g \in DOMAIN q : q[g] = d[f]
                      \/ f.kind = "corrupt" /\ e.runs # 0
LEMMA QuarantineTidies ==
  ASSUME NEW e, NEW d, NEW pr, NEW cl, Good(d, pr, cl, e), NEW bad, bad = {} \/ \E f : bad = {f},
         bad \subseteq Segments(d), \A q \in Procs : pr[q].lock # "merge"
  PROVE  /\ Tidies(d, pr, Quarantined(d, bad), e)
         /\ Survives(d, Quarantined(d, bad), e)
         /\ \A f \in DOMAIN d \ bad : \/ f \in DOMAIN Quarantined(d, bad) /\ Quarantined(d, bad)[f] = d[f]
                                      \/ f.kind = "corrupt" /\ e.runs # 0
         /\ \A f \in DOMAIN Quarantined(d, bad) : f \in DOMAIN d \ bad \/ f.kind = "corrupt"
<1>0. bad \subseteq DOMAIN d /\ \A f \in bad : f.kind \in SegKinds
  BY DEF Segments, SegKinds
<1>1. DiskTyped(d, cl)
  BY DEF Good
<1>2. CASE bad = {}
  <2>1. /\ DOMAIN Quarantined(d, bad) = DOMAIN d
        /\ \A f \in DOMAIN d : Quarantined(d, bad)[f] = d[f]
    BY <1>2 DEF Quarantined
  <2> QED BY <1>2, <2>1 DEF Tidies, Survives
<1>3. ASSUME NEW f, bad = {f} PROVE
         /\ Tidies(d, pr, Quarantined(d, bad), e)
         /\ Survives(d, Quarantined(d, bad), e)
         /\ \A h \in DOMAIN d \ bad : \/ h \in DOMAIN Quarantined(d, bad) /\ Quarantined(d, bad)[h] = d[h]
                                      \/ h.kind = "corrupt" /\ e.runs # 0
         /\ \A h \in DOMAIN Quarantined(d, bad) : h \in DOMAIN d \ bad \/ h.kind = "corrupt"
  <2> DEFINE c == Corrupt(f)
             q == Quarantined(d, bad)
  <2>1. f \in DOMAIN d /\ f.kind \in SegKinds
    BY <1>0, <1>3
  <2>2. c.kind = "corrupt" /\ c.base = f.base /\ c = Corrupt(f)
    BY FileIs DEF Corrupt
  <2> HIDE DEF c
  <2>3. c \notin DOMAIN d \/ e.runs # 0
    <3> SUFFICES ASSUME c \in DOMAIN d, e.runs = 0 PROVE FALSE
      OBVIOUS
    <3>1. c = f
      BY <2>1, <2>2 DEF Good, FilesOK, Parks, ParkKinds, SegKinds
    <3> QED BY <2>1, <2>2, <3>1 DEF SegKinds
  <2>4. /\ DOMAIN q = (DOMAIN d \ {f}) \cup {c}
        /\ \A g \in DOMAIN d \ {f} : q[g] = d[g] \/ (g = c /\ e.runs # 0)
        /\ q[c] = d[f]
    <3>1. /\ DOMAIN q = (DOMAIN d \ {f}) \cup {c}
          /\ \A g \in DOMAIN d \ {f, c} : q[g] = d[g]
          /\ q[c] = d[f]
      <4>1. q = Quarantined(d, {f})
        BY <1>3
      <4>2. /\ DOMAIN Quarantined(d, {f}) = (DOMAIN d \ {f}) \cup {c}
            /\ \A g \in DOMAIN d \ {f, c} : Quarantined(d, {f})[g] = d[g]
            /\ Quarantined(d, {f})[c] = d[f]
        BY QuarantinedIs DEF c
      <4> HIDE DEF q
      <4> QED BY <4>1, <4>2
    <3> QED BY <2>3, <3>1
  <2> HIDE DEF q
  <2>5. Taken(d, pr, c, f, e)
    BY <2>1, <2>2 DEF Taken
  <2>6. f \in DOMAIN d \ DOMAIN q
    BY <2>1, <2>2, <2>4 DEF SegKinds
  <2>a. \A g : Owned(pr, g) => g.kind \in TmpKinds
    BY OwnedIs
  <2>7. Tidies(d, pr, q, e)
    <3>1. \A g \in DOMAIN d : Owned(pr, g) => g \in DOMAIN q
      BY <2>1, <2>4, <2>a DEF TmpKinds, SegKinds
    <3>2. ASSUME NEW g \in DOMAIN q
          PROVE  \/ g \in DOMAIN d /\ q[g] = d[g]
                 \/ /\ g \notin DOMAIN d \/ (g.kind = "corrupt" /\ e.runs # 0)
                    /\ \E h \in DOMAIN d \ DOMAIN q : Taken(d, pr, g, h, e) /\ q[g] = d[h]
      BY <2>2, <2>3, <2>4, <2>5, <2>6
    <3> QED BY <3>1, <3>2 DEF Tidies
  <2>8. Survives(d, q, e)
    BY <2>2, <2>4 DEF Survives
  <2>9. \A h \in DOMAIN d \ bad : (h \in DOMAIN q /\ q[h] = d[h]) \/ (h.kind = "corrupt" /\ e.runs # 0)
    BY <1>3, <2>2, <2>4
  <2>10. \A h \in DOMAIN q : h \in DOMAIN d \ bad \/ h.kind = "corrupt"
    BY <1>3, <2>2, <2>4
  <2> QED BY <2>7, <2>8, <2>9, <2>10 DEF q
<1> QED BY <1>2, <1>3

-----------------------------------------------------------------------------
(* The steps that only move a goroutine on, tidying the directory first.      *)

Calm == crashes = 0 /\ ~renameFailed /\ ~compress
Orderly(e) == Sound(disk, proc, closed, group.file, inflight, e)
Keeps == Footage(disk, sent, discarded) \subseteq Footage(disk', sent', discarded')

\* Once a run has ended, a step may lose scratch left behind, or what is in
\* corrupt/; it loses nothing else.
Spare(f, e) == e.runs # 0 /\ f.kind \in {"merging", "finalizing", "corrupt"}
KeepsBut(e) ==
  /\ (UNION sent) \cup discarded \subseteq Footage(disk', sent', discarded')
  /\ \A f \in DOMAIN disk : disk[f] \subseteq Footage(disk', sent', discarded') \/ Spare(f, e)

\* What is known in an orderly state of a goroutine.
LEMMA Now ==
  ASSUME NEW e, Orderly(e), NEW p \in Procs
  PROVE  /\ Good(disk, proc, closed, e) /\ GroupOK(disk, proc, closed, group.file, inflight, e)
         /\ closed \in 0..N /\ closed <= closed /\ FilesOK(disk, proc, closed, e) /\ Exclusive(proc)
         /\ proc \in [Procs -> Goroutine] /\ proc[p] \in Goroutine /\ Named(p, proc[p])
         /\ Shape(closed, p, proc[p]) /\ PublishOK(disk, proc, closed, p, proc[p], e)
         /\ SessionOK(disk, proc, closed, p, proc[p], e) /\ UploadOK(disk, proc, closed, p, proc[p], e)
<1>1. Good(disk, proc, closed, e) /\ GroupOK(disk, proc, closed, group.file, inflight, e)
  BY DEF Orderly, Sound
<1>2. closed \in 0..N
  BY <1>1 DEF Good
<1>3. closed <= closed
  BY <1>2, SizesTyped
<1> QED BY <1>1, <1>2, <1>3 DEF Good, ProcTyped

\* A goroutine at work has a closed recording.
LEMMA AtWork ==
  ASSUME NEW e, Orderly(e), NEW p \in Recs, proc[p].pc # "idle"
  PROVE  /\ p \in Procs /\ p # Scan /\ p \in 1..closed /\ ~(p > closed) /\ p \in Int
         /\ proc[p].pc # "done" => p > e.old
<1>1. p \in Procs /\ p # Scan /\ p \in Int
  BY SizesTyped
<1>2. p \in 1..closed /\ ~(p > closed)
  BY <1>1, Now, SizesTyped DEF Shape
<1>3. e.old \in 0..closed /\ closed \in 0..N /\ (p \in 1..e.old => proc[p].pc = "done")
  BY <1>1, Now DEF Good, EpochOK
<1> QED BY <1>1, <1>2, <1>3, SizesTyped

\* The goroutines of recordings go on without a lock.
LEMMA MovesOn ==
  ASSUME NEW e, Orderly(e), NEW d, NEW p \in Procs, proc[p].pc \notin {"idle", "publish"},
         p # Scan => proc[p].pc # "done", NEW f,
         NEW pc \in {"ready", "encode", "session", "mindur", "egress", "done"},
         p # Scan \/ pc = "done", pc = "egress" => f = Raw(p)
  PROVE  Moves(d, proc, closed, p, At(pc, f, "none", NoJob), e)
<1> DEFINE u == At(pc, f, "none", NoJob)
<1>1. u.pc = pc /\ u.lock = "none" /\ u.file = f
  BY AtIs
<1> HIDE DEF u
<1>2. p # Scan => ~(p > closed)
  BY Now DEF Shape
<1>3. Shape(closed, p, u)
  BY <1>1, <1>2 DEF Shape
<1>4. UploadOK(d, proc, closed, p, u, e)
  BY <1>1 DEF UploadOK
<1> QED BY <1>1, <1>3, <1>4 DEF Moves, u

\* A step that tidies the directory and moves one goroutine on.
LEMMA MovedGood ==
  ASSUME NEW e, Orderly(e), TypeInv', UNCHANGED closed, Tidies(disk, proc, disk', e),
         NEW p \in Procs, NEW u, proc' = [proc EXCEPT ![p] = u], Moves(disk', proc, closed, p, u, e),
         u.lock = "none" \/ Free(p, u.lock)
  PROVE  /\ Good(disk', proc', closed', e) /\ Lasting(disk, proc, closed, disk', proc', e)
         /\ \A f : f.kind = "dir" /\ Dead(disk, proc, f) => Dead(disk', proc', f)
         /\ Sound(disk', proc, closed, group.file, inflight, e)
<1>1. DiskTyped(disk', closed) /\ ProcTyped(proc')
  BY DEF TypeInv
<1>2. Sound(disk', proc, closed, group.file, inflight, e)
  BY <1>1, TidySound DEF Orderly
<1>3. Good(disk', proc, closed, e) /\ Exclusive(proc) /\ proc \in [Procs -> Goroutine] /\ closed \in 0..N
  BY <1>2, Now DEF Sound
<1>4. proc'[p] = u /\ \A q \in Procs \ {p} : proc'[q] = proc[q]
  BY <1>3
<1>5. Exclusive(proc')
  BY <1>3, <1>4 DEF Exclusive, Free
<1>6. Good(disk', proc', closed, e)
  BY <1>1, <1>3, <1>4, <1>5, MoveOK
<1>7. \A f : Dead(disk', proc, f) => Dead(disk', proc', f)
  BY <1>4 DEF Dead, Moves
<1>8. Good(disk, proc, closed, e)
  BY Now
<1>9. \A f : f.kind = "dir" /\ Dead(disk, proc, f) => Dead(disk', proc, f)
  BY <1>8, TidyLasts
<1>10. \A r \in 1..closed : Raw(r).kind = "dir" /\ Half(r).kind = "dir"
  BY <1>3, Numbers
<1>11. Lasting(disk, proc, closed, disk', proc', e)
  <2>1. Lasting(disk, proc, closed, disk', proc, e)
    BY <1>8, TidyLasts
  <2> QED BY <1>7, <1>9, <1>10, <2>1 DEF Lasting
<1> QED BY <1>2, <1>6, <1>7, <1>9, <1>11

\* An orderly state stays so when a goroutine tidies and goes on.
LEMMA Moved ==
  ASSUME NEW e, Orderly(e), TypeInv', UNCHANGED closed, Tidies(disk, proc, disk', e),
         NEW p \in Procs, NEW u, proc' = [proc EXCEPT ![p] = u], Moves(disk', proc, closed, p, u, e),
         u.lock = "none" \/ Free(p, u.lock), proc[p].pc # "flush",
         group'.file = group.file \/ group'.file = NoFile,
         group.file \in inflight /\ ~OnFile(proc[Scan], group.file) => group.file \in inflight',
         p = Scan /\ OnFile(u, group.file) => OnFile(proc[Scan], group.file)
  PROVE  Orderly(e)'
<1>1. Good(disk', proc', closed', e) /\ Sound(disk', proc, closed, group.file, inflight, e)
  BY MovedGood
<1>2. CASE group'.file = NoFile
  BY <1>1, <1>2 DEF Orderly, Sound, GroupOK
<1>3. CASE group'.file = group.file
  <2>1. ProcTyped(proc')
    BY DEF TypeInv
  <2>2. u.lock = "none" \/ \A q \in Procs \ {p} : proc[q].lock # u.lock
    BY DEF Free
  <2>3. Sound(disk', proc', closed, group.file, inflight', e)
    BY <1>1, <2>1, <2>2, MoveSound
  <2> QED BY <1>3, <2>3 DEF Orderly
<1> QED BY <1>2, <1>3

LEMMA StillTidy ==
  ASSUME NEW e, UNCHANGED disk
  PROVE  Tidies(disk, proc, disk', e)
BY DEF Tidies

LEMMA StillThere ==
  ASSUME UNCHANGED <<disk, sent, discarded>>
  PROVE  Keeps
BY DEF Keeps, Footage

\* A goroutine is done.
LEMMA Finished ==
  ASSUME NEW e, Orderly(e), NEW d, NEW p \in Procs, proc[p].pc \notin {"idle", "publish"},
         p # Scan => proc[p].pc # "done", Finish(p)
  PROVE  /\ proc' = [proc EXCEPT ![p] = At("done", NoFile, "none", NoJob)]
         /\ Moves(d, proc, closed, p, At("done", NoFile, "none", NoJob), e)
         /\ At("done", NoFile, "none", NoJob).lock = "none"
         /\ ~OnFile(At("done", NoFile, "none", NoJob), group.file)
<1>1. proc' = [proc EXCEPT ![p] = At("done", NoFile, "none", NoJob)]
  BY DEF Finish, Goto, Step
<1>2. Moves(d, proc, closed, p, At("done", NoFile, "none", NoJob), e)
  BY MovesOn
<1> QED BY <1>1, <1>2, AtIs DEF OnFile

LEMMA FinishedOrderly ==
  ASSUME NEW e, Orderly(e), TypeInv', UNCHANGED closed, Tidies(disk, proc, disk', e),
         NEW p \in Procs, proc[p].pc \notin {"idle", "publish", "flush"},
         p # Scan => proc[p].pc # "done", Finish(p),
         group'.file = group.file \/ group'.file = NoFile,
         group.file \in inflight /\ ~OnFile(proc[Scan], group.file) => group.file \in inflight'
  PROVE  Orderly(e)'
<1> DEFINE u == At("done", NoFile, "none", NoJob)
<1>1. /\ proc' = [proc EXCEPT ![p] = u] /\ Moves(disk', proc, closed, p, u, e)
      /\ u.lock = "none" /\ ~OnFile(u, group.file)
  BY Finished
<1> HIDE DEF u
<1> QED BY <1>1, Moved

\* A goroutine goes on to its next stage.
LEMMA WentOn ==
  ASSUME NEW e, Orderly(e), TypeInv', UNCHANGED closed, Tidies(disk, proc, disk', e),
         NEW p \in Recs, proc[p].pc \notin {"idle", "publish", "flush", "done"},
         NEW pc \in {"ready", "encode", "session", "mindur", "egress"}, NEW f,
         pc = "egress" => f = Raw(p), Goto(p, pc, f, "none"),
         group'.file = group.file \/ group'.file = NoFile,
         group.file \in inflight /\ ~OnFile(proc[Scan], group.file) => group.file \in inflight'
  PROVE  Orderly(e)'
<1> DEFINE u == At(pc, f, "none", NoJob)
<1>1. proc' = [proc EXCEPT ![p] = u]
  BY DEF Goto, Step
<1>2. p \in Procs /\ p # Scan
  BY SizesTyped
<1>3. Moves(disk', proc, closed, p, u, e)
  BY <1>2, MovesOn
<1>4. u.lock = "none"
  BY AtIs
<1> HIDE DEF u
<1> QED BY <1>1, <1>2, <1>3, <1>4, Moved

\* ProcessPendingFile takes a recording from the queue.
LEMMA ProcessPendingFileKeeps ==
  ASSUME NEW e, Orderly(e), TypeInv', NEW r \in Recs, ProcessPendingFile(r)
  PROVE  Orderly(e)' /\ Keeps
<1>1. /\ proc[r].pc = "ready" /\ UNCHANGED <<closed, disk, group, inflight, sent, discarded>>
      /\ Goto(r, "encode", Raw(r), "none") \/ Finish(r)
  BY DEF ProcessPendingFile, source
<1>2. Tidies(disk, proc, disk', e) /\ Keeps
  BY <1>1, StillTidy, StillThere
<1>3. r \in Procs
  BY SizesTyped
<1>4. CASE Finish(r)
  BY <1>1, <1>2, <1>3, <1>4, FinishedOrderly
<1>5. CASE Goto(r, "encode", Raw(r), "none")
  BY <1>1, <1>2, <1>5, WentOn
<1> QED BY <1>1, <1>2, <1>4, <1>5

LEMMA VanishedKeeps ==
  ASSUME NEW e, Orderly(e), TypeInv', NEW p \in Recs, Vanished(p)
  PROVE  Orderly(e)' /\ Keeps
<1>1. /\ proc[p].pc \in {"session", "mindur"} /\ UNCHANGED <<closed, disk, group, inflight, sent, discarded>>
      /\ Finish(p)
  BY DEF Vanished, source
<1>2. Tidies(disk, proc, disk', e) /\ Keeps
  BY <1>1, StillTidy, StillThere
<1>3. p \in Procs
  BY SizesTyped
<1> QED BY <1>1, <1>2, <1>3, FinishedOrderly

\* What Deliver does with a file that is no scratch.
LEMMA DeliverTidies ==
  ASSUME NEW e, Orderly(e), NEW f, f.kind \notin TmpKinds, Deliver(f)
  PROVE  Tidies(disk, proc, disk', e) /\ Keeps /\ disk' = Without(disk, {f}) /\ f \notin DOMAIN disk'
<1>1. disk' = Without(disk, {f})
  BY DEF Deliver
<1>2. Tidies(disk, proc, disk', e)
  BY <1>1, RemoveTidies, OwnedIs DEF Orderly, Sound
<1>3. sent \subseteq sent' /\ discarded \subseteq discarded'
  BY DEF Deliver
<1>4. DOMAIN disk' = DOMAIN disk \ {f} /\ \A g \in DOMAIN disk \ {f} : disk'[g] = disk[g]
  BY <1>1 DEF Without, Restrict
<1>5. f \in DOMAIN disk => disk[f] \subseteq Footage(disk', sent', discarded')
  BY DEF Deliver, Exists, Footage
<1>6. \A g \in DOMAIN disk \ {f} : disk[g] \subseteq Footage(disk', sent', discarded')
  BY <1>4 DEF Footage
<1>7. Keeps
  BY <1>3, <1>5, <1>6, FootageKept DEF Keeps
<1> QED BY <1>1, <1>2, <1>4, <1>7

\* A file goes to the pipeline.
LEMMA MoveToOutputDirKeeps ==
  ASSUME NEW e, Orderly(e), TypeInv', NEW p \in Recs, MoveToOutputDir(p)
  PROVE  Orderly(e)' /\ Keeps
<1>1. /\ proc[p].pc = "egress" /\ UNCHANGED <<closed, group, inflight>>
      /\ Deliver(proc[p].file) /\ Finish(p)
  BY DEF MoveToOutputDir, source
<1>2. p \in Procs /\ p \in Int
  BY SizesTyped
<1>3. proc[p].file = Raw(p) \/ proc[p].file.kind = "merged"
  BY <1>1, <1>2, Now DEF Shape
<1>4. proc[p].file.kind \notin TmpKinds
  BY <1>2, <1>3, OwnNames DEF TmpKinds
<1>5. Tidies(disk, proc, disk', e) /\ Keeps
  BY <1>1, <1>4, DeliverTidies
<1> QED BY <1>1, <1>2, <1>5, FinishedOrderly

\* The last fragment sends the joined file off.
LEMMA DeliverSessionKeeps ==
  ASSUME NEW e, Orderly(e), TypeInv', NEW p \in Recs, DeliverSession(p)
  PROVE  Orderly(e)' /\ Keeps
<1>1. /\ proc[p].pc = "deliver" /\ UNCHANGED <<closed>> /\ group' = NoGroup
      /\ Deliver(proc[p].file) /\ Finish(p)
  BY DEF DeliverSession, source
<1>2. p \in Procs
  BY SizesTyped
<1>3. proc[p].lock = "session" /\ SessionOK(disk, proc, closed, p, proc[p], e) /\ closed \in 0..N
  BY <1>1, <1>2, Now DEF Shape
<1>4. \E r \in 1..closed : proc[p].file = Half(r)
  BY <1>1, <1>3 DEF SessionOK, InSession
<1>5. proc[p].file.kind \notin TmpKinds
  BY <1>3, <1>4, Numbers DEF TmpKinds
<1>6. Tidies(disk, proc, disk', e) /\ Keeps
  BY <1>1, <1>5, DeliverTidies
<1>7. group'.file = NoFile
  BY <1>1 DEF NoGroup
<1>8. Good(disk', proc', closed', e)
  <2> DEFINE u == At("done", NoFile, "none", NoJob)
  <2>1. /\ proc' = [proc EXCEPT ![p] = u] /\ Moves(disk', proc, closed, p, u, e) /\ u.lock = "none"
    BY <1>1, <1>2, Finished
  <2> HIDE DEF u
  <2> QED BY <1>1, <1>2, <1>6, <2>1, MovedGood
<1>9. Orderly(e)'
  BY <1>7, <1>8 DEF Orderly, Sound, GroupOK
<1> QED BY <1>6, <1>9

\* The first fragment is held.
LEMMA HoldFirstKeeps ==
  ASSUME NEW e, Orderly(e), TypeInv', NEW p \in Recs, HoldFirst(p)
  PROVE  Orderly(e)' /\ Keeps
<1>1. /\ proc[p].pc = "session" /\ UNCHANGED <<closed, disk, sent, discarded>>
      /\ group = NoGroup
      /\ \/ Goto(p, "mindur", proc[p].file, "none") /\ UNCHANGED <<group, inflight>>
         \/ Finish(p) /\ group'.file = proc[p].file
  BY DEF HoldFirst, Hold, source
<1>2. Tidies(disk, proc, disk', e) /\ Keeps
  BY <1>1, StillTidy, StillThere
<1>3. p \in Procs /\ p \in 1..closed /\ p > e.old
  BY <1>1, AtWork
<1>4. CASE Goto(p, "mindur", proc[p].file, "none") /\ UNCHANGED <<group, inflight>>
  BY <1>1, <1>2, <1>4, WentOn
<1>5. CASE Finish(p) /\ group'.file = proc[p].file
  <2> DEFINE u == At("done", NoFile, "none", NoJob)
  <2>1. /\ proc' = [proc EXCEPT ![p] = u] /\ Moves(disk', proc, closed, p, u, e) /\ u.lock = "none"
    BY <1>1, <1>3, <1>5, Finished
  <2>2. u.pc = "done"
    BY AtIs
  <2> HIDE DEF u
  <2>3. Good(disk', proc', closed', e)
    BY <1>1, <1>2, <1>3, <2>1, MovedGood
  <2>4. group'.file = Raw(p) /\ proc'[p].pc = "done"
    BY <1>1, <1>3, <1>5, <2>1, <2>2, Now DEF Named
  <2>5. GroupOK(disk', proc', closed', group'.file, inflight', e)
    BY <1>1, <1>3, <2>4 DEF GroupOK
  <2> QED BY <1>2, <2>3, <2>5 DEF Orderly, Sound
<1> QED BY <1>1, <1>4, <1>5, <1>2

LEMMA ReleaseHeldKeeps ==
  ASSUME NEW e, Orderly(e), TypeInv', NEW p \in Recs, ReleaseHeld(p)
  PROVE  Orderly(e)' /\ Keeps
<1> DEFINE u == At("flush", proc[p].file, "session", NoJob)
<1>1. /\ proc[p].pc = "session" /\ UNCHANGED <<closed, disk, group, sent, discarded>>
      /\ Free(p, "session") /\ proc' = [proc EXCEPT ![p] = u]
  BY DEF ReleaseHeld, Goto, Step, source
<1>2. Tidies(disk, proc, disk', e) /\ Keeps
  BY <1>1, StillTidy, StillThere
<1>3. p \in Procs /\ p # Scan /\ ~(p > closed)
  BY <1>1, AtWork
<1>4. u.pc = "flush" /\ u.lock = "session"
  BY AtIs
<1> HIDE DEF u
<1>5. Moves(disk', proc, closed, p, u, e)
  BY <1>1, <1>3, <1>4 DEF Moves, Shape, UploadOK
<1>6. Good(disk', proc', closed', e) /\ Lasting(disk, proc, closed, disk', proc', e)
  BY <1>1, <1>2, <1>3, <1>4, <1>5, MovedGood
<1>7. Flushing(proc')
  BY <1>1, <1>3, <1>4, Now DEF Flushing
<1>8. \A r \in 1..closed : proc[r].pc = "done" => proc'[r].pc = "done"
  <2>1. \A r \in 1..closed : r \in Procs
    BY <1>3, Now, Numbers
  <2> QED BY <1>1, <1>3, <2>1, Now
<1>9. GroupOK(disk', proc', closed', group'.file, inflight', e)
  <2>1. GroupOK(disk, proc, closed, group.file, inflight, e)
    BY <1>3, Now
  <2> QED BY <1>1, <1>6, <1>7, <1>8, <2>1 DEF GroupOK, Lasting
<1> QED BY <1>2, <1>6, <1>9 DEF Orderly, Sound

\* Only a recording's own goroutine rewrites it, and only a session merge makes
\* a joined file.
LEMMA Publisher ==
  ASSUME NEW e, NEW d, NEW pr, NEW cl, Good(d, pr, cl, e), NEW q \in Procs, pr[q].pc = "publish",
         NEW r \in 1..cl
  PROVE  /\ pr[q].job.dst = Raw(r) => q = r
         /\ pr[q].job.dst = Half(r) => pr[q].lock = "session"
<1>1. PublishOK(d, pr, cl, q, pr[q], e) /\ SessionOK(d, pr, cl, q, pr[q], e) /\ pr[q] \in Goroutine
      /\ cl \in 0..N
  BY DEF Good, ProcTyped
<1>2. q \in Int /\ r \in Int /\ Raw(r).kind = "dir" /\ Half(r).kind = "dir"
  BY <1>1, Numbers, SizesTyped DEF Scan
<1>3. pr[q].lock = "none" => pr[q].job.dst = Raw(q)
  BY <1>1 DEF PublishOK
<1>4. pr[q].lock = "merge" => pr[q].job.dst.kind = "merged"
  BY <1>1 DEF PublishOK
<1>5. pr[q].lock = "session" => pr[q].job.dst # Raw(r)
  <2> SUFFICES ASSUME pr[q].lock = "session" PROVE pr[q].job.dst # Raw(r)
    OBVIOUS
  <2>1. PICK t \in 1..cl : pr[q].job.dst = Half(t)
    BY <1>1 DEF SessionOK, InSession
  <2>2. t \in Int
    BY <1>1, SizesTyped
  <2> QED BY <1>2, <2>1, <2>2, OwnNamesDiffer
<1>6. pr[q].lock \in {"none", "session", "merge"}
  BY <1>1 DEF Goroutine
<1>7. pr[q].job.dst = Raw(r) => q = r
  BY <1>2, <1>3, <1>4, <1>5, <1>6, OwnNamesDiffer
<1>8. pr[q].job.dst = Half(r) => pr[q].lock = "session"
  BY <1>2, <1>3, <1>4, <1>6, OwnNamesDiffer
<1> QED BY <1>7, <1>8

\* The joined file is the one held next.
LEMMA RegroupKeeps ==
  ASSUME NEW e, Orderly(e), TypeInv', NEW p \in Recs, Regroup(p)
  PROVE  Orderly(e)' /\ Keeps
<1> DEFINE u == At("done", NoFile, "none", NoJob)
           gr == proc[p].file
<1>1. /\ proc[p].pc = "regroup" /\ UNCHANGED <<closed, disk, sent, discarded>>
      /\ Finish(p) /\ group'.file = gr /\ gr \in inflight'
  BY DEF Regroup, Hold, source
<1>2. Tidies(disk, proc, disk', e) /\ Keeps
  BY <1>1, StillTidy, StillThere
<1>3. p \in Procs /\ p \in 1..closed /\ p # Scan
  BY <1>1, AtWork
<1>4. /\ proc' = [proc EXCEPT ![p] = u] /\ Moves(disk', proc, closed, p, u, e) /\ u.lock = "none"
  BY <1>1, <1>3, Finished
<1> HIDE DEF u
<1>5. /\ Good(disk', proc', closed', e)
      /\ \A f : f.kind = "dir" /\ Dead(disk, proc, f) => Dead(disk', proc', f)
  BY <1>1, <1>2, <1>3, <1>4, MovedGood
<1>6. proc[p].lock = "session" /\ SessionOK(disk, proc, closed, p, proc[p], e) /\ closed \in 0..N
      /\ Good(disk, proc, closed, e) /\ proc \in [Procs -> Goroutine]
  BY <1>1, <1>3, Now DEF Shape
<1>7. PICK r \in 1..closed :
         /\ r # p /\ r > e.old /\ proc[r].pc = "done" /\ gr = Half(r)
         /\ proc[Scan].pc \in {"orphan", "upload"} => proc[Scan].file # Half(r)
         /\ Raw(r) \notin DOMAIN disk
  BY <1>1, <1>6 DEF SessionOK, InSession
<1> HIDE DEF gr
<1>8. Dead(disk, proc, Raw(r))
  BY <1>6, <1>7, Publisher DEF Dead
<1>9. Dead(disk', proc', Raw(r)) /\ r \in Procs
  BY <1>5, <1>6, <1>8, Numbers
<1>10. proc'[r].pc = "done" /\ proc'[Scan] = proc[Scan]
  BY <1>3, <1>4, <1>6, <1>7, <1>9, SizesTyped
<1>11. GroupOK(disk', proc', closed', group'.file, inflight', e)
  BY <1>1, <1>7, <1>9, <1>10 DEF GroupOK, OnFile
<1> QED BY <1>2, <1>5, <1>11 DEF Orderly, Sound

\* What the session holds is a file of the recording directory.
LEMMA HeldFile ==
  ASSUME NEW e, Orderly(e), group.file # NoFile
  PROVE  group.file.kind = "dir" /\ group.file.kind \notin TmpKinds
         /\ \E r \in 1..closed : proc[r].pc = "done" /\ (group.file = Raw(r) \/ group.file = Half(r))
<1>1. closed \in 0..N /\ GroupOK(disk, proc, closed, group.file, inflight, e)
  BY SizesTyped, Now
<1>2. PICK r \in 1..closed : proc[r].pc = "done" /\ (group.file = Raw(r) \/ group.file = Half(r))
  BY <1>1 DEF GroupOK
<1> QED BY <1>1, <1>2, Numbers DEF TmpKinds

\* The held file is sent off for good.
LEMMA FlushSessionEntryKeeps ==
  ASSUME NEW e, Orderly(e), TypeInv', NEW p \in Recs, FlushSessionEntry(p)
  PROVE  Orderly(e)' /\ Keeps
<1> DEFINE u == IF reason[p] = "cut" THEN At("done", NoFile, "none", NoJob)
                ELSE At("mindur", proc[p].file, "none", NoJob)
<1>1. /\ proc[p].pc = "flush" /\ UNCHANGED closed /\ Deliver(group.file)
      /\ proc' = [proc EXCEPT ![p] = u]
      /\ IF reason[p] = "cut" THEN group'.file = proc[p].file
         ELSE UNCHANGED <<group, inflight>>
  BY DEF FlushSessionEntry, Hold, Finish, Goto, Step, source
<1>2. p \in Procs /\ p \in 1..closed /\ p # Scan
  BY <1>1, AtWork
<1>3. group.file.kind \notin TmpKinds
  BY HeldFile DEF NoFile, File, TmpKinds
<1>4. Tidies(disk, proc, disk', e) /\ Keeps /\ group.file \notin DOMAIN disk'
  BY <1>1, <1>3, DeliverTidies
<1>5. /\ Moves(disk', proc, closed, p, At("done", NoFile, "none", NoJob), e)
      /\ Moves(disk', proc, closed, p, At("mindur", proc[p].file, "none", NoJob), e)
  BY <1>1, <1>2, MovesOn
<1>6. u.lock = "none" /\ u.pc = (IF reason[p] = "cut" THEN "done" ELSE "mindur")
  BY AtIs
<1>7. Moves(disk', proc, closed, p, u, e)
  BY <1>5
<1> HIDE DEF u
<1>8. Good(disk', proc', closed', e) /\ Lasting(disk, proc, closed, disk', proc', e)
  BY <1>1, <1>2, <1>4, <1>6, <1>7, MovedGood
<1>9. /\ GroupOK(disk, proc, closed, group.file, inflight, e) /\ closed \in 0..N
      /\ proc \in [Procs -> Goroutine] /\ Good(disk, proc, closed, e) /\ Exclusive(proc)
      /\ Shape(closed, p, proc[p]) /\ Named(p, proc[p])
  BY <1>2, Now
<1>10. proc'[p] = u /\ \A q \in Procs \ {p} : proc'[q] = proc[q]
  BY <1>1, <1>2, <1>9
<1>11. CASE reason[p] = "cut"
  <2>1. group'.file = Raw(p) /\ proc'[p].pc = "done"
    BY <1>1, <1>6, <1>9, <1>10, <1>11 DEF Named
  <2>2. GroupOK(disk', proc', closed', group'.file, inflight', e)
    BY <1>1, <1>2, <2>1, AtWork DEF GroupOK
  <2> QED BY <1>4, <1>8, <2>2 DEF Orderly, Sound
<1>12. CASE reason[p] # "cut"
  <2>0. SUFFICES GroupOK(disk', proc', closed', group.file, inflight, e)
    BY <1>1, <1>4, <1>8, <1>12 DEF Orderly, Sound
  <2>1. SUFFICES ASSUME group.file # NoFile
                 PROVE  GroupOK(disk', proc', closed', group.file, inflight, e)
    BY DEF GroupOK
  <2>2. PICK r \in 1..closed :
            /\ proc[r].pc = "done" /\ r > e.old
            /\ group.file = Raw(r) \/ (group.file = Half(r) /\ Dead(disk, proc, Raw(r)))
    BY <1>9, <2>1 DEF GroupOK
  <2>3. r \in Procs /\ proc'[r].pc = "done"
    BY <1>1, <1>9, <1>10, <2>2, Numbers
  <2>4. CASE group.file = Raw(r)
    BY <1>1, <2>2, <2>3, <2>4 DEF GroupOK
  <2>5. CASE group.file = Half(r) /\ Dead(disk, proc, Raw(r))
    <3>1. ASSUME NEW q \in Procs, proc'[q].pc = "publish" PROVE proc'[q].job.dst # Half(r)
      <4>1. q # p
        BY <1>6, <1>10, <3>1
      <4>2. proc[q].pc = "publish" /\ proc[q].job.dst = proc'[q].job.dst
        BY <1>10, <3>1, <4>1
      <4>3. proc[p].lock = "session" /\ proc[q].lock # "session"
        BY <1>1, <1>2, <1>9, <4>1 DEF Shape, Exclusive
      <4> QED BY <1>9, <4>2, <4>3, Publisher
    <3>2. Dead(disk', proc', Half(r))
      BY <1>4, <2>5, <3>1 DEF Dead
    <3>3. Dead(disk', proc', Raw(r))
      BY <1>8, <2>5 DEF Lasting
    <3> QED BY <1>1, <2>2, <2>3, <2>5, <3>2, <3>3 DEF GroupOK
  <2> QED BY <2>2, <2>4, <2>5
<1> QED BY <1>11, <1>12

\* An upload takes note of what its file holds.
LEMMA BeginUploadKeeps ==
  ASSUME NEW e, Orderly(e), TypeInv', NEW p \in Procs, BeginUpload(p)
  PROVE  Orderly(e)' /\ Keeps
<1> DEFINE f == proc[p].file
           u == [At("upload", f, proc[p].lock, NoJob) EXCEPT !.held = disk[f]]
<1>1. /\ proc[p].pc = "orphan" /\ UNCHANGED <<closed, disk, group, sent, discarded>>
      /\ inflight \subseteq inflight'
      /\ Finish(p) \/ (f \in DOMAIN disk /\ proc' = [proc EXCEPT ![p] = u])
  BY DEF BeginUpload, Exists, Step, source
<1>2. Tidies(disk, proc, disk', e) /\ Keeps
  BY <1>1, StillTidy, StillThere
<1>3. CASE Finish(p)
  BY <1>1, <1>2, <1>3, FinishedOrderly
<1>4. CASE f \in DOMAIN disk /\ proc' = [proc EXCEPT ![p] = u]
  <2>1. u.pc = "upload" /\ u.file = f /\ u.lock = proc[p].lock /\ u.held = disk[f]
    BY DEF At
  <2>2. /\ UploadOK(disk, proc, closed, p, proc[p], e) /\ Shape(closed, p, proc[p])
        /\ FilesOK(disk, proc, closed, e) /\ Exclusive(proc) /\ closed \in 0..N
    BY Now
  <2> HIDE DEF u
  <2>3. Shape(closed, p, u)
    BY <1>1, <2>1, <2>2 DEF Shape
  <2>4. \A r \in 1..closed : f = Raw(r) => r \in u.held
    BY <1>4, <2>1, <2>2 DEF FilesOK
  <2>5. UploadOK(disk', proc, closed, p, u, e)
    BY <1>1, <2>1, <2>2, <2>4 DEF UploadOK
  <2>6. p = Scan => \A s \in Procs : InSession(proc[s]) => proc[s].job.dst # u.file
    <3> SUFFICES ASSUME p = Scan, NEW s \in Procs, InSession(proc[s]) PROVE proc[s].job.dst # f
      BY <2>1
    <3>1. SessionOK(disk, proc, closed, s, proc[s], e)
      BY Now
    <3> QED BY <1>1, <3>1 DEF SessionOK
  <2>7. Moves(disk', proc, closed, p, u, e)
    BY <1>1, <2>1, <2>3, <2>5, <2>6 DEF Moves
  <2>8. u.lock = "none" \/ Free(p, u.lock)
    BY <2>1, <2>2 DEF Exclusive, Free
  <2>9. p = Scan /\ OnFile(u, group.file) => OnFile(proc[Scan], group.file)
    BY <1>1, <2>1 DEF OnFile
  <2> HIDE DEF f
  <2>10. Orderly(e)'
    BY <1>1, <1>2, <1>4, <2>7, <2>8, <2>9, Moved
  <2> QED BY <1>2, <2>10
<1> QED BY <1>1, <1>2, <1>3, <1>4

\* What is removed was sent or discarded, and no more than that.
LEMMA EndUploadKeeps ==
  ASSUME NEW e, Orderly(e), TypeInv', NEW p \in Procs, EndUpload(p)
  PROVE  Orderly(e)' /\ Keeps
<1> DEFINE f == proc[p].file
           c == proc[p].held
<1>1. /\ proc[p].pc = "upload" /\ UNCHANGED <<closed, group>>
      /\ inflight' = inflight \ {f} /\ Finish(p)
      /\ sent \subseteq sent' /\ discarded \subseteq discarded'
      /\ \/ UNCHANGED <<disk, sent, discarded>>
         \/ disk' = Without(disk, {f}) /\ (c \in sent' \/ c \subseteq discarded')
  BY DEF EndUpload, source
<1>2. /\ UploadOK(disk, proc, closed, p, proc[p], e) /\ closed \in 0..N
      /\ f.kind \in SegKinds \/ (p = Scan /\ f.kind \in {"dir", "sessiontmp"})
      /\ ~Owned(proc, f) /\ (f \in DOMAIN disk => disk[f] \subseteq c)
  <2>1. UploadOK(disk, proc, closed, p, proc[p], e) /\ Good(disk, proc, closed, e) /\ closed \in 0..N
    BY Now
  <2>2. \/ f.kind \in SegKinds
        \/ p = Scan /\ f.kind = "dir"
        \/ p = Scan /\ f.kind = "sessiontmp" /\ \E r \in 1..e.old : f = JoinTmp(r)
    BY <1>1, <2>1, Numbers, JoinTmpIs DEF UploadOK
  <2>3. ~Owned(proc, f)
    BY <2>1, <2>2, OwnedIs, OldJoinTmpFree DEF SegKinds, TmpKinds
  <2> QED BY <1>1, <2>1, <2>2, <2>3 DEF UploadOK
<1> HIDE DEF f, c
<1>3. Tidies(disk, proc, disk', e) /\ Keeps
  <2>1. CASE UNCHANGED <<disk, sent, discarded>>
    BY <2>1, StillTidy, StillThere
  <2>2. CASE disk' = Without(disk, {f}) /\ (c \in sent' \/ c \subseteq discarded')
    <3>1. Good(disk, proc, closed, e)
      BY DEF Orderly, Sound
    <3>2. Tidies(disk, proc, disk', e)
      BY <1>2, <2>2, <3>1, RemoveTidies
    <3>3. DOMAIN disk' = DOMAIN disk \ {f} /\ \A g \in DOMAIN disk \ {f} : disk'[g] = disk[g]
      BY <2>2 DEF Without, Restrict
    <3>4. f \in DOMAIN disk => disk[f] \subseteq Footage(disk', sent', discarded')
      BY <1>2, <2>2 DEF Footage
    <3>5. \A g \in DOMAIN disk \ {f} : disk[g] \subseteq Footage(disk', sent', discarded')
      BY <3>3 DEF Footage
    <3>6. Keeps
      BY <1>1, <3>4, <3>5, FootageKept DEF Keeps
    <3> QED BY <3>2, <3>6
  <2> QED BY <1>1, <2>1, <2>2
<1>4. group.file # f \/ OnFile(proc[Scan], group.file)
  <2>1. CASE p = Scan
    BY <1>1, <2>1 DEF OnFile, f
  <2>2. CASE p # Scan
    BY <1>2, <2>2, HeldFile DEF SegKinds, NoFile, File
  <2> QED BY <2>1, <2>2
<1>5. group.file \in inflight /\ ~OnFile(proc[Scan], group.file) => group.file \in inflight'
  BY <1>1, <1>4
<1> QED BY <1>1, <1>3, <1>5, FinishedOrderly

\* The recording just closed is on disk.
LEMMA CloseFileKeeps ==
  ASSUME NEW e, Orderly(e), TypeInv', NEW why, NEW len1, CloseFile(why, len1)
  PROVE  Orderly(e)' /\ Keeps /\ closed' = closed + 1 /\ closed' \in Footage(disk', sent', discarded')
<1> DEFINE n == closed + 1
           u == At("queued", NoFile, "none", NoJob)
<1>1. /\ n \in Recs /\ closed' = n /\ disk' = Put(disk, Raw(n), {n})
      /\ proc' = [proc EXCEPT ![n] = u] /\ UNCHANGED <<group, inflight, sent, discarded>>
  BY DEF CloseFile, Goto, Step
<1>2. /\ Good(disk, proc, closed, e) /\ GroupOK(disk, proc, closed, group.file, inflight, e)
      /\ closed \in 0..N /\ FilesOK(disk, proc, closed, e) /\ proc \in [Procs -> Goroutine]
      /\ Scan \in Procs
  BY SizesTyped, Now
<1>3. DiskTyped(disk', n) /\ ProcTyped(proc')
  BY <1>1 DEF TypeInv
<1>4. Good(disk', proc', closed', e) /\ Lasting(disk, proc, closed, disk', proc', e)
  BY <1>1, <1>2, <1>3, CloseOK
<1>5. n \in 0..N /\ closed <= n /\ n \in Procs /\ n # Scan /\ n \notin 1..closed /\ n \in Int
  BY <1>1, <1>2, SizesTyped
<1>6. proc[n].pc = "idle" /\ u.pc = "queued"
  <2>1. Shape(closed, n, proc[n]) /\ n > closed
    BY <1>2, <1>5, SizesTyped, Now
  <2> QED BY <1>5, <2>1, AtIs DEF Shape
<1> HIDE DEF u
<1>7. /\ \A r \in 1..closed : proc[r].pc = "done" => proc'[r].pc = "done"
      /\ Flushing(proc) => Flushing(proc')
      /\ proc'[Scan] = proc[Scan]
  <2>1. proc'[n] = u /\ \A q \in Procs \ {n} : proc'[q] = proc[q]
    BY <1>1, <1>2, <1>5
  <2>2. \A r \in 1..closed : r \in Procs
    BY <1>2, Numbers
  <2> QED BY <1>2, <1>5, <1>6, <2>1, <2>2 DEF Flushing
<1> HIDE DEF n
<1>8. GroupOK(disk', proc', n, group.file, inflight', e)
  BY <1>1, <1>2, <1>4, <1>5, <1>7, GroupLasts
<1>9. Orderly(e)'
  BY <1>1, <1>4, <1>8 DEF Orderly, Sound
<1>10. Raw(n) \notin DOMAIN disk
  <2>1. \A r \in 1..closed : Raw(r) # Raw(n) /\ Half(r) # Raw(n)
    <3> SUFFICES ASSUME NEW r \in 1..closed PROVE Raw(r) # Raw(n) /\ Half(r) # Raw(n)
      OBVIOUS
    <3>1. r \in Int /\ r # n
      BY <1>2, <1>5, SizesTyped
    <3> QED BY <1>5, <3>1, OwnNamesDiffer
  <2>2. Raw(n).kind = "dir"
    BY <1>5, OwnNames
  <2> QED BY <1>2, <2>1, <2>2 DEF FilesOK
<1>11. /\ \A f \in DOMAIN disk : f \in DOMAIN disk' /\ disk'[f] = disk[f]
       /\ Raw(n) \in DOMAIN disk' /\ disk'[Raw(n)] = {n}
  BY <1>1, <1>10 DEF Put
<1>12. Keeps
  <2>1. \A f \in DOMAIN disk : disk[f] \subseteq Footage(disk', sent', discarded')
    BY <1>11 DEF Footage
  <2>2. sent \subseteq sent' /\ discarded \subseteq discarded'
    BY <1>1
  <2> QED BY <2>1, <2>2, FootageKept DEF Keeps
<1>13. n \in Footage(disk', sent', discarded')
  BY <1>11 DEF Footage
<1> QED BY <1>1, <1>9, <1>12, <1>13 DEF n

\* Queueing moves no file.
LEMMA StartBatchKeeps ==
  ASSUME NEW e, Orderly(e), TypeInv', StartBatch
  PROVE  Orderly(e)' /\ Keeps
<1> DEFINE u == At("ready", NoFile, "none", NoJob)
<1>1. /\ proc' = [p \in Procs |-> IF p \in Queued THEN u ELSE proc[p]]
      /\ UNCHANGED <<closed, disk, group, inflight, sent, discarded>>
  BY DEF StartBatch
<1>2. /\ Good(disk, proc, closed, e) /\ GroupOK(disk, proc, closed, group.file, inflight, e)
      /\ closed \in 0..N /\ closed <= closed /\ Exclusive(proc)
      /\ Scan \in Procs /\ Scan \notin Queued
  BY SizesTyped, Now DEF Queued
<1>3. u.pc = "ready" /\ u.lock = "none"
  BY AtIs
<1>4. \A q \in Queued : q \in Recs /\ q \in Procs /\ proc[q].pc = "queued" /\ q # Scan
  BY SizesTyped DEF Queued
<1>5. \A q \in Queued : Moves(disk, proc, closed, q, u, e)
  BY <1>4, MovesOn
<1> HIDE DEF u
<1>6. \A q \in Procs : /\ q \in Queued => proc'[q] = u
                       /\ q \notin Queued => proc'[q] = proc[q]
  BY <1>1
<1>7. ProcTyped(proc') /\ Exclusive(proc')
  BY <1>2, <1>3, <1>6 DEF TypeInv, Exclusive
<1>8. Good(disk, proc', closed, e)
  BY <1>2, <1>5, <1>6, <1>7, MoveOK
<1>9. /\ \A r \in 1..closed : proc[r].pc = "done" => proc'[r].pc = "done"
      /\ Flushing(proc) => Flushing(proc')
      /\ proc'[Scan] = proc[Scan]
  <2>1. \A r \in 1..closed : r \in Procs
    BY <1>2, Numbers
  <2> QED BY <1>2, <1>4, <1>6, <2>1 DEF Flushing
<1>10. \A f : Dead(disk, proc, f) => Dead(disk, proc', f)
  BY <1>3, <1>6 DEF Dead
<1>11. Lasting(disk, proc, closed, disk, proc', e)
  BY <1>10 DEF Lasting
<1>12. GroupOK(disk, proc', closed, group.file, inflight, e)
  <2>1. OnFile(proc'[Scan], group.file) => OnFile(proc[Scan], group.file)
    BY <1>9 DEF OnFile
  <2> DEFINE pr2 == proc'
             gr == group.file
  <2>2. /\ GroupOK(disk, proc, closed, gr, inflight, e) /\ closed \in 0..N /\ closed <= closed
        /\ Lasting(disk, proc, closed, disk, pr2, e)
        /\ \A r \in 1..closed : proc[r].pc = "done" => pr2[r].pc = "done"
        /\ Flushing(proc) => Flushing(pr2)
        /\ OnFile(pr2[Scan], gr) => OnFile(proc[Scan], gr)
    BY <1>2, <1>9, <1>11, <2>1
  <2> HIDE DEF pr2, gr
  <2>3. GroupOK(disk, pr2, closed, gr, inflight, e)
    BY <2>2, GroupLasts
  <2> QED BY <2>3 DEF pr2, gr
<1>13. Keeps
  BY <1>1, StillThere
<1> QED BY <1>1, <1>8, <1>12, <1>13 DEF Orderly, Sound

-----------------------------------------------------------------------------
(* The steps that begin a rewrite.                                            *)

\* The beginning of a rewrite brings nothing back.
LEMMA StartLasts ==
  ASSUME NEW e, NEW d, NEW pr, NEW cl, Good(d, pr, cl, e), NEW p \in Procs, NEW u, NEW d2, NEW pr2, NEW c,
         d2 = Put(d, u.job.tmp, c), pr2 = [pr EXCEPT ![p] = u], u.job.tmp.kind \in TmpKinds,
         \A r \in 1..cl : Dead(d, pr, Raw(r)) =>
             u.job.dst # Raw(r) /\ (Dead(d, pr, Half(r)) => u.job.dst # Half(r)),
         \A r \in 1..e.old : u.job.tmp # JoinTmp(r)
  PROVE  Lasting(d, pr, cl, d2, pr2, e)
<1>1. pr \in [Procs -> Goroutine] /\ cl \in 0..N
  BY DEF Good, ProcTyped
<1>2. pr2[p] = u /\ \A q \in Procs \ {p} : pr2[q] = pr[q]
  BY <1>1
<1>3. DOMAIN d2 = DOMAIN d \cup {u.job.tmp}
  BY DEF Put
<1>4. ASSUME NEW f, f.kind = "dir", Dead(d, pr, f), u.job.dst # f PROVE Dead(d2, pr2, f)
  BY <1>2, <1>3, <1>4 DEF Dead, TmpKinds
<1>5. \A r \in 1..cl : Raw(r).kind = "dir" /\ Half(r).kind = "dir"
  BY <1>1, Numbers
<1>6. \A r \in 1..e.old : JoinTmp(r) \notin DOMAIN d => JoinTmp(r) \notin DOMAIN d2
  BY <1>3
<1> QED BY <1>4, <1>5, <1>6 DEF Lasting

\* The held file through a step that adds no recording.
LEMMA GroupStays ==
  ASSUME NEW e, NEW d, NEW pr, NEW cl \in 0..N, NEW gr, NEW fl, GroupOK(d, pr, cl, gr, fl, e),
         NEW d2, NEW pr2, Lasting(d, pr, cl, d2, pr2, e),
         \A r \in 1..cl : pr[r].pc = "done" => pr2[r].pc = "done",
         Flushing(pr) => Flushing(pr2),
         OnFile(pr2[Scan], gr) => OnFile(pr[Scan], gr)
  PROVE  GroupOK(d2, pr2, cl, gr, fl, e)
<1>1. cl <= cl /\ (gr \in fl /\ ~OnFile(pr[Scan], gr) => gr \in fl)
  BY SizesTyped
<1> QED BY <1>1, GroupLasts

\* What makes a step the beginning of a rewrite.
Starts(d, pr, cl, p, u, d2, pr2, e) ==
  /\ \E c : d2 = Put(d, u.job.tmp, c)
  /\ pr2 = [pr EXCEPT ![p] = u]
  /\ pr[p].pc \notin {"publish", "flush"} /\ (p # Scan => pr[p].pc # "done")
  /\ u.pc = "publish" /\ u.job.tmp \notin DOMAIN d /\ u.job.tmp.kind \in TmpKinds
  /\ DiskTyped(d2, cl) /\ ProcTyped(pr2)
  /\ u.lock = "none" \/ \A q \in Procs \ {p} : pr[q].lock # u.lock
  /\ Shape(cl, p, u) /\ PublishOK(d2, pr2, cl, p, u, e) /\ SessionOK(d2, pr2, cl, p, u, e)
  /\ Lasting(d, pr, cl, d2, pr2, e)

\* A rewrite begins: the scratch is new and every file is still there.
LEMMA StartSound ==
  ASSUME NEW e, NEW d, NEW pr, NEW cl, NEW gr, NEW fl, Sound(d, pr, cl, gr, fl, e),
         NEW p \in Procs, NEW u, NEW d2, NEW pr2, Starts(d, pr, cl, p, u, d2, pr2, e)
  PROVE  /\ Sound(d2, pr2, cl, gr, fl, e)
         /\ \A f \in DOMAIN d : f \in DOMAIN d2 /\ d2[f] = d[f]
<1>0. /\ pr2 = [pr EXCEPT ![p] = u]
      /\ pr[p].pc \notin {"publish", "flush"} /\ (p # Scan => pr[p].pc # "done")
      /\ u.pc = "publish" /\ u.job.tmp \notin DOMAIN d /\ u.job.tmp.kind \in TmpKinds
      /\ DiskTyped(d2, cl) /\ ProcTyped(pr2)
      /\ u.lock = "none" \/ \A q \in Procs \ {p} : pr[q].lock # u.lock
      /\ Shape(cl, p, u) /\ PublishOK(d2, pr2, cl, p, u, e) /\ SessionOK(d2, pr2, cl, p, u, e)
      /\ Lasting(d, pr, cl, d2, pr2, e)
  BY DEF Starts
<1>c. PICK c : d2 = Put(d, u.job.tmp, c)
  BY DEF Starts
<1>1. /\ Good(d, pr, cl, e) /\ GroupOK(d, pr, cl, gr, fl, e) /\ cl \in 0..N /\ cl <= cl
      /\ pr \in [Procs -> Goroutine] /\ Exclusive(pr)
  BY SizesTyped DEF Sound, Good, ProcTyped
<1>2. pr2[p] = u /\ \A q \in Procs \ {p} : pr2[q] = pr[q]
  BY <1>0, <1>1
<1>3. Exclusive(pr2)
  BY <1>0, <1>1, <1>2 DEF Exclusive
<1>4. Good(d2, pr2, cl, e)
  BY <1>0, <1>1, <1>3, <1>c, StartOK
<1>5. /\ \A r \in 1..cl : pr[r].pc = "done" => pr2[r].pc = "done"
      /\ Flushing(pr) => Flushing(pr2)
      /\ OnFile(pr2[Scan], gr) => OnFile(pr[Scan], gr)
  <2>1. \A r \in 1..cl : r \in Procs /\ r # Scan
    BY <1>1, Numbers
  <2>2. Flushing(pr) => Flushing(pr2)
    BY <1>0, <1>2 DEF Flushing
  <2>3. OnFile(pr2[Scan], gr) => OnFile(pr[Scan], gr)
    BY <1>0, <1>2, SizesTyped DEF OnFile
  <2> QED BY <1>0, <1>2, <2>1, <2>2, <2>3
<1>6. GroupOK(d2, pr2, cl, gr, fl, e)
  BY <1>0, <1>1, <1>5, GroupStays
<1>7. \A f \in DOMAIN d : f \in DOMAIN d2 /\ d2[f] = d[f]
  BY <1>0, <1>c DEF Put
<1> QED BY <1>4, <1>6, <1>7 DEF Sound

\* A step that only adds files keeps the footage.
LEMMA NewKeeps ==
  ASSUME \A f \in DOMAIN disk : f \in DOMAIN disk' /\ disk'[f] = disk[f], UNCHANGED <<sent, discarded>>
  PROVE  Keeps
<1>1. \A f \in DOMAIN disk : disk[f] \subseteq Footage(disk', sent', discarded')
  BY DEF Footage
<1>2. sent \subseteq sent' /\ discarded \subseteq discarded'
  OBVIOUS
<1> QED BY <1>1, <1>2, FootageKept DEF Keeps

\* The finalizer writes beside the recording.
LEMMA FinalizeRecordingKeeps ==
  ASSUME NEW e, Orderly(e), TypeInv', NEW p \in Recs, FinalizeRecording(p)
  PROVE  Orderly(e)' /\ Keeps
<1> DEFINE tmp == File("finalizing", 3 * p - 2, 0)
           j == [del |-> <<Raw(p)>>, tmp |-> tmp, dst |-> Raw(p), then |-> "session"]
           u == At("publish", Raw(p), "none", j)
<1>1. /\ proc[p].pc = "encode" /\ UNCHANGED <<closed, group, inflight, sent, discarded>>
      /\ \/ /\ Raw(p) \in DOMAIN disk /\ disk' = Put(disk, tmp, disk[Raw(p)])
            /\ proc' = [proc EXCEPT ![p] = u]
         \/ /\ Goto(p, "session", Raw(p), "none") \/ Finish(p)
            /\ UNCHANGED disk
  BY DEF FinalizeRecording, Exists, Step, source
<1>2. p \in Procs /\ p \in 1..closed /\ p # Scan /\ ~(p > closed) /\ p \in Int
  BY <1>1, AtWork
<1>3. CASE UNCHANGED disk /\ (Goto(p, "session", Raw(p), "none") \/ Finish(p))
  <2>1. Tidies(disk, proc, disk', e) /\ Keeps
    BY <1>1, <1>3, StillTidy, StillThere
  <2>2. CASE Finish(p)
    BY <1>1, <1>2, <2>1, <2>2, FinishedOrderly
  <2>3. CASE Goto(p, "session", Raw(p), "none")
    BY <1>1, <1>2, <2>1, <2>3, WentOn
  <2> QED BY <1>3, <2>1, <2>2, <2>3
<1>4. CASE /\ Raw(p) \in DOMAIN disk /\ disk' = Put(disk, tmp, disk[Raw(p)])
           /\ proc' = [proc EXCEPT ![p] = u]
  <2>1. /\ Good(disk, proc, closed, e) /\ FilesOK(disk, proc, closed, e) /\ closed \in 0..N
        /\ proc \in [Procs -> Goroutine]
    BY <1>2, Now
  <2>2. /\ j.tmp = tmp /\ j.dst = Raw(p) /\ j.then = "session" /\ Range(j.del) = {Raw(p)}
    BY DEF Range
  <2>3. tmp.kind = "finalizing" /\ Raw(p).kind = "dir" /\ Raw(p).base = 3 * p - 2
    BY <1>2, FileIs, OwnNames
  <2>4. disk[Raw(p)] = {p}
    BY <1>2, <1>4, <2>1 DEF FilesOK
  <2>5. tmp \notin DOMAIN disk
    <3> SUFFICES ASSUME tmp \in DOMAIN disk PROVE FALSE
      OBVIOUS
    <3>a. Owned(proc, tmp)
      <4> SUFFICES ASSUME ~Owned(proc, tmp) PROVE FALSE
        OBVIOUS
      <4>1. PICK r \in 1..e.old : tmp = File("finalizing", 3 * r - 2, 0)
        BY <2>1, <2>3, LeftOverIs DEF TmpKinds
      <4>2. 3 * r - 2 = 3 * p - 2
        BY <4>1, FileIs
      <4>3. p > e.old /\ e.old \in Int /\ r \in Int
        BY <1>1, <2>1, AtWork, SizesTyped DEF Good, EpochOK
      <4> QED BY <1>2, <4>2, <4>3
    <3>1. PICK q \in Procs : proc[q].pc = "publish" /\ proc[q].job.tmp = tmp
      BY <3>a DEF Owned
    <3>2. PublishOK(disk, proc, closed, q, proc[q], e) /\ SessionOK(disk, proc, closed, q, proc[q], e)
          /\ proc[q] \in Goroutine /\ q \in Int
      BY SizesTyped, Now DEF Scan
    <3>3. proc[q].lock # "merge"
      BY <2>3, <3>1, <3>2, FileIs DEF PublishOK
    <3>4. proc[q].lock # "session"
      BY <2>3, <3>1, <3>2, FileIs DEF SessionOK, InSession
    <3>5. tmp = File("finalizing", 3 * q - 2, 0)
      BY <3>1, <3>2, <3>3, <3>4 DEF PublishOK, Goroutine
    <3>6. 3 * q - 2 = 3 * p - 2
      BY <3>5, FileIs
    <3> QED BY <1>1, <1>2, <3>1, <3>2, <3>6
  <2> HIDE DEF tmp, j
  <2>6. /\ u.pc = "publish" /\ u.lock = "none" /\ u.job = j /\ Inputs(u) = {Raw(p)}
        /\ u.job.tmp = tmp /\ u.job.dst = Raw(p) /\ u.job.then = "session"
    BY <2>2, AtIs DEF Inputs
  <2> HIDE DEF u
  <2>7. /\ DOMAIN disk' = DOMAIN disk \cup {tmp} /\ disk'[tmp] = {p}
        /\ \A f \in DOMAIN disk : disk'[f] = disk[f]
    BY <1>4, <2>4, <2>5 DEF Put
  <2>8. \A r \in 1..closed : Dead(disk, proc, Raw(r)) =>
            u.job.dst # Raw(r) /\ (Dead(disk, proc, Half(r)) => u.job.dst # Half(r))
    <3>1. \A r \in 1..closed : Raw(p) # Half(r)
      BY <1>2, <2>1, OwnNamesDiffer, SizesTyped
    <3>2. ~Dead(disk, proc, Raw(p))
      BY <1>4 DEF Dead
    <3> QED BY <2>6, <3>1, <3>2
  <2>9. Lasting(disk, proc, closed, disk', proc', e)
    BY <1>2, <1>4, <2>1, <2>3, <2>6, <2>8, StartLasts, JoinTmpIs DEF TmpKinds
  <2>10. Shape(closed, p, u) /\ SessionOK(disk', proc', closed, p, u, e)
    BY <1>2, <2>6 DEF Shape, SessionOK, InSession
  <2>11. ASSUME NEW g \in DOMAIN disk', g.kind \in {"dir"} \cup Parks(e), g.base = 3 * p - 2
         PROVE  g \in Inputs(u)
    <3>1. g \in DOMAIN disk
      BY <2>3, <2>7, <2>11 DEF Parks, SegKinds, ParkKinds
    <3>2. CASE g.kind \in Parks(e)
      <4>1. Over(disk, proc, closed, 3 * p - 2, e)
        BY <2>1, <2>11, <3>1, <3>2 DEF FilesOK, Parks, SegKinds, ParkKinds
      <4> QED BY <1>2, <1>4, <2>1, <4>1, OverIs DEF Dead
    <3>3. CASE g.kind = "dir"
      <4>1. PICK r \in 1..closed : g = Raw(r) \/ g = Half(r)
        BY <2>1, <3>1, <3>3 DEF FilesOK
      <4>2. r \in Int
        BY <2>1, SizesTyped
      <4>3. g.base = 3 * r - 2 => r = p
        BY <1>2, <2>11, <4>2, OwnNamesDiffer
      <4>4. g.base = 3 * r - 2 \/ g.base = 3 * r - 1
        BY <4>1, <4>2, OwnNames
      <4>5. g # Half(r)
        <5>1. Half(r).base = 3 * r - 1
          BY <4>2, OwnNames
        <5> QED BY <1>2, <2>11, <4>2, <5>1, OwnNamesDiffer
      <4>6. g = Raw(r) /\ Raw(r).base = 3 * r - 2
        BY <4>1, <4>2, <4>5, OwnNames
      <4>7. g = Raw(p)
        BY <4>3, <4>6
      <4> QED BY <2>6, <4>7
    <3> QED BY <2>11, <3>2, <3>3
  <2>12. PublishOK(disk', proc', closed, p, u, e)
    BY <1>4, <2>3, <2>4, <2>6, <2>7, <2>11 DEF PublishOK, tmp
  <2>13. DiskTyped(disk', closed) /\ ProcTyped(proc')
    BY <1>1 DEF TypeInv
  <2>14. disk' = Put(disk, u.job.tmp, {p}) /\ u.job.tmp \notin DOMAIN disk /\ u.job.tmp.kind \in TmpKinds
    BY <1>4, <2>3, <2>4, <2>5, <2>6 DEF TmpKinds
  <2>15. /\ Sound(disk', proc', closed, group.file, inflight, e)
         /\ \A f \in DOMAIN disk : f \in DOMAIN disk' /\ disk'[f] = disk[f]
    <3> DEFINE d2 == disk'
               pr2 == proc'
               gr == group.file
    <3>1. Sound(disk, proc, closed, gr, inflight, e)
      BY DEF Orderly
    <3>2. Starts(disk, proc, closed, p, u, d2, pr2, e)
      BY <1>1, <1>2, <1>4, <2>6, <2>9, <2>10, <2>12, <2>13, <2>14 DEF Starts
    <3> HIDE DEF d2, pr2, gr
    <3>3. Sound(d2, pr2, closed, gr, inflight, e) /\ \A f \in DOMAIN disk : f \in DOMAIN d2 /\ d2[f] = disk[f]
      BY <1>2, <3>1, <3>2, StartSound
    <3> QED BY <3>3 DEF d2, pr2, gr
  <2> QED BY <1>1, <2>15, NewKeeps DEF Orderly
<1> QED BY <1>1, <1>3, <1>4

\* The name of a file that two are joined into.
LEMMA JoinedName ==
  ASSUME NEW cl \in 0..N, NEW r \in 1..cl
  PROVE  Joined(Raw(r)) = Half(r) /\ Joined(Half(r)) = Half(r) /\ Half(r).base = 3 * r - 1
<1>1. r \in Int
  BY SizesTyped
<1>2. Raw(r).base = 3 * r - 2 /\ Half(r).base = 3 * r - 1
  BY <1>1, OwnNames
<1>3. (3 * r - 2) % 3 = 1 /\ (3 * r - 1) % 3 # 1
  BY <1>1
<1> QED BY <1>2, <1>3 DEF Joined, Half

\* A session merge begins.
LEMMA JoinStarts ==
  ASSUME NEW e, Orderly(e), TypeInv', UNCHANGED closed, NEW p \in Recs, proc[p].pc = "session",
         NEW a, NEW b, NEW tmp, NEW then, a = group.file, b = Raw(p), tmp = File("sessiontmp", Joined(a).base + 1, 0),
         then \in {"regroup", "deliver"},
         Free(p, "session"), a \in DOMAIN disk, b \in DOMAIN disk, a # NoFile,
         disk' = Put(disk, tmp, disk[a] \cup disk[b]),
         proc' = [proc EXCEPT ![p] = At("publish", b, "session",
                    [del |-> <<a, b>>, tmp |-> tmp, dst |-> Joined(a), then |-> then])]
  PROVE  /\ Sound(disk', proc', closed', group.file, inflight, e)
         /\ \A f \in DOMAIN disk : f \in DOMAIN disk' /\ disk'[f] = disk[f]
<1> DEFINE j == [del |-> <<a, b>>, tmp |-> tmp, dst |-> Joined(a), then |-> then]
           u == At("publish", b, "session", j)
<1>1. p \in Procs /\ p \in 1..closed /\ p # Scan /\ ~(p > closed) /\ p \in Int
  BY AtWork
<1>2. /\ Good(disk, proc, closed, e) /\ FilesOK(disk, proc, closed, e) /\ closed \in 0..N
      /\ GroupOK(disk, proc, closed, group.file, inflight, e) /\ proc \in [Procs -> Goroutine]
      /\ Scan \in Procs
  BY <1>1, SizesTyped, Now
<1>3. PICK r \in 1..closed :
        /\ proc[r].pc = "done" /\ r > e.old
        /\ \/ a = Raw(r)
           \/ /\ a = Half(r) /\ Dead(disk, proc, Raw(r))
              /\ Dead(disk, proc, a) \/ Flushing(proc) \/ (a \in inflight /\ ~OnFile(proc[Scan], a))
  BY <1>2 DEF GroupOK
<1>4. r # p /\ r \in Int /\ r \in Procs /\ Raw(r).kind = "dir" /\ Half(r).kind = "dir" /\ Raw(r) # Half(r)
  BY <1>1, <1>2, <1>3, Numbers, OwnNamesDiffer
<1>5. Joined(a) = Half(r) /\ Half(r).base = 3 * r - 1
  BY <1>2, <1>3, JoinedName
<1>6. tmp = File("sessiontmp", 3 * r, 0) /\ tmp.kind = "sessiontmp" /\ tmp = JoinTmp(r)
  BY <1>5, FileIs DEF JoinTmp
<1>a. \A s \in 1..e.old : tmp # JoinTmp(s)
  <2>1. e.old \in Int /\ \A s \in 1..e.old : s \in Int /\ s # r
    BY <1>2, <1>3, <1>4, SizesTyped DEF Good, EpochOK
  <2> QED BY <1>4, <1>6, <2>1, JoinTmpIs
<1>7. j.tmp = tmp /\ j.dst = Half(r) /\ j.then = then /\ Range(j.del) = {a, b}
  BY <1>5 DEF Range
<1> HIDE DEF j
<1>8. /\ u.pc = "publish" /\ u.lock = "session" /\ u.job = j /\ Inputs(u) = {a, b}
      /\ u.job.tmp = tmp /\ u.job.dst = Half(r) /\ u.job.then = then
  BY <1>7, AtIs DEF Inputs
<1>9. proc' = [proc EXCEPT ![p] = u]
  BY DEF j
<1> HIDE DEF u
<1>10. tmp \notin DOMAIN disk
  <2> SUFFICES ASSUME tmp \in DOMAIN disk PROVE FALSE
    OBVIOUS
  <2>a. Owned(proc, tmp)
    BY <1>2, <1>6, <1>a, LeftOverIs DEF TmpKinds
  <2>1. PICK q \in Procs : proc[q].pc = "publish" /\ proc[q].job.tmp = tmp
    BY <2>a DEF Owned
  <2>2. PublishOK(disk, proc, closed, q, proc[q], e) /\ proc[q] \in Goroutine
    BY Now
  <2>3. proc[q].lock # "none"
    BY <1>6, <2>1, <2>2, FileIs DEF PublishOK
  <2>4. proc[q].lock # "merge"
    BY <1>6, <2>1, <2>2, FileIs DEF PublishOK
  <2>5. q # p
    BY <2>1
  <2> QED BY <2>2, <2>3, <2>4, <2>5 DEF Free, Goroutine
<1>11. /\ DOMAIN disk' = DOMAIN disk \cup {tmp} /\ disk'[tmp] = disk[a] \cup disk[b]
       /\ \A f \in DOMAIN disk : disk'[f] = disk[f]
  BY <1>10 DEF Put
<1>12. ~Dead(disk, proc, a)
  BY DEF Dead
<1>13. \A s \in 1..closed : Dead(disk, proc, Raw(s)) =>
            u.job.dst # Raw(s) /\ (Dead(disk, proc, Half(s)) => u.job.dst # Half(s))
  <2> SUFFICES ASSUME NEW s \in 1..closed, Dead(disk, proc, Raw(s))
               PROVE  Half(r) # Raw(s) /\ (Dead(disk, proc, Half(s)) => Half(r) # Half(s))
    BY <1>8
  <2>1. s \in Int
    BY <1>2, SizesTyped
  <2>2. Half(r) # Raw(s) /\ (Half(r) = Half(s) => r = s)
    BY <1>4, <2>1, OwnNamesDiffer
  <2> QED BY <1>3, <1>12, <2>2
<1>14. Lasting(disk, proc, closed, disk', proc', e)
  <2> DEFINE d2 == disk'
             pr2 == proc'
             c == disk[a] \cup disk[b]
  <2>1. d2 = Put(disk, u.job.tmp, c) /\ pr2 = [proc EXCEPT ![p] = u] /\ u.job.tmp.kind \in TmpKinds
    BY <1>6, <1>8, <1>9 DEF TmpKinds
  <2> HIDE DEF d2, pr2, c
  <2>2. Lasting(disk, proc, closed, d2, pr2, e)
    BY <1>1, <1>2, <1>8, <1>13, <1>a, <2>1, StartLasts
  <2> QED BY <2>2 DEF d2, pr2
<1>15. Shape(closed, p, u)
  BY <1>1, <1>8 DEF Shape
<1>16. ASSUME NEW g \in DOMAIN disk', g.kind \in {"dir"} \cup Parks(e), g.base = 3 * r - 1
       PROVE  g \in Inputs(u)
  <2>1. g \in DOMAIN disk
    BY <1>6, <1>11, <1>16 DEF Parks, SegKinds, ParkKinds
  <2>2. CASE g.kind \in Parks(e)
    <3>1. Over(disk, proc, closed, 3 * r - 1, e)
      BY <1>2, <1>16, <2>1, <2>2 DEF FilesOK, Parks, SegKinds, ParkKinds
    <3>2. Dead(disk, proc, Raw(r)) /\ Dead(disk, proc, Half(r))
      BY <1>2, <3>1, OverIs
    <3> QED BY <1>3, <1>12, <3>2
  <2>3. CASE g.kind = "dir"
    <3>1. PICK s \in 1..closed : g = Raw(s) \/ g = Half(s)
      BY <1>2, <2>1, <2>3 DEF FilesOK
    <3>2. s \in Int
      BY <1>2, SizesTyped
    <3>3. Raw(s).base = 3 * s - 2 /\ Half(s).base = 3 * s - 1
      BY <3>2, OwnNames
    <3>4. g # Raw(s)
      BY <1>4, <1>16, <3>2, <3>3, OwnNamesDiffer
    <3>5. s = r
      BY <1>4, <1>16, <3>1, <3>2, <3>3, <3>4, OwnNamesDiffer
    <3>6. g = Half(r) /\ Dead(disk, proc, Raw(r))
      BY <1>2, <2>1, <3>1, <3>4, <3>5 DEF FilesOK
    <3> QED BY <1>3, <1>8, <1>12, <3>6
  <2> QED BY <1>16, <2>2, <2>3
<1>17. PublishOK(disk', proc', closed, p, u, e)
  <2>1. \A g \in Inputs(u) : g \in DOMAIN disk' => disk'[g] \subseteq disk'[tmp]
    BY <1>8, <1>11
  <2> QED BY <1>5, <1>8, <1>11, <1>16, <2>1 DEF PublishOK
<1>18. proc[Scan].pc \in {"orphan", "upload"} => proc[Scan].file # Half(r)
  <2>1. CASE a = Raw(r)
    <3>1. UploadOK(disk, proc, closed, Scan, proc[Scan], e)
      BY <1>2, Now
    <3>2. \A s \in 1..closed : Half(r) # Raw(s) /\ (Half(r) = Half(s) => r = s)
      BY <1>2, <1>4, OwnNamesDiffer, SizesTyped
    <3> QED BY <1>4, <1>12, <2>1, <3>1, <3>2, JoinTmpIs DEF UploadOK, SegKinds
  <2>2. CASE a # Raw(r)
    <3>1. ~Flushing(proc)
      <4> SUFFICES ASSUME NEW q \in Procs, proc[q].pc = "flush" PROVE FALSE
        BY DEF Flushing
      <4>1. proc[q].lock = "session" /\ q # p
        BY Now DEF Shape
      <4> QED BY <4>1 DEF Free
    <3> QED BY <1>3, <1>12, <2>2, <3>1 DEF OnFile
  <2> QED BY <2>1, <2>2
<1>19. SessionOK(disk', proc', closed, p, u, e)
  <2>1. proc'[r].pc = "done" /\ proc'[Scan] = proc[Scan]
    BY <1>1, <1>2, <1>3, <1>4, <1>9
  <2>2. Raw(r) \in DOMAIN disk' => Raw(r) \in Inputs(u)
    <3>1. Raw(r) \in DOMAIN disk' => Raw(r) \in DOMAIN disk
      BY <1>4, <1>6, <1>11
    <3> QED BY <1>3, <1>8, <3>1 DEF Dead
  <2>3. Inputs(u) \subseteq {Raw(r), Half(r), Raw(p)}
    BY <1>3, <1>8
  <2> QED BY <1>3, <1>4, <1>6, <1>8, <1>18, <2>1, <2>2, <2>3 DEF SessionOK
<1> DEFINE d2 == disk'
           pr2 == proc'
           gr == group.file
<1>20. DiskTyped(d2, closed) /\ ProcTyped(pr2)
  BY DEF TypeInv
<1>21. Starts(disk, proc, closed, p, u, d2, pr2, e)
  BY <1>1, <1>6, <1>8, <1>9, <1>10, <1>14, <1>15, <1>17, <1>19, <1>20 DEF Starts, TmpKinds, Free
<1>22. Sound(disk, proc, closed, gr, inflight, e)
  BY DEF Orderly
<1> HIDE DEF d2, pr2, gr
<1>23. Sound(d2, pr2, closed, gr, inflight, e) /\ \A f \in DOMAIN disk : f \in DOMAIN d2 /\ d2[f] = disk[f]
  BY <1>1, <1>21, <1>22, StartSound
<1> QED BY <1>23 DEF d2, pr2, gr

\* A fragment joins the held file, or is left alone.
LEMMA MergeTwoFilesKeeps ==
  ASSUME NEW e, Orderly(e), TypeInv', NEW p \in Recs, MergeTwoFiles(p)
  PROVE  Orderly(e)' /\ Keeps
<1> DEFINE a == group.file
           b == proc[p].file
           tmp == File("sessiontmp", Joined(a).base + 1, 0)
           then == IF reason[p] = "end" THEN "deliver" ELSE "regroup"
<1>1. /\ proc[p].pc = "session" /\ UNCHANGED <<closed, inflight, sent, discarded>>
      /\ Free(p, "session") /\ b \in DOMAIN disk
      /\ \/ /\ a \in DOMAIN disk /\ UNCHANGED group
            /\ disk' = Put(disk, tmp, disk[a] \cup disk[b])
            /\ proc' = [proc EXCEPT ![p] = At("publish", b, "session",
                          [del |-> <<a, b>>, tmp |-> tmp, dst |-> Joined(a), then |-> then])]
         \/ group' = NoGroup /\ Goto(p, "mindur", b, "none") /\ UNCHANGED disk
  BY DEF MergeTwoFiles, Exists, Step, source
<1>2. p \in Procs
  BY SizesTyped
<1>3. CASE group' = NoGroup /\ Goto(p, "mindur", b, "none") /\ UNCHANGED disk
  <2>1. Tidies(disk, proc, disk', e) /\ Keeps
    BY <1>1, <1>3, StillTidy, StillThere
  <2>2. group'.file = NoFile
    BY <1>3 DEF NoGroup
  <2> QED BY <1>1, <1>3, <2>1, <2>2, WentOn
<1>4. CASE /\ a \in DOMAIN disk /\ UNCHANGED group
           /\ disk' = Put(disk, tmp, disk[a] \cup disk[b])
           /\ proc' = [proc EXCEPT ![p] = At("publish", b, "session",
                         [del |-> <<a, b>>, tmp |-> tmp, dst |-> Joined(a), then |-> then])]
  <2>1. b = Raw(p) /\ DiskTyped(disk, closed)
    BY <1>1, <1>2, Now DEF Named, Good
  <2>2. a # NoFile
    BY <1>4, <2>1, NameIs DEF DiskTyped, NoFile, File
  <2>3. then \in {"regroup", "deliver"}
    OBVIOUS
  <2> HIDE DEF a, b, tmp, then
  <2>4. a = group.file /\ tmp = File("sessiontmp", Joined(a).base + 1, 0)
    BY DEF a, tmp
  <2>5. /\ Sound(disk', proc', closed', group.file, inflight, e)
        /\ \A f \in DOMAIN disk : f \in DOMAIN disk' /\ disk'[f] = disk[f]
    BY <1>1, <1>4, <2>1, <2>2, <2>3, <2>4, JoinStarts
  <2> QED BY <1>1, <1>4, <2>5, NewKeeps DEF Orderly
<1> QED BY <1>1, <1>3, <1>4

-----------------------------------------------------------------------------
(* The steps that end one.                                                    *)

\* What is left to delete when the first input is gone.
LEMMA RangeTail ==
  ASSUME NEW S, NEW s \in Seq(S), s # <<>>
  PROVE  Range(Tail(s)) \subseteq Range(s) /\ Range(s) \subseteq Range(Tail(s)) \cup {Head(s)}
         /\ Head(s) \in Range(s)
<1>1. Len(s) \in Nat /\ Len(s) > 0 /\ DOMAIN s = 1..Len(s) /\ Head(s) = s[1]
  OBVIOUS
<1>2. /\ DOMAIN Tail(s) = 1..(Len(s) - 1)
      /\ \A i \in 1..(Len(s) - 1) : Tail(s)[i] = s[i + 1]
  BY <1>1
<1>3. \A i \in DOMAIN Tail(s) : i + 1 \in DOMAIN s /\ Tail(s)[i] = s[i + 1]
  BY <1>1, <1>2
<1>4. Range(Tail(s)) \subseteq Range(s)
  BY <1>3 DEF Range
<1>5. \A i \in DOMAIN s : i = 1 \/ (i - 1 \in DOMAIN Tail(s) /\ Tail(s)[i - 1] = s[i])
  BY <1>1, <1>2
<1>6. Range(s) \subseteq Range(Tail(s)) \cup {Head(s)}
  BY <1>1, <1>5 DEF Range
<1>7. Head(s) \in Range(s)
  <2>1. 1 \in DOMAIN s
    BY <1>1
  <2> QED BY <1>1, <2>1 DEF Range
<1> QED BY <1>4, <1>6, <1>7

\* An input may go: the scratch holds what it held.
LEMMA DeleteInputKeeps ==
  ASSUME NEW e, Orderly(e), TypeInv', NEW p \in Procs, DeleteInput(p)
  PROVE  Orderly(e)' /\ Keeps
<1> DEFINE j == proc[p].job
           h == Head(j.del)
           k == [j EXCEPT !.del = Tail(@)]
           u == At("publish", proc[p].file, proc[p].lock, k)
<1>1. /\ proc[p].pc = "publish" /\ j.del # <<>> /\ disk' = Without(disk, {h})
      /\ proc' = [proc EXCEPT ![p] = u]
      /\ UNCHANGED <<closed, group, inflight, sent, discarded>>
  BY DEF DeleteInput, Step, source
<1>2. /\ Good(disk, proc, closed, e) /\ PublishOK(disk, proc, closed, p, proc[p], e)
      /\ SessionOK(disk, proc, closed, p, proc[p], e)
      /\ proc[p] \in Goroutine /\ proc \in [Procs -> Goroutine] /\ closed \in 0..N
  BY Now
<1>3. j \in Job /\ j.del \in Seq(Names)
  BY <1>2 DEF Goroutine, Job
<1>4. k.del = Tail(j.del) /\ k.tmp = j.tmp /\ k.dst = j.dst /\ k.then = j.then
  BY <1>3 DEF Job
<1> HIDE DEF k
<1>5. /\ u.pc = "publish" /\ u.lock = proc[p].lock /\ u.job = k
  BY AtIs
<1> HIDE DEF u
<1>6. /\ Range(Tail(j.del)) \subseteq Range(j.del) /\ h \in Range(j.del)
      /\ Range(j.del) \subseteq Range(Tail(j.del)) \cup {h}
  BY <1>1, <1>3, RangeTail
<1>7. /\ Inputs(u) \subseteq Inputs(proc[p]) /\ h \in Inputs(proc[p])
      /\ Inputs(proc[p]) \subseteq Inputs(u) \cup {h}
  BY <1>4, <1>5, <1>6 DEF Inputs
<1>8. /\ u.job.tmp = proc[p].job.tmp /\ u.job.dst = proc[p].job.dst
      /\ u.job.then = proc[p].job.then
  BY <1>4, <1>5
<1>9. h.kind \notin TmpKinds
  BY <1>1, <1>2, <1>7, InputName DEF SegKinds, TmpKinds
<1> HIDE DEF j, h
<1>10. Tidies(disk, proc, disk', e)
  BY <1>1, <1>2, <1>9, RemoveTidies, OwnedIs
<1>11. DiskTyped(disk', closed) /\ ProcTyped(proc')
  BY <1>1 DEF TypeInv
<1>12. Sound(disk', proc, closed, group.file, inflight, e)
  BY <1>10, <1>11, TidySound DEF Orderly
<1>13. DOMAIN disk' = DOMAIN disk \ {h} /\ \A f \in DOMAIN disk \ {h} : disk'[f] = disk[f]
  BY <1>1 DEF Without, Restrict
<1> DEFINE d2 == disk'
           pr2 == proc'
           gr == group.file
<1>14. /\ Good(d2, proc, closed, e) /\ pr2 = [proc EXCEPT ![p] = u] /\ ProcTyped(pr2)
       /\ h \notin DOMAIN d2 /\ GroupOK(d2, proc, closed, gr, inflight, e)
  BY <1>1, <1>11, <1>12, <1>13 DEF Sound
<1> HIDE DEF d2, pr2, gr
<1>15. Good(d2, pr2, closed, e)
  BY <1>1, <1>5, <1>7, <1>8, <1>14, ShrinkOK
<1>16. pr2[p] = u /\ \A q \in Procs \ {p} : pr2[q] = proc[q]
  BY <1>2, <1>14
<1>17. \A f : Dead(d2, proc, f) => Dead(d2, pr2, f)
  BY <1>1, <1>8, <1>16 DEF Dead
<1>18. Lasting(d2, proc, closed, d2, pr2, e)
  BY <1>17 DEF Lasting
<1>19. /\ \A r \in 1..closed : proc[r].pc = "done" => pr2[r].pc = "done"
       /\ Flushing(proc) => Flushing(pr2)
       /\ OnFile(pr2[Scan], gr) => OnFile(proc[Scan], gr)
  <2>1. \A r \in 1..closed : r \in Procs
    BY <1>2, Numbers
  <2>2. Flushing(proc) => Flushing(pr2)
    BY <1>1, <1>16 DEF Flushing
  <2>3. OnFile(pr2[Scan], gr) => OnFile(proc[Scan], gr)
    BY <1>5, <1>16, SizesTyped DEF OnFile
  <2> QED BY <1>1, <1>16, <2>1, <2>2, <2>3
<1>20. GroupOK(d2, pr2, closed, gr, inflight, e)
  BY <1>2, <1>14, <1>18, <1>19, GroupStays
<1>21. Orderly(e)'
  BY <1>1, <1>15, <1>20 DEF Orderly, Sound, d2, pr2, gr
<1>22. h \in DOMAIN disk => disk[h] \subseteq Footage(disk', sent', discarded')
  <2> SUFFICES ASSUME h \in DOMAIN disk PROVE disk[h] \subseteq Footage(disk', sent', discarded')
    OBVIOUS
  <2>1. /\ proc[p].job.tmp \in DOMAIN disk /\ disk[h] \subseteq disk[proc[p].job.tmp]
    BY <1>1, <1>2, <1>7 DEF PublishOK
  <2>2. proc[p].job.tmp.kind \in TmpKinds
    <3>1. CASE proc[p].lock = "session"
      BY <1>1, <1>2, <3>1, FileIs DEF SessionOK, InSession, TmpKinds
    <3>2. CASE proc[p].lock # "session"
      BY <1>1, <1>2, <3>2, FileIs DEF PublishOK, TmpKinds, Goroutine
    <3> QED BY <3>1, <3>2
  <2>3. proc[p].job.tmp \in DOMAIN disk' /\ disk'[proc[p].job.tmp] = disk[proc[p].job.tmp]
    BY <1>9, <1>13, <2>1, <2>2
  <2> QED BY <2>1, <2>3 DEF Footage
<1>23. \A f \in DOMAIN disk \ {h} : disk[f] \subseteq Footage(disk', sent', discarded')
  BY <1>13 DEF Footage
<1>24. sent \subseteq sent' /\ discarded \subseteq discarded'
  BY <1>1
<1>25. Keeps
  BY <1>22, <1>23, <1>24, FootageKept DEF Keeps
<1> QED BY <1>21, <1>25

\* The output appears under a name nothing else bears.
LEMMA PublishOutputKeeps ==
  ASSUME NEW e, Orderly(e), TypeInv', NEW p \in Procs, PublishOutput(p)
  PROVE  Orderly(e)' /\ Keeps
<1> DEFINE j == proc[p].job
           u == IF j.then = "done" THEN At("done", NoFile, "none", NoJob)
                ELSE At(j.then, j.dst, proc[p].lock, j)
           d2 == disk'
           pr2 == proc'
           gr == group.file
<1>1. /\ proc[p].pc = "publish" /\ j.del = <<>> /\ d2 = Rename(disk, j.tmp, j.dst)
      /\ pr2 = [proc EXCEPT ![p] = u]
      /\ UNCHANGED <<closed, group, inflight, sent, discarded>>
  BY DEF PublishOutput, Finish, Goto, Step, source
<1>2. /\ Good(disk, proc, closed, e) /\ GroupOK(disk, proc, closed, gr, inflight, e)
      /\ proc[p] \in Goroutine /\ proc \in [Procs -> Goroutine] /\ closed \in 0..N
      /\ Shape(closed, p, proc[p])
  BY Now
<1>3. DiskTyped(d2, closed) /\ ProcTyped(pr2)
  BY <1>1 DEF TypeInv
<1>4. Inputs(proc[p]) = {}
  BY <1>1 DEF Inputs, Range
<1>5. /\ u.pc = j.then /\ j.then \in {"done", "session", "regroup", "deliver", "egress", "orphan"}
      /\ u.file = j.dst \/ u.pc = "done"
  BY <1>2, AtIs DEF Goroutine, Job
<1>6. j.dst \in Names /\ (p = Scan => j.dst.kind = "merged")
  BY <1>1, <1>2, OutputName DEF Shape
<1>7. pr2[p] = u /\ \A q \in Procs \ {p} : pr2[q] = proc[q]
  BY <1>1, <1>2
<1> HIDE DEF d2, pr2
<1>8. /\ Good(d2, pr2, closed, e) /\ Lasting(disk, proc, closed, d2, pr2, e)
      /\ \A f \in DOMAIN disk : \E g \in DOMAIN d2 : d2[g] = disk[f]
  <2>1. Publishes(disk, proc, p, d2, pr2)
    BY <1>1, <1>4 DEF Publishes
  <2> HIDE DEF u, j, gr
  <2> QED BY <1>2, <1>3, <2>1, PublishedOK
<1> HIDE DEF u, j, gr
<1>9. /\ \A r \in 1..closed : proc[r].pc = "done" => pr2[r].pc = "done"
      /\ Flushing(proc) => Flushing(pr2)
      /\ gr # NoFile => (OnFile(pr2[Scan], gr) => OnFile(proc[Scan], gr))
  <2>1. \A r \in 1..closed : r \in Procs
    BY <1>2, Numbers
  <2>2. Flushing(proc) => Flushing(pr2)
    BY <1>1, <1>7 DEF Flushing
  <2>3. gr # NoFile => gr.kind = "dir"
    BY HeldFile DEF gr
  <2>4. gr # NoFile => (OnFile(pr2[Scan], gr) => OnFile(proc[Scan], gr))
    BY <1>5, <1>6, <1>7, <2>3, SizesTyped DEF OnFile
  <2> QED BY <1>1, <1>7, <2>1, <2>2, <2>4
<1>10. GroupOK(d2, pr2, closed, gr, inflight, e)
  <2>1. CASE gr = NoFile
    BY <2>1 DEF GroupOK
  <2>2. CASE gr # NoFile
    BY <1>2, <1>8, <1>9, <2>2, GroupStays
  <2> QED BY <2>1, <2>2
<1>11. Orderly(e)'
  BY <1>1, <1>8, <1>10 DEF Orderly, Sound, d2, pr2, gr
<1>12. \A f \in DOMAIN disk : disk[f] \subseteq Footage(disk', sent', discarded')
  BY <1>8 DEF Footage, d2
<1>13. sent \subseteq sent' /\ discarded \subseteq discarded'
  BY <1>1
<1>14. Keeps
  BY <1>12, <1>13, FootageKept DEF Keeps
<1> QED BY <1>11, <1>14

-----------------------------------------------------------------------------
(* The steps that park a file.                                                *)

\* A step that only moves files keeps the footage.
LEMMA MovedFilesKeep ==
  ASSUME \A f \in DOMAIN disk : \E g \in DOMAIN disk' : disk'[g] = disk[f],
         sent \subseteq sent', discarded \subseteq discarded'
  PROVE  Keeps
<1>1. \A f \in DOMAIN disk : disk[f] \subseteq Footage(disk', sent', discarded')
  BY DEF Footage
<1> QED BY <1>1, FootageKept DEF Keeps

LEMMA ParkKeeps ==
  ASSUME NEW e, Orderly(e), NEW f \in DOMAIN disk, disk' = Rename(disk, f, Parked(f)),
         \/ f.kind = "dir" /\ \A q \in Procs : proc[q].pc = "publish" => proc[q].job.dst # f
         \/ f.kind = "sessiontmp" /\ ~Owned(proc, f),
         UNCHANGED <<sent, discarded>>
  PROVE  Tidies(disk, proc, disk', e) /\ Keeps
<1>1. Good(disk, proc, closed, e)
  BY SizesTyped, Now
<1> DEFINE d2 == Rename(disk, f, Parked(f))
<1>2. /\ Tidies(disk, proc, d2, e)
      /\ DOMAIN d2 = (DOMAIN disk \ {f}) \cup {Parked(f)}
      /\ d2[Parked(f)] = disk[f]
      /\ \A g \in DOMAIN disk \ {f} : d2[g] = disk[g]
  BY <1>1, ParkTidies
<1>3. disk' = d2
  OBVIOUS
<1> HIDE DEF d2
<1>4. \A h \in DOMAIN disk : \E g \in DOMAIN d2 : d2[g] = disk[h]
  BY <1>2
<1>5. sent \subseteq sent' /\ discarded \subseteq discarded'
  OBVIOUS
<1>6. Keeps
  BY <1>3, <1>4, <1>5, MovedFilesKeep
<1> QED BY <1>2, <1>3, <1>6

\* No rewrite will publish the file of a goroutine that is not in one.
LEMMA OwnNotPublished ==
  ASSUME NEW e, Orderly(e), NEW p \in Recs, proc[p].pc \notin {"idle", "publish"}
  PROVE  \A q \in Procs : proc[q].pc = "publish" => proc[q].job.dst # Raw(p)
<1>1. p \in Procs /\ p \in 1..closed
  BY AtWork
<1> QED BY <1>1, Now, Publisher

LEMMA MinDurationUnreadKeeps ==
  ASSUME NEW e, Orderly(e), TypeInv', NEW p \in Recs, MinDurationUnread(p)
  PROVE  Orderly(e)' /\ Keeps
<1>1. /\ proc[p].pc = "mindur" /\ UNCHANGED <<closed, group, inflight, sent, discarded>>
      /\ proc[p].file \in DOMAIN disk /\ Finish(p)
      /\ disk' = Rename(disk, proc[p].file, Parked(proc[p].file))
  BY DEF MinDurationUnread, Exists, source
<1>2. p \in Procs /\ p \in Int
  BY SizesTyped
<1>3. proc[p].file = Raw(p) /\ Raw(p).kind = "dir"
  BY <1>1, <1>2, Now, OwnNames DEF Named
<1>4. Tidies(disk, proc, disk', e) /\ Keeps
  BY <1>1, <1>3, OwnNotPublished, ParkKeeps
<1> QED BY <1>1, <1>2, <1>4, FinishedOrderly

\* The scan of the recording directory parks or uploads what nobody works on.
LEMMA ScanMainKeeps ==
  ASSUME NEW e, Orderly(e), TypeInv', NEW f \in DOMAIN disk, ScanMain(f)
  PROVE  Orderly(e)' /\ Keeps
<1> DEFINE u == At("orphan", f, "none", NoJob)
<1>1. /\ proc[Scan].pc \in {"idle", "done"} /\ f.kind \in {"dir", "sessiontmp"} /\ f \notin inflight
      /\ \A r \in Recs : f # proc[r].job.tmp
      /\ \A r \in Recs : proc[r].pc \in {"publish", "regroup", "deliver"} => f # proc[r].job.dst
      /\ UNCHANGED <<closed, group, inflight, sent, discarded>>
      /\ \/ disk' = Rename(disk, f, Parked(f)) /\ UNCHANGED proc
         \/ proc' = [proc EXCEPT ![Scan] = u] /\ UNCHANGED disk
  BY DEF ScanMain, ScanIdle, Settled, Goto, Step, source
<1>2. /\ Good(disk, proc, closed, e) /\ FilesOK(disk, proc, closed, e) /\ closed \in 0..N
      /\ GroupOK(disk, proc, closed, group.file, inflight, e)
      /\ proc \in [Procs -> Goroutine] /\ Scan \in Procs
  BY SizesTyped, Now
<1>3. Procs = Recs \cup {Scan}
  BY SizesTyped
<1>4. /\ f.kind = "dir" \/ (f.kind = "sessiontmp" /\ ~Owned(proc, f) /\ \E r \in 1..e.old : f = JoinTmp(r))
      /\ f.kind = "dir" => \A q \in Procs : proc[q].pc = "publish" => proc[q].job.dst # f
  <2>1. f.kind = "dir" => \A q \in Procs : proc[q].pc = "publish" => proc[q].job.dst # f
    <3> SUFFICES ASSUME f.kind = "dir", NEW q \in Procs, proc[q].pc = "publish" PROVE proc[q].job.dst # f
      OBVIOUS
    <3>1. proc[Scan].pc # "publish"
      BY <1>1
    <3> QED BY <1>1, <1>3, <3>1
  <2>2. f.kind = "sessiontmp" => ~Owned(proc, f)
    <3>1. proc[Scan].pc # "publish"
      BY <1>1
    <3> QED BY <1>1, <1>3, <3>1 DEF Owned
  <2>3. f.kind = "sessiontmp" => \E r \in 1..e.old : f = JoinTmp(r)
    BY <1>2, <2>2, LeftOverIs DEF TmpKinds
  <2> QED BY <1>1, <2>1, <2>2, <2>3
<1>5. CASE disk' = Rename(disk, f, Parked(f)) /\ UNCHANGED proc
  <2>1. Tidies(disk, proc, disk', e) /\ Keeps
    BY <1>1, <1>4, <1>5, ParkKeeps
  <2>2. DiskTyped(disk', closed)
    BY <1>1 DEF TypeInv
  <2>3. Sound(disk', proc, closed, group.file, inflight, e)
    BY <2>1, <2>2, TidySound DEF Orderly
  <2> QED BY <1>1, <1>5, <2>1, <2>3 DEF Orderly
<1>6. CASE proc' = [proc EXCEPT ![Scan] = u] /\ UNCHANGED disk
  <2>1. Tidies(disk, proc, disk', e) /\ Keeps
    BY <1>1, <1>6, StillTidy, StillThere
  <2>2. u.pc = "orphan" /\ u.lock = "none" /\ u.file = f
    BY AtIs
  <2> HIDE DEF u
  <2>3. \/ \E r \in 1..closed : f = Raw(r) \/ (f = Half(r) /\ Dead(disk, proc, Raw(r)))
        \/ \E r \in 1..e.old : f = JoinTmp(r)
    BY <1>2, <1>4 DEF FilesOK
  <2>4. UploadOK(disk', proc, closed, Scan, u, e) /\ Shape(closed, Scan, u)
    BY <1>6, <2>2, <2>3 DEF UploadOK, Shape
  <2>5. \A s \in Procs : InSession(proc[s]) => proc[s].job.dst # f
    BY <1>1, <1>3 DEF InSession
  <2>6. Moves(disk', proc, closed, Scan, u, e)
    BY <1>1, <2>2, <2>4, <2>5 DEF Moves
  <2>7. Good(disk', proc', closed', e) /\ Lasting(disk, proc, closed, disk', proc', e)
    BY <1>1, <1>2, <1>6, <2>1, <2>2, <2>6, MovedGood
  <2>8. proc'[Scan] = u /\ \A q \in Procs \ {Scan} : proc'[q] = proc[q]
    BY <1>2, <1>6
  <2>9. /\ \A r \in 1..closed : proc[r].pc = "done" => proc'[r].pc = "done"
        /\ Flushing(proc) => Flushing(proc')
    <3>1. \A r \in 1..closed : r \in Procs /\ r # Scan
      BY <1>2, Numbers
    <3>2. Flushing(proc) => Flushing(proc')
      BY <1>1, <2>8 DEF Flushing
    <3> QED BY <2>8, <3>1, <3>2
  <2>10. group.file \in inflight => ~OnFile(proc'[Scan], group.file)
    BY <1>1, <2>2, <2>8 DEF OnFile
  <2>11. GroupOK(disk', proc', closed, group.file, inflight, e)
    <3> SUFFICES ASSUME group.file # NoFile PROVE GroupOK(disk', proc', closed, group.file, inflight, e)
      BY DEF GroupOK
    <3>1. PICK r \in 1..closed :
       /\ proc[r].pc = "done" /\ r > e.old
       /\ \/ group.file = Raw(r)
          \/ /\ group.file = Half(r) /\ Dead(disk, proc, Raw(r))
             /\ Dead(disk, proc, group.file) \/ Flushing(proc) \/ group.file \in inflight
      BY <1>2 DEF GroupOK
    <3>2. Dead(disk, proc, Raw(r)) => /\ Dead(disk', proc', Raw(r))
                                      /\ Dead(disk, proc, Half(r)) => Dead(disk', proc', Half(r))
      BY <2>7 DEF Lasting
    <3> QED BY <2>9, <2>10, <3>1, <3>2 DEF GroupOK
  <2> QED BY <1>1, <2>1, <2>7, <2>11 DEF Orderly, Sound
<1> QED BY <1>1, <1>5, <1>6

-----------------------------------------------------------------------------
(* The merges of .pending.                                                    *)

\* The files of a list with one more at either end.
LEMMA RangeAppend ==
  ASSUME NEW S, NEW s \in Seq(S), NEW f
  PROVE  Range(s \o <<f>>) = Range(s) \cup {f} /\ Range(<<f>> \o s) = Range(s) \cup {f}
<1>1. Len(s) \in Nat /\ DOMAIN s = 1..Len(s)
  OBVIOUS
<1> DEFINE n == Len(s)
<1>2. /\ DOMAIN (s \o <<f>>) = 1..(n + 1) /\ (s \o <<f>>)[n + 1] = f
      /\ \A i \in 1..n : (s \o <<f>>)[i] = s[i]
  OBVIOUS
<1>3. /\ DOMAIN (<<f>> \o s) = 1..(n + 1) /\ (<<f>> \o s)[1] = f
      /\ \A i \in 1..n : (<<f>> \o s)[i + 1] = s[i]
  OBVIOUS
<1> HIDE DEF n
<1>4. /\ 1..(n + 1) = 1..n \cup {n + 1} /\ 1 \in 1..(n + 1)
      /\ \A i \in 1..n : i + 1 \in 1..(n + 1)
      /\ \A i \in 1..(n + 1) : i = 1 \/ (i - 1 \in 1..n /\ (i - 1) + 1 = i)
  BY <1>1 DEF n
<1>5. Range(s \o <<f>>) = Range(s) \cup {f}
  BY <1>1, <1>2, <1>4 DEF Range, n
<1>6. Range(<<f>> \o s) = Range(s) \cup {f}
  <2> DEFINE t == <<f>> \o s
  <2>1. DOMAIN t = 1..(n + 1) /\ t[1] = f /\ \A i \in 1..n : t[i + 1] = s[i]
    BY <1>3
  <2> HIDE DEF t
  <2>2. \A i \in 1..(n + 1) : t[i] = f \/ \E k \in 1..n : t[i] = s[k]
    BY <1>4, <2>1
  <2>3. \A k \in 1..n : \E i \in 1..(n + 1) : t[i] = s[k]
    BY <1>4, <2>1
  <2>4. DOMAIN s = 1..n
    BY <1>1 DEF n
  <2> DEFINE I == 1..(n + 1)
             K == 1..n
  <2>5. DOMAIN t = I /\ 1 \in I /\ t[1] = f
    BY <1>4, <2>1
  <2>6. DOMAIN s = K /\ (\A i \in I : t[i] = f \/ \E k \in K : t[i] = s[k])
        /\ (\A k \in K : \E i \in I : t[i] = s[k])
    BY <2>2, <2>3, <2>4
  <2> HIDE DEF I, K
  <2>7. Range(t) \subseteq Range(s) \cup {f}
    BY <2>5, <2>6 DEF Range
  <2>8. f \in Range(t) /\ Range(s) \subseteq Range(t)
    BY <2>5, <2>6 DEF Range
  <2> QED BY <2>7, <2>8 DEF t
<1> QED BY <1>5, <1>6

NoneMerges == \A q \in Procs : proc[q].lock # "merge"
InMerge(p) == (p # Scan /\ proc[p].pc = "mindur") \/ (p = Scan /\ proc[p].pc \in {"idle", "done"})

\* With the merge lock free for it, nobody holds the lock.
LEMMA MergeFree ==
  ASSUME NEW e, Orderly(e), NEW p \in Procs, InMerge(p), Free(p, "merge")
  PROVE  NoneMerges
<1>1. proc[p].lock = "none"
  BY Now DEF InMerge, Shape
<1> QED BY <1>1 DEF NoneMerges, Free

\* A merge of the segments of d starts: its output takes a name that is over.
LEMMA MergeStarts ==
  ASSUME NEW e, e.runs = crashes, TypeInv', UNCHANGED closed,
         NEW d, Sound(d, proc, closed, group.file, inflight, e),
         NEW p \in Procs, InMerge(p), NoneMerges, Segments(d) # {},
         NEW more, more = {} \/ (p # Scan /\ more = {Raw(p)} /\ Raw(p) \in DOMAIN d),
         NEW del, Range(del) = Segments(d) \cup more,
         NEW then \in {"egress", "done", "orphan"}, p = Scan => then # "egress",
         MergeVideos(p, d, more, del, then)
  PROVE  /\ Sound(disk', proc', closed, group.file, inflight, e)
         /\ \A f \in DOMAIN d : f \in DOMAIN disk' /\ disk'[f] = d[f]
<1> DEFINE segs == Segments(d)
           tmp == Scratch(segs)
           dst == MergedName(segs)
           all == UNION {d[f] : f \in segs \cup more}
           j == [del |-> del, tmp |-> tmp, dst |-> dst, then |-> then]
           u == At("publish", NoFile, "merge", j)
           d2 == disk'
           pr2 == proc'
           gr == group.file
<1>1. d2 = Put(d, tmp, all) /\ pr2 = [proc EXCEPT ![p] = u]
  BY DEF MergeVideos, Step
<1>2. /\ Good(d, proc, closed, e) /\ FilesOK(d, proc, closed, e) /\ closed \in 0..N /\ DiskTyped(d, closed)
      /\ proc \in [Procs -> Goroutine] /\ Shape(closed, p, proc[p])
  BY DEF Sound, Good, ProcTyped
<1>3. segs \subseteq DOMAIN d /\ \A f \in segs : f.kind \in SegKinds
  BY DEF Segments, SegKinds
<1>4. PICK f \in segs : dst = File("merged", f.base, 0)
  BY <1>2, MergeNames
<1>5. /\ dst.kind = "merged" /\ dst.base = f.base
      /\ tmp = File("merging", dst.base, e.runs + 1) /\ tmp.kind = "merging" /\ tmp.run = e.runs + 1
  BY <1>4, FileIs DEF Scratch
<1>6. f \in DOMAIN d /\ \A g \in segs : Over(d, proc, closed, g.base, e)
  BY <1>2, <1>3 DEF FilesOK, SegKinds, ParkKinds
<1>7. tmp \notin DOMAIN d
  <2> SUFFICES ASSUME tmp \in DOMAIN d PROVE FALSE
    OBVIOUS
  <2>1. ~Owned(proc, tmp)
    BY <1>2, <1>5, MergeScratchLeft DEF NoneMerges
  <2>2. tmp.run <= e.runs /\ e.runs \in Nat
    BY <1>2, <1>5, <2>1, LeftOverIs, SizesTyped DEF TmpKinds, Good, EpochOK
  <2> QED BY <1>5, <2>2
<1>8. j.tmp = tmp /\ j.dst = dst /\ j.then = then /\ j.del = del
  OBVIOUS
<1> HIDE DEF j
<1>9. /\ u.pc = "publish" /\ u.lock = "merge" /\ u.job = j /\ Inputs(u) = segs \cup more
      /\ u.job.tmp = tmp /\ u.job.dst = dst /\ u.job.then = then
  BY <1>8, AtIs DEF Inputs
<1>10. DiskTyped(d2, closed) /\ ProcTyped(pr2)
  BY DEF TypeInv
<1>11. Sound(d, proc, closed, gr, inflight, e)
  OBVIOUS
<1> HIDE DEF segs, tmp, dst, all, u, d2, pr2, gr
<1>12. /\ DOMAIN d2 = DOMAIN d \cup {tmp} /\ d2[tmp] = all /\ \A g \in DOMAIN d : d2[g] = d[g]
  BY <1>1, <1>7 DEF Put
<1>13. Lasting(d, proc, closed, d2, pr2, e)
  <2>1. \A r \in 1..closed : Raw(r).kind = "dir" /\ Half(r).kind = "dir"
    BY <1>2, Numbers
  <2>2. \A r \in 1..closed : Dead(d, proc, Raw(r)) =>
             u.job.dst # Raw(r) /\ (Dead(d, proc, Half(r)) => u.job.dst # Half(r))
    BY <1>5, <1>9, <2>1
  <2>3. u.job.tmp.kind \in TmpKinds /\ d2 = Put(d, u.job.tmp, all)
    BY <1>1, <1>5, <1>9 DEF TmpKinds
  <2>4. \A r \in 1..e.old : u.job.tmp # JoinTmp(r)
    BY <1>5, <1>9, JoinTmpIs
  <2> QED BY <1>1, <1>2, <2>2, <2>3, <2>4, StartLasts
<1>14. \A b : Over(d, proc, closed, b, e) => Over(d2, pr2, closed, b, e)
  <2>1. closed <= closed
    BY <1>2, SizesTyped
  <2> QED BY <1>2, <1>13, <2>1, OverLasts
<1>15. Shape(closed, p, u) /\ SessionOK(d2, pr2, closed, p, u, e)
  BY <1>2, <1>9 DEF Shape, SessionOK, InSession, InMerge
<1>16. ASSUME NEW g \in DOMAIN d2, g.kind \in {"dir"} \cup Parks(e), g.base = dst.base
       PROVE  g \in Inputs(u)
  <2>1. g \in DOMAIN d
    BY <1>5, <1>12, <1>16 DEF Parks, SegKinds, ParkKinds
  <2>2. g.kind # "dir"
    BY <1>2, <1>5, <1>6, <1>16, <2>1, AliveNotOver
  <2>3. f.kind \in Parks(e)
    BY <1>3 DEF Parks, SegKinds, ParkKinds
  <2>4. g = f
    BY <1>2, <1>5, <1>6, <1>16, <2>1, <2>2, <2>3 DEF FilesOK
  <2> QED BY <1>9, <2>4
<1>17. \A g \in Inputs(u) : g \in DOMAIN d2 => d2[g] \subseteq d2[tmp]
  <2>1. Inputs(u) \subseteq DOMAIN d
    BY <1>3, <1>9
  <2>2. \A g \in segs \cup more : d[g] \subseteq all
    BY DEF all
  <2> QED BY <1>9, <1>12, <2>1, <2>2
<1>18. \A g \in Inputs(u) : \/ p # Scan /\ g = Raw(p)
                            \/ g.kind \in SegKinds /\ Over(d2, pr2, closed, g.base, e)
  BY <1>3, <1>6, <1>9, <1>14
<1>19. PublishOK(d2, pr2, closed, p, u, e)
  BY <1>5, <1>6, <1>9, <1>12, <1>14, <1>16, <1>17, <1>18 DEF PublishOK
<1>20. Starts(d, proc, closed, p, u, d2, pr2, e)
  <2>1. d2 = Put(d, u.job.tmp, all) /\ u.job.tmp.kind \in TmpKinds /\ u.job.tmp \notin DOMAIN d
    BY <1>1, <1>5, <1>7, <1>9 DEF TmpKinds
  <2>2. proc[p].pc \notin {"publish", "flush"} /\ (p # Scan => proc[p].pc # "done")
    BY DEF InMerge
  <2>3. \A q \in Procs \ {p} : proc[q].lock # u.lock
    BY <1>9 DEF NoneMerges
  <2> QED BY <1>1, <1>9, <1>10, <1>13, <1>15, <1>19, <2>1, <2>2, <2>3 DEF Starts
<1>21. Sound(d2, pr2, closed, gr, inflight, e) /\ \A g \in DOMAIN d : g \in DOMAIN d2 /\ d2[g] = d[g]
  BY <1>11, <1>20, StartSound
<1> QED BY <1>21 DEF d2, pr2, gr

\* What the merges do to the directory one after the other: all but what they
\* discard stays on disk, if under another name.
Held(d, disc, e) ==
  \A f \in DOMAIN disk : Spare(f, e) \/ disk[f] \subseteq disc \/ \E g \in DOMAIN d : d[g] = disk[f]
Carried(d, disc, e) == Sound(d, proc, closed, group.file, inflight, e) /\ Held(d, disc, e)

\* What is not spare also stays where no step may replace it.
Intact(d, disc, e) ==
  \A f \in DOMAIN disk : \/ Spare(f, e) \/ disk[f] \subseteq disc
                         \/ \E g \in DOMAIN d : ~Spare(g, e) /\ d[g] = disk[f]

\* Nothing done yet, scratch recovered, aged segments removed, one quarantined,
\* a file parked.
LEMMA CarriedHere ==
  ASSUME NEW e, Orderly(e)
  PROVE  Carried(disk, {}, e) /\ Intact(disk, {}, e)
BY DEF Carried, Held, Intact, Orderly

LEMMA CarriedFacts ==
  ASSUME NEW e, NEW d, NEW disc, Carried(d, disc, e)
  PROVE  Good(d, proc, closed, e) /\ DiskTyped(d, closed) /\ FilesOK(d, proc, closed, e)
         /\ Sound(d, proc, closed, group.file, inflight, e) /\ closed \in 0..N
BY DEF Carried, Sound, Good

LEMMA CarriedRecover ==
  ASSUME NEW e, Orderly(e), NoneMerges
  PROVE  LET r == RecoverMergeScratch(disk) IN Carried(r, {}, e) /\ Intact(r, {}, e)
<1> DEFINE left == {f \in DOMAIN disk : f.kind = "merging"}
           gr == group.file
           r == RecoverMergeScratch(disk)
<1>1. /\ Good(disk, proc, closed, e) /\ DiskTyped(disk, closed) /\ FilesOK(disk, proc, closed, e)
      /\ Sound(disk, proc, closed, gr, inflight, e)
  BY DEF Orderly, Sound, Good
<1>2. DiskTyped(r, closed)
  BY <1>1, RecoverTyped
<1>3. IsFiniteSet(left)
  BY <1>1, FS_Subset DEF DiskTyped
<1>4. CASE Cardinality(left) # 1
  BY <1>4, CarriedHere DEF RecoverMergeScratch
<1>5. ASSUME Cardinality(left) = 1 PROVE Carried(r, {}, e) /\ Intact(r, {}, e)
  <2>1. PICK f : left = {f}
    BY <1>3, <1>5, FS_Singleton
  <2>2. f \in DOMAIN disk /\ f.kind = "merging" /\ (CHOOSE g \in left : TRUE) = f
    BY <2>1
  <2>3. ~Owned(proc, f)
    BY <1>1, <2>2, MergeScratchLeft DEF NoneMerges
  <2>4. Spare(f, e)
    BY <1>1, <2>2, <2>3, LeftOverIs DEF Spare, TmpKinds
  <2> DEFINE m == File("merged", f.base, 0)
  <2>5. \/ Segments(disk) # {} /\ r = Without(disk, {f})
        \/ Segments(disk) = {} /\ r = Rename(disk, f, m)
    BY <1>5, <2>1, <2>2 DEF RecoverMergeScratch
  <2>6. m.kind = "merged" /\ m.base = f.base
    BY FileIs
  <2> HIDE DEF r, gr, left, m
  <2>7. CASE Segments(disk) # {} /\ r = Without(disk, {f})
    <3>1. Tidies(disk, proc, r, e)
      BY <1>1, <2>3, <2>7, RemoveTidies
    <3>2. \A g \in DOMAIN disk \ {f} : g \in DOMAIN r /\ r[g] = disk[g]
      BY <2>7 DEF Without, Restrict
    <3>3. Sound(r, proc, closed, gr, inflight, e)
      BY <1>1, <1>2, <3>1, TidySound
    <3>4. Held(r, {}, e) /\ Intact(r, {}, e)
      BY <2>4, <3>2 DEF Held, Intact
    <3> QED BY <3>3, <3>4 DEF Carried, gr
  <2>8. CASE Segments(disk) = {} /\ r = Rename(disk, f, m)
    <3>1. m \notin DOMAIN disk
      BY <2>6, <2>8 DEF Segments
    <3>2. /\ DOMAIN r = (DOMAIN disk \ {f}) \cup {m} /\ r[m] = disk[f]
          /\ \A g \in DOMAIN disk \ {f} : r[g] = disk[g]
      BY <2>2, <2>8, <3>1 DEF Rename, Put, Without, Restrict
    <3>3. f \in DOMAIN disk \ DOMAIN r /\ Taken(disk, proc, m, f, e)
      BY <2>2, <2>6, <2>8, <3>1, <3>2 DEF Taken, NoneMerges
    <3>4. Tidies(disk, proc, r, e)
      BY <2>3, <3>1, <3>2, <3>3 DEF Tidies
    <3>5. Sound(r, proc, closed, gr, inflight, e)
      BY <1>1, <1>2, <3>4, TidySound
    <3>6. Held(r, {}, e) /\ Intact(r, {}, e)
      BY <2>4, <3>2 DEF Held, Intact
    <3> QED BY <3>5, <3>6 DEF Carried, gr
  <2> QED BY <2>5, <2>7, <2>8 DEF r
<1> QED BY <1>4, <1>5

LEMMA CarriedWithout ==
  ASSUME NEW e, NEW d, Carried(d, {}, e), Intact(d, {}, e),
         NEW aged, aged = {} \/ \E f : aged = {f}, aged \subseteq Segments(d),
         NEW disc, \A f \in aged : d[f] \subseteq disc
  PROVE  Carried(Without(d, aged), disc, e) /\ Intact(Without(d, aged), disc, e)
<1> DEFINE w == Without(d, aged)
           gr == group.file
<1>1. Good(d, proc, closed, e) /\ DiskTyped(d, closed) /\ Sound(d, proc, closed, gr, inflight, e)
  BY CarriedFacts
<1>2. DiskTyped(w, closed) /\ DOMAIN w = DOMAIN d \ aged /\ \A f \in DOMAIN d \ aged : w[f] = d[f]
  BY <1>1, WithoutTyped
<1>3. \A f \in aged : f.kind \in SegKinds
  BY DEF Segments, SegKinds
<1>4. \A f : Owned(proc, f) => f.kind \in TmpKinds
  BY <1>1, OwnedIs
<1> HIDE DEF w, gr
<1>5. Tidies(d, proc, w, e)
  BY <1>2, <1>3, <1>4 DEF Tidies, SegKinds, TmpKinds
<1>6. Sound(w, proc, closed, gr, inflight, e)
  BY <1>1, <1>2, <1>5, TidySound
<1>7. Intact(w, disc, e)
  <2> SUFFICES ASSUME NEW f \in DOMAIN disk, ~Spare(f, e)
               PROVE  disk[f] \subseteq disc \/ \E g \in DOMAIN w : ~Spare(g, e) /\ w[g] = disk[f]
    BY DEF Intact
  <2>1. disk[f] \subseteq {} \/ \E g \in DOMAIN d : ~Spare(g, e) /\ d[g] = disk[f]
    BY DEF Intact
  <2> QED BY <1>2, <2>1
<1>8. Held(w, disc, e)
  BY <1>7 DEF Held, Intact
<1> QED BY <1>6, <1>7, <1>8 DEF Carried, w, gr

LEMMA CarriedQuarantine ==
  ASSUME NEW e, NEW d, NEW disc, Carried(d, disc, e), Intact(d, disc, e), NoneMerges,
         NEW bad, bad = {} \/ \E f : bad = {f}, bad \subseteq Segments(d)
  PROVE  /\ Carried(Quarantined(d, bad), disc, e)
         /\ \A f \in DOMAIN d \ bad : f \in DOMAIN Quarantined(d, bad) \/ f.kind = "corrupt"
<1> DEFINE q == Quarantined(d, bad)
           gr == group.file
<1>1. Good(d, proc, closed, e) /\ DiskTyped(d, closed) /\ Sound(d, proc, closed, gr, inflight, e)
  BY CarriedFacts
<1>2. /\ Tidies(d, proc, q, e)
      /\ \A f \in DOMAIN d : (\E g \in DOMAIN q : q[g] = d[f]) \/ (f.kind = "corrupt" /\ e.runs # 0)
      /\ \A f \in DOMAIN d \ bad : f \in DOMAIN q \/ f.kind = "corrupt"
  <2>1. (\A r \in Procs : proc[r].lock # "merge") /\ Good(d, proc, closed, e)
    BY <1>1 DEF NoneMerges
  <2> HIDE DEF q
  <2>2. Tidies(d, proc, Quarantined(d, bad), e)
    BY <2>1, QuarantineTidies
  <2>3. Survives(d, Quarantined(d, bad), e)
    BY <2>1, QuarantineTidies
  <2>4. \A f \in DOMAIN d \ bad : f \in DOMAIN Quarantined(d, bad) \/ f.kind = "corrupt"
    BY <2>1, QuarantineTidies
  <2> QED BY <2>2, <2>3, <2>4 DEF q, Survives
<1>3. DiskTyped(q, closed)
  BY <1>1, QuarantinedTyped DEF Segments
<1> HIDE DEF q, gr
<1>4. Sound(q, proc, closed, gr, inflight, e)
  BY <1>1, <1>2, <1>3, TidySound
<1>5. Held(q, disc, e)
  <2> SUFFICES ASSUME NEW f \in DOMAIN disk, ~Spare(f, e), ~(disk[f] \subseteq disc)
               PROVE  \E g \in DOMAIN q : q[g] = disk[f]
    BY DEF Held
  <2>1. PICK h \in DOMAIN d : ~Spare(h, e) /\ d[h] = disk[f]
    BY DEF Intact
  <2> QED BY <1>2, <2>1 DEF Spare
<1> QED BY <1>2, <1>4, <1>5 DEF Carried, q, gr

LEMMA CarriedPark ==
  ASSUME NEW e, NEW d, NEW disc, Carried(d, disc, e), NEW f \in DOMAIN d, f.kind = "dir",
         \A q \in Procs : proc[q].pc = "publish" => proc[q].job.dst # f
  PROVE  /\ Carried(Rename(d, f, Parked(f)), disc, e)
         /\ Intact(d, disc, e) => Intact(Rename(d, f, Parked(f)), disc, e)
         /\ \A g \in DOMAIN d \ {f} : g \in DOMAIN Rename(d, f, Parked(f))
<1> DEFINE q == Rename(d, f, Parked(f))
           gr == group.file
<1>1. Good(d, proc, closed, e) /\ DiskTyped(d, closed) /\ Sound(d, proc, closed, gr, inflight, e)
  BY CarriedFacts
<1>2. f \in Names /\ Parked(f) \in Names
  BY <1>1, DerivedNames DEF DiskTyped
<1>3. /\ Tidies(d, proc, q, e) /\ Parked(f).kind = "pending"
      /\ DOMAIN q = (DOMAIN d \ {f}) \cup {Parked(f)} /\ q[Parked(f)] = d[f]
      /\ \A g \in DOMAIN d \ {f} : q[g] = d[g]
  BY <1>1, ParkTidies
<1>4. DiskTyped(q, closed)
  BY <1>1, <1>2, RenameTyped
<1>5. ~Spare(Parked(f), e)
  BY <1>3 DEF Spare
<1> HIDE DEF q, gr
<1>6. Sound(q, proc, closed, gr, inflight, e)
  BY <1>1, <1>3, <1>4, TidySound
<1>7. \A h \in DOMAIN d : \E g \in DOMAIN q : q[g] = d[h] /\ (Spare(g, e) => Spare(h, e))
  BY <1>3, <1>5
<1>8. Held(q, disc, e)
  <2> SUFFICES ASSUME NEW h \in DOMAIN disk, ~Spare(h, e), ~(disk[h] \subseteq disc)
               PROVE  \E g \in DOMAIN q : q[g] = disk[h]
    BY DEF Held
  <2>1. PICK i \in DOMAIN d : d[i] = disk[h]
    BY DEF Carried, Held
  <2> QED BY <1>7, <2>1
<1>9. ASSUME Intact(d, disc, e) PROVE Intact(q, disc, e)
  <2> SUFFICES ASSUME NEW h \in DOMAIN disk, ~Spare(h, e), ~(disk[h] \subseteq disc)
               PROVE  \E g \in DOMAIN q : ~Spare(g, e) /\ q[g] = disk[h]
    BY DEF Intact
  <2>1. PICK i \in DOMAIN d : ~Spare(i, e) /\ d[i] = disk[h]
    BY <1>9 DEF Intact
  <2> QED BY <1>7, <2>1
<1> QED BY <1>3, <1>6, <1>8, <1>9 DEF Carried, q, gr

\* The three ways such a step ends: a merge starts, a goroutine goes on, or
\* nothing more happens.
LEMMA CarriedMerge ==
  ASSUME NEW e, e.runs = crashes, TypeInv', UNCHANGED <<closed, group, inflight>>,
         NEW d, NEW disc, Carried(d, disc, e),
         NEW p \in Procs, InMerge(p), NoneMerges, Segments(d) # {},
         NEW more, more = {} \/ (p # Scan /\ more = {Raw(p)} /\ Raw(p) \in DOMAIN d),
         NEW del, Range(del) = Segments(d) \cup more,
         NEW then \in {"egress", "done", "orphan"}, p = Scan => then # "egress",
         MergeVideos(p, d, more, del, then)
  PROVE  Orderly(e)' /\ Held(disk', disc, e)
<1>1. Sound(d, proc, closed, group.file, inflight, e)
  BY DEF Carried
<1>2. /\ Sound(disk', proc', closed, group.file, inflight, e)
      /\ \A f \in DOMAIN d : f \in DOMAIN disk' /\ disk'[f] = d[f]
  BY <1>1, MergeStarts
<1>3. Held(disk', disc, e)
  <2> DEFINE d2 == disk'
  <2>1. \A f \in DOMAIN d : f \in DOMAIN d2 /\ d2[f] = d[f]
    BY <1>2
  <2> HIDE DEF d2
  <2>2. Held(d2, disc, e)
    BY <2>1 DEF Carried, Held
  <2> QED BY <2>2 DEF d2
<1> QED BY <1>2, <1>3 DEF Orderly

\* A goroutine goes on.
LEMMA CarriedOn ==
  ASSUME NEW e, TypeInv', UNCHANGED <<closed, group, inflight>>, NEW disc, Carried(disk', disc, e),
         NEW p \in Procs, InMerge(p), NEW u, proc' = [proc EXCEPT ![p] = u],
         Moves(disk', proc, closed, p, u, e), u.lock = "none" \/ (NoneMerges /\ u.lock = "merge"),
         p = Scan => ~OnFile(u, group.file)
  PROVE  Orderly(e)' /\ Held(disk', disc, e)
<1> DEFINE d2 == disk'
           pr2 == proc'
           gr == group.file
<1>1. /\ Sound(d2, proc, closed, gr, inflight, e) /\ pr2 = [proc EXCEPT ![p] = u]
      /\ Moves(d2, proc, closed, p, u, e)
      /\ p = Scan /\ OnFile(u, gr) => OnFile(proc[Scan], gr)
  BY CarriedFacts
<1>2. ProcTyped(pr2)
  BY DEF TypeInv
<1>3. u.lock = "none" \/ \A q \in Procs \ {p} : proc[q].lock # u.lock
  BY DEF NoneMerges
<1>4. proc[p].pc # "flush"
  BY DEF InMerge
<1> HIDE DEF d2, pr2, gr
<1>5. Sound(d2, pr2, closed, gr, inflight, e)
  BY <1>1, <1>2, <1>3, <1>4, MoveSound
<1> QED BY <1>5 DEF d2, pr2, gr, Orderly, Carried

LEMMA CarriedStay ==
  ASSUME NEW e, UNCHANGED <<closed, group, inflight, proc>>, NEW disc, Carried(disk', disc, e)
  PROVE  Orderly(e)' /\ Held(disk', disc, e)
BY DEF Carried, Orderly

\* What is neither spare nor discarded is on disk.
LEMMA CarriedKeeps ==
  ASSUME NEW e, NEW disc, Held(disk', disc, e), disc \subseteq discarded',
         UNCHANGED sent, discarded \subseteq discarded'
  PROVE  KeepsBut(e)
<1> DEFINE d2 == disk'
           after == Footage(disk', sent', discarded')
<1>1. discarded' \subseteq after /\ (UNION sent) \subseteq after
  BY DEF Footage
<1>2. \A g \in DOMAIN d2 : d2[g] \subseteq after
  BY DEF Footage
<1>3. \A f \in DOMAIN disk : Spare(f, e) \/ disk[f] \subseteq disc \/ \E g \in DOMAIN d2 : d2[g] = disk[f]
  BY DEF Held
<1> HIDE DEF d2, after
<1>4. (UNION sent) \cup discarded \subseteq after /\ \A f \in DOMAIN disk : disk[f] \subseteq after \/ Spare(f, e)
  BY <1>1, <1>2, <1>3
<1> QED BY <1>4 DEF KeepsBut, after

\* A lone segment is uploaded under the merge lock.
LEMMA LoneMoves ==
  ASSUME NEW e, NEW disc, Carried(disk', disc, e), NEW p \in Procs, InMerge(p), Shape(closed, p, proc[p]),
         NEW f \in Segments(disk')
  PROVE  LET u == At("orphan", f, "merge", NoJob) IN
         Moves(disk', proc, closed, p, u, e) /\ u.lock = "merge" /\ u.file = f
<1> DEFINE u == At("orphan", f, "merge", NoJob)
           d2 == disk'
<1>1. u.pc = "orphan" /\ u.lock = "merge" /\ u.file = f
  BY AtIs
<1> HIDE DEF u
<1>2. f \in DOMAIN d2 /\ f.kind \in SegKinds /\ FilesOK(d2, proc, closed, e) /\ Good(d2, proc, closed, e)
  BY CarriedFacts DEF Segments, SegKinds
<1> HIDE DEF d2
<1>3. UploadOK(d2, proc, closed, p, u, e)
  BY <1>1, <1>2 DEF UploadOK, FilesOK, SegKinds, ParkKinds
<1>4. Shape(closed, p, u)
  BY <1>1 DEF Shape, InMerge
<1>5. ASSUME NEW s \in Procs, InSession(proc[s]) PROVE proc[s].job.dst # f
  <2>1. SessionOK(d2, proc, closed, s, proc[s], e) /\ closed \in 0..N
    BY <1>2 DEF Good
  <2>2. PICK r \in 1..closed : proc[s].job.dst = Half(r)
    BY <1>5, <2>1 DEF SessionOK
  <2> QED BY <1>2, <2>1, <2>2, Numbers DEF SegKinds
<1>6. Moves(d2, proc, closed, p, u, e)
  BY <1>1, <1>3, <1>4, <1>5 DEF Moves, InMerge
<1> QED BY <1>1, <1>6 DEF u, d2

\* The inputs of the merges, whatever their order.
LEMMA MergedInputs ==
  ASSUME NEW d, DiskTyped(d, closed), NEW f
  PROVE  /\ Range(InOrder(Segments(d))) = Segments(d) \cup {}
         /\ Range(InOrder(Segments(d)) \o <<f>>) = Segments(d) \cup {f}
         /\ Range(<<f>> \o InOrder(Segments(d))) = Segments(d) \cup {f}
<1> DEFINE s == InOrder(Segments(d))
           segs == Segments(d)
<1>1. s \in Seq(Names) /\ Range(s) = segs
  BY MergeNames
<1> HIDE DEF s, segs
<1> QED BY <1>1, RangeAppend DEF s, segs

\* What post-processing knows of its own file under the merge lock.
LEMMA InMerging ==
  ASSUME NEW e, Orderly(e), NEW p \in Recs, proc[p].pc = "mindur", Free(p, "merge")
  PROVE  /\ p \in Procs /\ p # Scan /\ InMerge(p) /\ NoneMerges
         /\ proc[p].file = Raw(p) /\ Raw(p).kind = "dir"
         /\ \A q \in Procs : proc[q].pc = "publish" => proc[q].job.dst # Raw(p)
<1>1. p \in Procs /\ p # Scan /\ p \in Int
  BY AtWork
<1>2. InMerge(p)
  BY <1>1 DEF InMerge
<1>3. proc[p].file = Raw(p)
  BY <1>1, Now DEF Named
<1> QED BY <1>1, <1>2, <1>3, MergeFree, OwnNames, OwnNotPublished

LEMMA CarriedFinish ==
  ASSUME NEW e, Orderly(e), TypeInv', UNCHANGED <<closed, group, inflight>>, NEW disc, Carried(disk', disc, e),
         NEW p \in Recs, proc[p].pc = "mindur", Finish(p)
  PROVE  Orderly(e)' /\ Held(disk', disc, e)
<1> DEFINE u == At("done", NoFile, "none", NoJob)
<1>1. p \in Procs /\ p # Scan
  BY AtWork
<1>2. InMerge(p)
  BY <1>1 DEF InMerge
<1>3. /\ proc' = [proc EXCEPT ![p] = u] /\ Moves(disk', proc, closed, p, u, e) /\ u.lock = "none"
  BY <1>1, <1>2, Finished DEF InMerge
<1> HIDE DEF u
<1>4. /\ u.lock = "none" \/ (NoneMerges /\ u.lock = "merge")
      /\ p = Scan => ~OnFile(u, group.file)
  BY <1>1, <1>3
<1> QED BY <1>1, <1>2, <1>3, <1>4, CarriedOn

\* A long file takes the parked segments along or goes alone.
LEMMA MinDurationLongKeeps ==
  ASSUME NEW e, e.runs = crashes, Orderly(e), TypeInv', NEW p \in Recs, MinDurationLong(p)
  PROVE  Orderly(e)' /\ KeepsBut(e)
<1> DEFINE f == Raw(p)
<1>1. /\ proc[p].pc = "mindur" /\ Free(p, "merge") /\ proc[p].file \in DOMAIN disk
      /\ UNCHANGED <<closed, group, inflight, sent, discarded>>
  BY DEF MinDurationLong, Exists, source
<1>2. /\ p \in Procs /\ p # Scan /\ InMerge(p) /\ NoneMerges
      /\ proc[p].file = f /\ f.kind = "dir"
      /\ \A q \in Procs : proc[q].pc = "publish" => proc[q].job.dst # f
  BY <1>1, InMerging
<1>3. PICK bad \in Suspects :
         LET d == Quarantined(disk, bad)
             segs == Segments(d)
         IN
         \/ disk' = d /\ Goto(p, "egress", f, "none")
         \/ segs # {} /\ MergeVideos(p, d, {f}, InOrder(segs) \o <<f>>, "egress")
         \/ disk' = Rename(d, f, Parked(f)) /\ Finish(p)
         \/ segs # {} /\ MergeVideos(p, d, {f}, <<f>> \o InOrder(segs), "done")
  BY <1>2 DEF MinDurationLong
<1> DEFINE d == Quarantined(disk, bad)
<1>4. bad \subseteq Segments(disk) /\ (bad = {} \/ \E g : bad = {g}) /\ f \notin bad
  BY <1>2 DEF Suspects, Segments
<1>5. Carried(d, {}, e) /\ f \in DOMAIN d
  BY <1>1, <1>2, <1>4, CarriedHere, CarriedQuarantine
<1>6. DiskTyped(d, closed)
  BY <1>5, CarriedFacts
<1>7. \/ disk' = d /\ Goto(p, "egress", f, "none")
      \/ Segments(d) # {} /\ MergeVideos(p, d, {f}, InOrder(Segments(d)) \o <<f>>, "egress")
      \/ disk' = Rename(d, f, Parked(f)) /\ Finish(p)
      \/ Segments(d) # {} /\ MergeVideos(p, d, {f}, <<f>> \o InOrder(Segments(d)), "done")
  BY <1>3
<1> HIDE DEF d, f
<1> DEFINE Kept == Orderly(e)' /\ Held(disk', {}, e)
<1>8. ASSUME disk' = d, Goto(p, "egress", f, "none") PROVE Kept
  <2> DEFINE u == At("egress", f, "none", NoJob)
  <2>1. proc' = [proc EXCEPT ![p] = u]
    BY <1>8 DEF Goto, Step
  <2>2. Moves(disk', proc, closed, p, u, e)
    BY <1>1, <1>2, MovesOn DEF f
  <2>3. u.lock = "none"
    BY AtIs
  <2> HIDE DEF u
  <2>4. Carried(disk', {}, e)
    BY <1>5, <1>8
  <2>5. /\ u.lock = "none" \/ (NoneMerges /\ u.lock = "merge")
        /\ p = Scan => ~OnFile(u, group.file)
    BY <1>2, <2>3
  <2> QED BY <1>1, <1>2, <2>1, <2>2, <2>4, <2>5, CarriedOn
<1>9. ASSUME NEW del, Range(del) = Segments(d) \cup {f}, NEW then \in {"egress", "done"},
             Segments(d) # {}, MergeVideos(p, d, {f}, del, then)
      PROVE  Kept
  <2> DEFINE more == {f}
  <2>1. more = {Raw(p)} /\ Raw(p) \in DOMAIN d /\ Range(del) = Segments(d) \cup more
        /\ MergeVideos(p, d, more, del, then)
    BY <1>5, <1>9 DEF f
  <2> HIDE DEF more
  <2>2. /\ Carried(d, {}, e) /\ p \in Procs /\ InMerge(p) /\ NoneMerges /\ Segments(d) # {}
        /\ UNCHANGED <<closed, group, inflight>>
        /\ more = {} \/ (p # Scan /\ more = {Raw(p)} /\ Raw(p) \in DOMAIN d)
        /\ then \in {"egress", "done", "orphan"} /\ (p = Scan => then # "egress")
    BY <1>1, <1>2, <1>5, <1>9, <2>1
  <2> QED BY <2>1, <2>2, CarriedMerge
<1>10. ASSUME disk' = Rename(d, f, Parked(f)), Finish(p) PROVE Kept
  <2>1. Carried(disk', {}, e)
    BY <1>2, <1>5, <1>10, CarriedPark
  <2> QED BY <1>1, <1>10, <2>1, CarriedFinish
<1>11. Kept
  BY <1>6, <1>7, <1>8, <1>9, <1>10, MergedInputs
<1>12. discarded \subseteq discarded'
  BY <1>1
<1>13. KeepsBut(e)
  <2> DEFINE disc == {}
  <2>1. Held(disk', disc, e) /\ disc \subseteq discarded'
    BY <1>11
  <2> HIDE DEF disc
  <2> QED BY <1>1, <1>12, <2>1, CarriedKeeps
<1> QED BY <1>11, <1>13

\* A short one is parked, and the segments merged or one of them uploaded.
LEMMA MinDurationShortKeeps ==
  ASSUME NEW e, e.runs = crashes, Orderly(e), TypeInv', NEW p \in Recs, MinDurationShort(p)
  PROVE  Orderly(e)' /\ KeepsBut(e)
<1> DEFINE f == Raw(p)
           parked == Rename(disk, f, Parked(f))
<1>1. /\ proc[p].pc = "mindur" /\ Free(p, "merge") /\ proc[p].file \in DOMAIN disk
      /\ UNCHANGED <<closed, group, inflight, sent, discarded>>
  BY DEF MinDurationShort, Exists, source
<1>2. /\ p \in Procs /\ p # Scan /\ InMerge(p) /\ NoneMerges
      /\ proc[p].file = f /\ f.kind = "dir"
      /\ \A q \in Procs : proc[q].pc = "publish" => proc[q].job.dst # f
  BY <1>1, InMerging
<1>3. PICK bad \in Suspects :
         LET d == Quarantined(parked, bad)
             segs == Segments(d)
             total == UNION {d[g] : g \in segs}
         IN
         \/ /\ Cardinality(segs) > 1
            /\ MergeVideos(p, d, {}, InOrder(segs),
                 IF Long(total) \/ IsDefinitiveStop(reason[p]) THEN "egress" ELSE "done")
         \/ disk' = d /\ Finish(p)
         \/ Cardinality(segs) > 1 /\ MergeVideos(p, d, {}, InOrder(segs), "done")
         \/ disk' = d /\ segs # {} /\ Goto(p, "orphan", CHOOSE g \in segs : TRUE, "merge")
  BY <1>2 DEF MinDurationShort
<1> DEFINE d == Quarantined(parked, bad)
           segs == Segments(d)
           lone == CHOOSE g \in segs : TRUE
<1>4. /\ \/ \E then \in {"egress", "done"} :
               Cardinality(segs) > 1 /\ MergeVideos(p, d, {}, InOrder(segs), then)
         \/ disk' = d /\ Finish(p)
         \/ disk' = d /\ segs # {} /\ Goto(p, "orphan", lone, "merge")
  BY <1>3
<1>5. bad \subseteq Segments(disk) /\ (bad = {} \/ \E g : bad = {g}) /\ f \notin bad
  BY <1>2 DEF Suspects, Segments
<1>6. Carried(parked, {}, e) /\ Intact(parked, {}, e) /\ \A g \in DOMAIN disk \ {f} : g \in DOMAIN parked
  BY <1>1, <1>2, CarriedHere, CarriedPark
<1> HIDE DEF parked, f
<1>7. bad \subseteq Segments(parked)
  BY <1>5, <1>6 DEF Segments
<1>8. Carried(d, {}, e)
  BY <1>2, <1>5, <1>6, <1>7, CarriedQuarantine
<1>9. DiskTyped(d, closed)
  BY <1>8, CarriedFacts
<1>10. Cardinality(segs) > 1 => segs # {}
  BY FS_EmptySet
<1> HIDE DEF d
<1> DEFINE Kept == Orderly(e)' /\ Held(disk', {}, e)
<1>11. ASSUME NEW then \in {"egress", "done"}, Cardinality(segs) > 1,
              MergeVideos(p, d, {}, InOrder(segs), then)
       PROVE  Kept
  <2> DEFINE more == {}
             del == InOrder(segs)
  <2>1. more = {} /\ Range(del) = Segments(d) \cup more /\ MergeVideos(p, d, more, del, then)
    BY <1>9, <1>11, MergedInputs
  <2> HIDE DEF more, del
  <2> QED BY <1>1, <1>2, <1>8, <1>10, <1>11, <2>1, CarriedMerge
<1>12. ASSUME disk' = d, Finish(p) PROVE Kept
  BY <1>1, <1>8, <1>12, CarriedFinish
<1>13. ASSUME disk' = d, segs # {}, Goto(p, "orphan", lone, "merge") PROVE Kept
  <2> DEFINE u == At("orphan", lone, "merge", NoJob)
  <2>1. proc' = [proc EXCEPT ![p] = u]
    BY <1>13 DEF Goto, Step
  <2>2. lone \in Segments(disk') /\ Carried(disk', {}, e)
    BY <1>8, <1>13
  <2>3. Shape(closed, p, proc[p])
    BY <1>2, Now
  <2> HIDE DEF lone
  <2>4. Moves(disk', proc, closed, p, u, e) /\ u.lock = "merge"
    BY <1>2, <2>2, <2>3, LoneMoves
  <2> HIDE DEF u
  <2> QED BY <1>1, <1>2, <2>1, <2>2, <2>4, CarriedOn
<1>14. Kept
  BY <1>4, <1>11, <1>12, <1>13
<1>15. discarded \subseteq discarded'
  BY <1>1
<1>16. KeepsBut(e)
  <2> DEFINE disc == {}
  <2>1. Held(disk', disc, e) /\ disc \subseteq discarded'
    BY <1>14
  <2> HIDE DEF disc
  <2> QED BY <1>1, <1>15, <2>1, CarriedKeeps
<1> QED BY <1>14, <1>16

\* The scan of .pending discards what is aged and loses no more than scratch.
LEMMA ScanPendingKeeps ==
  ASSUME NEW e, e.runs = crashes, Orderly(e), TypeInv', NEW force \in BOOLEAN, ScanPending(force)
  PROVE  Orderly(e)' /\ KeepsBut(e)
<1>1. /\ proc[Scan].pc \in {"idle", "done"} /\ Free(Scan, "merge")
      /\ UNCHANGED <<closed, group, inflight, sent>>
  BY DEF ScanPending, ScanIdle, source
<1>2. Scan \in Procs /\ InMerge(Scan)
  BY <1>1, SizesTyped DEF InMerge
<1>3. NoneMerges
  BY <1>1, <1>2, MergeFree
<1> DEFINE recovered == RecoverMergeScratch(disk)
<1>5. PICK bad \in Suspects, aged \in Suspects :
         LET d == Quarantined(Without(recovered, aged), bad)
             segs == Segments(d)
             lone == CHOOSE g \in segs : TRUE
             goes == force \/ Long(UNION {d[g] : g \in segs})
         IN
         /\ aged \subseteq IF force THEN {} ELSE Segments(recovered)
         /\ bad \subseteq Segments(recovered) \ aged
         /\ discarded' = discarded \cup UNION {recovered[f] : f \in aged}
         /\ \/ /\ segs = {} /\ Checked(bad) /\ disk' = d /\ UNCHANGED proc
            \/ /\ Cardinality(segs) = 1 /\ Checked(bad) /\ disk' = d
               /\ IF goes /\ lone \notin inflight
                  THEN Goto(Scan, "orphan", lone, "merge") ELSE UNCHANGED proc
            \/ /\ Cardinality(segs) > 1 /\ Checked(bad)
               /\ MergeVideos(Scan, d, {}, InOrder(segs), IF goes THEN "orphan" ELSE "done")
            \/ /\ Cardinality(segs) > 1 /\ bad = {} /\ Fails("merge")
               /\ disk' = d /\ UNCHANGED proc
            \/ /\ Cardinality(segs) > 1 /\ bad = {} /\ Fails("probe")
               /\ MergeVideos(Scan, d, {}, InOrder(segs), "done")
  BY DEF ScanPending
<1> DEFINE w == Without(recovered, aged)
           d == Quarantined(w, bad)
           segs == Segments(d)
           lone == CHOOSE g \in segs : TRUE
<1>6. /\ aged \subseteq Segments(recovered) /\ bad \subseteq Segments(recovered) \ aged
      /\ discarded' = discarded \cup UNION {recovered[f] : f \in aged}
      /\ \/ \E then \in {"orphan", "done"} :
               Cardinality(segs) > 1 /\ MergeVideos(Scan, d, {}, InOrder(segs), then)
         \/ disk' = d /\ UNCHANGED proc
         \/ disk' = d /\ Cardinality(segs) = 1 /\ Goto(Scan, "orphan", lone, "merge")
  BY <1>5
<1> DEFINE disc == UNION {recovered[f] : f \in aged}
<1>4. Carried(recovered, {}, e) /\ Intact(recovered, {}, e)
  BY <1>3, CarriedRecover
<1> HIDE DEF recovered
<1>7. (aged = {} \/ \E f : aged = {f}) /\ (bad = {} \/ \E f : bad = {f})
  BY SuspectsAre
<1>a. (\A f \in aged : recovered[f] \subseteq disc) /\ disc \subseteq discarded' /\ discarded \subseteq discarded'
  BY <1>6
<1> HIDE DEF disc
<1>8. Carried(w, disc, e) /\ Intact(w, disc, e)
  BY <1>4, <1>6, <1>7, <1>a, CarriedWithout
<1>9. bad \subseteq Segments(w)
  BY <1>6 DEF Segments, Without, Restrict
<1> HIDE DEF w
<1>10. Carried(d, disc, e)
  BY <1>3, <1>7, <1>8, <1>9, CarriedQuarantine
<1>11. DiskTyped(d, closed)
  BY <1>10, CarriedFacts
<1>12. (Cardinality(segs) > 1 => segs # {}) /\ (Cardinality(segs) = 1 => segs # {})
  BY FS_EmptySet
<1> HIDE DEF d
<1> DEFINE Kept == Orderly(e)' /\ Held(disk', disc, e)
<1>13. ASSUME NEW then \in {"orphan", "done"}, Cardinality(segs) > 1,
              MergeVideos(Scan, d, {}, InOrder(segs), then)
       PROVE  Kept
  <2> DEFINE more == {}
             del == InOrder(segs)
  <2>1. more = {} /\ Range(del) = Segments(d) \cup more /\ MergeVideos(Scan, d, more, del, then)
    BY <1>11, <1>13, MergedInputs
  <2> HIDE DEF more, del
  <2> QED BY <1>1, <1>2, <1>3, <1>10, <1>12, <1>13, <2>1, CarriedMerge
<1>14. ASSUME disk' = d, UNCHANGED proc PROVE Kept
  BY <1>1, <1>10, <1>14, CarriedStay
<1>15. ASSUME disk' = d, Cardinality(segs) = 1, Goto(Scan, "orphan", lone, "merge") PROVE Kept
  <2> DEFINE u == At("orphan", lone, "merge", NoJob)
  <2>1. proc' = [proc EXCEPT ![Scan] = u]
    BY <1>15 DEF Goto, Step
  <2>2. lone \in Segments(disk') /\ Carried(disk', disc, e)
    BY <1>10, <1>12, <1>15
  <2>3. Shape(closed, Scan, proc[Scan])
    BY <1>2, Now
  <2>4. lone.kind \in SegKinds
    BY <2>2 DEF Segments, SegKinds
  <2> HIDE DEF lone
  <2>5. Moves(disk', proc, closed, Scan, u, e) /\ u.lock = "merge" /\ u.file = lone
    BY <1>2, <2>2, <2>3, LoneMoves
  <2> HIDE DEF u
  <2>6. ~OnFile(u, group.file)
    BY <2>4, <2>5, HeldFile, FileIs DEF OnFile, SegKinds, NoFile
  <2> QED BY <1>1, <1>2, <1>3, <2>1, <2>2, <2>5, <2>6, CarriedOn
<1>16. Kept
  BY <1>6, <1>13, <1>14, <1>15
<1>17. KeepsBut(e)
  BY <1>1, <1>16, <1>a, CarriedKeeps
<1> QED BY <1>16, <1>17

-----------------------------------------------------------------------------
(* The inductive invariant.                                                   *)

\* While no rename fails and nothing is re-encoded the files are in the order of
\* some epoch, whatever crashed; without a crash all the footage is there too.
Epochs == [old : 0..N, runs : 0..MaxCrashes]
Tracked == ~renameFailed /\ ~compress
Ordered == \E e \in Epochs : e.runs = crashes /\ Orderly(e)
Covered == 1..closed \subseteq Footage(disk, sent, discarded)
IInv == TypeInv /\ (Tracked => Ordered) /\ (Calm => Covered)

\* The steps a run cannot take while nothing is re-encoded.
LEMMA NothingCompresses ==
  ASSUME NEW e, Orderly(e), Tracked, NEW p \in Recs, CompressFile(p) \/ Compressed(p) \/ CompressFails(p)
  PROVE  FALSE
<1>1. p \in Procs
  BY SizesTyped
<1>2. proc[p].pc # "compress" /\ ~compress
  BY <1>1, Now DEF Shape, Tracked
<1> QED BY <1>2 DEF CompressFile, Compressed, CompressFails

\* The scan deletes no finalizer scratch but what a run that ended has left.
LEMMA RemoveStaleScratchKeeps ==
  ASSUME NEW e, Orderly(e), TypeInv', NEW f \in DOMAIN disk, RemoveStaleScratch(f)
  PROVE  Orderly(e)' /\ KeepsBut(e)
<1>1. /\ f.kind = "finalizing" /\ proc[Scan].pc # "publish" /\ \A r \in Recs : f # proc[r].job.tmp
      /\ disk' = Without(disk, {f}) /\ UNCHANGED <<closed, proc, group, inflight, sent, discarded>>
  BY DEF RemoveStaleScratch, ScanIdle, source
<1>2. Good(disk, proc, closed, e) /\ Sound(disk, proc, closed, group.file, inflight, e)
  BY DEF Orderly, Sound
<1>3. ~Owned(proc, f)
  BY <1>1, SizesTyped DEF Owned
<1>4. Spare(f, e)
  BY <1>1, <1>2, <1>3, LeftOverIs DEF Spare, TmpKinds
<1> DEFINE d2 == disk'
           gr == group.file
<1>5. d2 = Without(disk, {f}) /\ DiskTyped(d2, closed)
  BY <1>1 DEF TypeInv
<1>6. Sound(disk, proc, closed, gr, inflight, e)
  BY <1>2
<1> HIDE DEF d2, gr
<1>7. Tidies(disk, proc, d2, e) /\ \A g \in DOMAIN disk \ {f} : g \in DOMAIN d2 /\ d2[g] = disk[g]
  <2>1. Tidies(disk, proc, Without(disk, {f}), e)
    BY <1>2, <1>3, RemoveTidies
  <2> QED BY <1>5, <2>1 DEF Without, Restrict
<1>8. Sound(d2, proc, closed, gr, inflight, e)
  BY <1>5, <1>6, <1>7, TidySound
<1>9. Held(d2, {}, e)
  BY <1>4, <1>7 DEF Held
<1>10. Orderly(e)'
  BY <1>1, <1>8 DEF Orderly, d2, gr
<1>11. KeepsBut(e)
  <2> DEFINE disc == {}
  <2>1. Held(disk', disc, e) /\ disc \subseteq discarded' /\ discarded \subseteq discarded'
    BY <1>1, <1>9 DEF d2
  <2> HIDE DEF disc
  <2> QED BY <1>1, <2>1, CarriedKeeps
<1> QED BY <1>10, <1>11

\* Whoever loses nothing loses no more than what is spare.
LEMMA KeepsAll ==
  ASSUME NEW e, Keeps
  PROVE  KeepsBut(e)
BY DEF Keeps, KeepsBut, Footage

\* What a step loses it gives up with the spare files it deletes or replaces.
LEMMA OnlySpareLost ==
  ASSUME NEW e, KeepsBut(e), 1..closed' \subseteq 1..closed \cup Footage(disk', sent', discarded')
  PROVE  Lost' \ Lost \subseteq UNION {disk[f] : f \in GivenUp}
<1> DEFINE after == Footage(disk', sent', discarded')
<1> SUFFICES ASSUME NEW r \in Lost' \ Lost PROVE \E f \in GivenUp : r \in disk[f]
  OBVIOUS
<1>1. r \in 1..closed' /\ r \notin after /\ r \notin Lost
  BY DEF Lost, OnDisk, Footage
<1>2. \A f \in DOMAIN disk : f \in DOMAIN disk' /\ disk'[f] = disk[f] => disk[f] \subseteq after
  BY DEF Footage
<1>3. r \in 1..closed
  BY <1>1
<1>4. r \in Footage(disk, sent, discarded)
  BY <1>1, <1>3 DEF Lost, OnDisk, Footage
<1>5. /\ (UNION sent) \cup discarded \subseteq after
      /\ \A f \in DOMAIN disk : disk[f] \subseteq after \/ Spare(f, e)
  BY DEF KeepsBut
<1> HIDE DEF after
<1>6. PICK f \in DOMAIN disk : r \in disk[f]
  BY <1>1, <1>4, <1>5 DEF Footage
<1>7. Spare(f, e) /\ ~(f \in DOMAIN disk' /\ disk'[f] = disk[f])
  BY <1>1, <1>2, <1>5, <1>6
<1> QED BY <1>6, <1>7 DEF GivenUp, Spare

\* Everything but Record, a failed rename and a crash leaves this alone.
Same == UNCHANGED <<closed, crashes, renameFailed, compress>>

\* None of these steps records, crashes or fails a rename.
LEMMA PostProcessSame ==
  ASSUME NEW r \in Recs, PostProcess(r)
  PROVE  Same
<1>1. CASE ProcessPendingFile(r) \/ FinalizeRecording(r) \/ HoldFirst(r) \/ ReleaseHeld(r)
  BY <1>1 DEF ProcessPendingFile, FinalizeRecording, HoldFirst, ReleaseHeld, Same, source, settings
<1>2. CASE FlushSessionEntry(r) \/ MergeTwoFiles(r) \/ Regroup(r) \/ DeliverSession(r) \/ Vanished(r)
  BY <1>2 DEF FlushSessionEntry, MergeTwoFiles, Regroup, DeliverSession, Vanished, Same, source, settings
<1>3. CASE MinDurationLong(r) \/ MinDurationUnread(r) \/ MinDurationShort(r)
  BY <1>3 DEF MinDurationLong, MinDurationUnread, MinDurationShort, Same, source, settings
<1>4. CASE MoveToOutputDir(r) \/ CompressFile(r) \/ Compressed(r) \/ CompressFails(r)
  BY <1>4 DEF MoveToOutputDir, CompressFile, Compressed, CompressFails, Same, source, settings
<1> QED BY <1>1, <1>2, <1>3, <1>4 DEF PostProcess

LEMMA WorkSame ==
  ASSUME NEW p \in Procs, DeleteInput(p) \/ PublishOutput(p) \/ BeginUpload(p) \/ EndUpload(p)
  PROVE  Same
BY DEF DeleteInput, PublishOutput, BeginUpload, EndUpload, Same, source, settings

LEMMA OtherSame ==
  ASSUME OrphanScan \/ ScanPending(TRUE) \/ StartBatch \/ UNCHANGED vars
  PROVE  Same
BY DEF OrphanScan, ScanMain, RemoveStaleScratch, ScanPending, StartBatch, Same, source, settings, vars

LEMMA RecordSame ==
  ASSUME NEW why, NEW d, CloseFile(why, d)
  PROVE  UNCHANGED <<crashes, renameFailed, compress>>
BY DEF CloseFile, settings

\* A run that is tracked after a step was so before it.
LEMMA SettingsStay ==
  ASSUME [Next]_vars
  PROVE  compress' = compress /\ (renameFailed => renameFailed')
<1> SUFFICES compress' = compress /\ (renameFailed' = renameFailed \/ renameFailed' = TRUE)
  OBVIOUS
<1>1. CASE Record
  BY <1>1, RecordSame DEF Record
<1>2. CASE FlushPending \/ ProcessPending \/ OrphanScan \/ ScanPending(TRUE) \/ UNCHANGED vars
  BY <1>2, OtherSame DEF FlushPending, ProcessPending, Same
<1>3. CASE Crash
  BY <1>3 DEF Crash
<1>4. ASSUME NEW r \in Recs, PostProcess(r) PROVE UNCHANGED compress /\ UNCHANGED renameFailed
  BY <1>4, PostProcessSame DEF Same
<1>5. ASSUME NEW p \in Procs, Work(p) PROVE UNCHANGED compress /\ (UNCHANGED renameFailed \/ renameFailed' = TRUE)
  <2>1. CASE RenameFails(p)
    BY <2>1 DEF RenameFails, settings
  <2> QED BY <1>5, <2>1, WorkSame DEF Work, Same
<1> QED BY <1>1, <1>2, <1>3, <1>4, <1>5 DEF Next

\* Every step of post-processing keeps the order and the footage.
LEMMA PostProcessKeeps ==
  ASSUME NEW e, e.runs = crashes, Orderly(e), Tracked, TypeInv', NEW r \in Recs, PostProcess(r)
  PROVE  Orderly(e)' /\ KeepsBut(e)
<1>1. CASE ProcessPendingFile(r) \/ FinalizeRecording(r) \/ HoldFirst(r) \/ ReleaseHeld(r)
  BY <1>1, ProcessPendingFileKeeps, FinalizeRecordingKeeps, HoldFirstKeeps, ReleaseHeldKeeps, KeepsAll
<1>2. CASE FlushSessionEntry(r) \/ MergeTwoFiles(r) \/ Regroup(r) \/ DeliverSession(r) \/ Vanished(r)
  BY <1>2, FlushSessionEntryKeeps, MergeTwoFilesKeeps, RegroupKeeps, DeliverSessionKeeps, VanishedKeeps,
     KeepsAll
<1>3. CASE MinDurationLong(r) \/ MinDurationShort(r)
  BY <1>3, MinDurationLongKeeps, MinDurationShortKeeps
<1>4. CASE MinDurationUnread(r) \/ MoveToOutputDir(r)
  BY <1>4, MinDurationUnreadKeeps, MoveToOutputDirKeeps, KeepsAll
<1> QED BY <1>1, <1>2, <1>3, <1>4, NothingCompresses DEF PostProcess

\* The initial state is orderly.
LEMMA InitOrderly == Init => Ordered /\ Covered
<1> SUFFICES ASSUME Init PROVE Ordered /\ Covered
  OBVIOUS
<1> DEFINE d0 == [f \in {} |-> {}]
           pr0 == [p \in Procs |-> Idle]
           e == [old |-> 0, runs |-> 0]
<1>1. /\ disk = d0 /\ DOMAIN d0 = {} /\ closed = 0 /\ group = NoGroup /\ proc = pr0 /\ crashes = 0
  BY DEF Init
<1>2. DiskTyped(disk, closed) /\ ProcTyped(proc)
  BY InitTyped DEF TypeInv
<1>3. \A p \in Procs : proc[p].pc = "idle" /\ proc[p].lock = "none"
  BY <1>1, AtIs DEF Idle
<1>4. e.old = 0 /\ e.runs = 0 /\ e \in Epochs
  BY SizesTyped DEF Epochs
<1> HIDE DEF d0, pr0, e
<1>5. DOMAIN disk = {} /\ closed = 0 /\ group.file = NoFile
  BY <1>1 DEF NoGroup
<1>6. 0 \in 0..N /\ 1..0 = {} /\ 0 \in 0..0 /\ 0 \in 0..MaxCrashes /\ \A p \in Procs : p # Scan => p > 0
  BY SizesTyped
<1>7. FilesOK(disk, proc, closed, e) /\ Exclusive(proc) /\ EpochOK(proc, closed, e)
  BY <1>3, <1>4, <1>5, <1>6 DEF FilesOK, Exclusive, EpochOK
<1>8. ASSUME NEW p \in Procs
      PROVE  /\ Shape(closed, p, proc[p]) /\ PublishOK(disk, proc, closed, p, proc[p], e)
             /\ SessionOK(disk, proc, closed, p, proc[p], e) /\ UploadOK(disk, proc, closed, p, proc[p], e)
  BY <1>3, <1>5, <1>6 DEF Shape, PublishOK, SessionOK, InSession, UploadOK
<1>9. Good(disk, proc, closed, e)
  BY <1>2, <1>5, <1>6, <1>7, <1>8 DEF Good
<1>10. GroupOK(disk, proc, closed, group.file, inflight, e)
  BY <1>5 DEF GroupOK
<1> QED BY <1>1, <1>4, <1>5, <1>6, <1>9, <1>10 DEF Orderly, Sound, Ordered, Covered

\* A run ends: every goroutine is gone, and what it had in its scratch is left.
LEMMA CrashKeeps ==
  ASSUME NEW e, e.runs = crashes, Orderly(e), TypeInv, TypeInv', Crash
  PROVE  Ordered' /\ Keeps
<1>0. PICK e2 : e2 = [old |-> closed, runs |-> crashes + 1]
  OBVIOUS
<1> DEFINE pr2 == proc'
<1>1. /\ crashes < MaxCrashes /\ crashes' = crashes + 1 /\ group' = NoGroup
      /\ proc' = [p \in Procs |-> IF p \in 1..closed THEN At("done", NoFile, "none", NoJob) ELSE Idle]
      /\ UNCHANGED <<closed, disk, sent, discarded>>
  BY DEF Crash, source
<1>2. /\ Good(disk, proc, closed, e) /\ FilesOK(disk, proc, closed, e) /\ EpochOK(proc, closed, e)
      /\ closed \in 0..N /\ closed <= closed /\ DiskTyped(disk, closed) /\ proc \in [Procs -> Goroutine]
  BY SizesTyped DEF Orderly, Sound, Good, ProcTyped
<1>3. /\ e2.old = closed /\ e2.runs = e.runs + 1 /\ e2.runs = crashes' /\ e2 \in Epochs
      /\ e2.runs \in 0..MaxCrashes /\ e2.runs # 0
      /\ closed \in 0..closed /\ e.runs \in Int /\ (\A x \in Int : x <= e.runs => x <= e.runs + 1)
  <2>1. crashes \in 0..MaxCrashes /\ MaxCrashes \in Nat
    BY SizesTyped DEF TypeInv
  <2>2. crashes + 1 \in 0..MaxCrashes /\ crashes + 1 # 0 /\ closed \in 0..closed
    BY <1>1, <1>2, <2>1, SizesTyped
  <2>3. \A x \in Int : x <= e.runs => x <= e.runs + 1
    BY <2>1
  <2> QED BY <1>0, <1>1, <1>2, <2>1, <2>2, <2>3 DEF Epochs
<1>4. \A r \in 1..e.old : r \in 1..closed
  BY <1>2, SizesTyped DEF EpochOK
<1>5. \A r \in 1..closed : r \in Int /\ r \in Procs /\ r # Scan
  BY <1>2, Numbers
<1>6. ASSUME NEW p \in Procs
      PROVE  /\ pr2[p].lock = "none"
             /\ pr2[p].pc = IF p \in 1..closed THEN "done" ELSE "idle"
  BY <1>1, AtIs DEF Idle
<1>7. ProcTyped(pr2) /\ group'.file = NoFile
  BY <1>1 DEF TypeInv, NoGroup
<1> HIDE DEF pr2
<1>8. \A f : Dead(disk, proc, f) => Dead(disk, pr2, f)
  BY <1>6 DEF Dead
<1>9. \A b : Over(disk, proc, closed, b, e) => Over(disk, pr2, closed, b, e2)
  BY <1>3, <1>4, <1>8 DEF Over
<1>10. ASSUME NEW f \in DOMAIN disk, f.kind \in TmpKinds PROVE LeftOver(disk, pr2, closed, f, e2)
  <2>1. f.run \in Int
    BY <1>2, NameIs, SizesTyped DEF DiskTyped
  <2>2. CASE Owned(proc, f)
    <3>1. PICK p \in Procs : proc[p].pc = "publish" /\ proc[p].job.tmp = f
      BY <2>2 DEF Owned
    <3>2. /\ PublishOK(disk, proc, closed, p, proc[p], e) /\ SessionOK(disk, proc, closed, p, proc[p], e)
          /\ Shape(closed, p, proc[p]) /\ proc[p] \in Goroutine
      BY <1>2 DEF Good
    <3>3. CASE proc[p].lock = "none"
      <4>1. f = File("finalizing", 3 * p - 2, 0) /\ p # Scan
        BY <3>1, <3>2, <3>3 DEF PublishOK, Shape
      <4>2. p \in 1..closed
        BY <1>2, <3>1, <3>2, <4>1, SizesTyped DEF Shape
      <4> QED BY <1>3, <4>1, <4>2 DEF LeftOver
    <3>4. CASE proc[p].lock = "session"
      <4>1. \E r \in 1..closed : f = JoinTmp(r)
        BY <3>1, <3>2, <3>4 DEF SessionOK, InSession, JoinTmp
      <4> QED BY <1>3, <4>1 DEF LeftOver
    <3>5. CASE proc[p].lock = "merge"
      <4> DEFINE dst == proc[p].job.dst
      <4>1. f = File("merging", dst.base, e.runs + 1) /\ Over(disk, proc, closed, dst.base, e)
        BY <3>1, <3>2, <3>5 DEF PublishOK
      <4>2. f.kind = "merging" /\ f.base = dst.base /\ f.run = e2.runs
        BY <1>3, <4>1, FileIs
      <4>3. f.run <= e2.runs
        BY <1>3, <4>2
      <4> QED BY <1>3, <1>9, <4>1, <4>2, <4>3 DEF LeftOver
    <3> QED BY <3>2, <3>3, <3>4, <3>5 DEF Goroutine
  <2>3. CASE LeftOver(disk, proc, closed, f, e)
    BY <1>3, <1>4, <1>9, <2>1, <2>3 DEF LeftOver
  <2> QED BY <1>2, <1>10, <2>2, <2>3 DEF FilesOK
<1>11. FilesOK(disk, pr2, closed, e2)
  <2>1. Parks(e2) = SegKinds /\ SegKinds \subseteq Parks(e)
    BY <1>3 DEF Parks, SegKinds, ParkKinds
  <2>2. \A f \in DOMAIN disk :
          /\ f.kind = "dir" => \E r \in 1..closed : f = Raw(r) \/ f = Half(r)
          /\ f.kind \in TmpKinds => LeftOver(disk, pr2, closed, f, e2)
          /\ f.kind \in ParkKinds => Over(disk, pr2, closed, f.base, e2)
    BY <1>2, <1>9, <1>10 DEF FilesOK
  <2>3. \A f, g \in DOMAIN disk :
          f.kind \in Parks(e2) /\ g.kind \in Parks(e2) /\ f.base = g.base => f = g
    BY <1>2, <2>1 DEF FilesOK
  <2>4. \A r \in 1..closed : /\ Raw(r) \in DOMAIN disk => disk[Raw(r)] = {r}
                             /\ Half(r) \in DOMAIN disk => Dead(disk, pr2, Raw(r))
    BY <1>2, <1>8 DEF FilesOK
  <2> QED BY <2>2, <2>3, <2>4 DEF FilesOK
<1>12. EpochOK(pr2, closed, e2)
  BY <1>3, <1>5, <1>6 DEF EpochOK
<1>13. ASSUME NEW p \in Procs
       PROVE  /\ Shape(closed, p, pr2[p]) /\ PublishOK(disk, pr2, closed, p, pr2[p], e2)
              /\ SessionOK(disk, pr2, closed, p, pr2[p], e2) /\ UploadOK(disk, pr2, closed, p, pr2[p], e2)
  <2>1. p # Scan => (p \in 1..closed <=> ~(p > closed))
    BY <1>2, SizesTyped
  <2>2. Shape(closed, p, pr2[p])
    BY <1>5, <1>6, <2>1 DEF Shape
  <2> QED BY <1>6, <2>2 DEF PublishOK, SessionOK, InSession, UploadOK
<1>14. Good(disk, pr2, closed, e2)
  <2>1. Exclusive(pr2)
    BY <1>6 DEF Exclusive
  <2> QED BY <1>2, <1>7, <1>11, <1>12, <1>13, <2>1 DEF Good
<1>15. Orderly(e2)'
  BY <1>1, <1>7, <1>14 DEF Orderly, Sound, GroupOK, pr2
<1> QED BY <1>1, <1>3, <1>15, StillThere DEF Ordered

\* What a step of a tracked run leaves.
Follows(e) ==
  /\ Ordered' /\ KeepsBut(e)
  /\ 1..closed' \subseteq 1..closed \cup Footage(disk', sent', discarded')

\* Every step leaves the files in order, and loses no more than spare ones.
LEMMA OrderlyStep ==
  ASSUME TypeInv, [Next]_vars, Tracked', NEW e \in Epochs, e.runs = crashes, Orderly(e)
  PROVE  Follows(e)
<1>1. TypeInv' /\ TypeInv
  BY NextTyped
<1>2. Tracked
  BY SettingsStay DEF Tracked
<1>3. ASSUME Same, Orderly(e)' /\ KeepsBut(e) PROVE Follows(e)
  BY <1>3 DEF Follows, Ordered, Same
<1>4. CASE Record
  <2>1. PICK why \in Reasons, d \in IF closed < N THEN Lengths[closed + 1] ELSE {} : CloseFile(why, d)
    BY <1>4 DEF Record
  <2>2. Orderly(e)' /\ Keeps /\ closed' = closed + 1 /\ closed' \in Footage(disk', sent', discarded')
    BY <1>1, <2>1, CloseFileKeeps
  <2>3. 1..closed' = 1..closed \cup {closed'}
    <3>1. closed \in Nat
      BY <1>1, SizesTyped DEF TypeInv, SourceTyped
    <3>2. 1..closed + 1 = 1..closed \cup {closed + 1}
      BY <3>1
    <3> QED BY <2>2, <3>2
  <2>4. UNCHANGED crashes
    BY <2>1, RecordSame
  <2> QED BY <2>2, <2>3, <2>4, KeepsAll DEF Follows, Ordered
<1>5. CASE FlushPending \/ ProcessPending
  <2>1. StartBatch
    BY <1>5 DEF FlushPending, ProcessPending
  <2> QED BY <1>1, <1>3, <2>1, OtherSame, StartBatchKeeps, KeepsAll
<1>6. CASE Crash
  BY <1>1, <1>6, CrashKeeps, KeepsAll DEF Follows, Crash, source
<1>7. ASSUME NEW r \in Recs, PostProcess(r) PROVE Follows(e)
  BY <1>1, <1>2, <1>3, <1>7, PostProcessSame, PostProcessKeeps
<1>8. ASSUME NEW p \in Procs, Work(p) PROVE Follows(e)
  <2>1. CASE DeleteInput(p) \/ PublishOutput(p) \/ BeginUpload(p) \/ EndUpload(p)
    <3>1. Orderly(e)' /\ KeepsBut(e)
      BY <1>1, <2>1, DeleteInputKeeps, PublishOutputKeeps, BeginUploadKeeps, EndUploadKeeps, KeepsAll
    <3> QED BY <1>3, <2>1, <3>1, WorkSame
  <2>2. CASE RenameFails(p)
    BY <2>2 DEF RenameFails, Tracked
  <2> QED BY <1>8, <2>1, <2>2 DEF Work
<1>9. CASE OrphanScan \/ ScanPending(TRUE)
  <2>1. CASE \E f \in DOMAIN disk : ScanMain(f)
    BY <1>1, <1>3, <1>9, <2>1, OtherSame, ScanMainKeeps, KeepsAll
  <2>2. CASE \E f \in DOMAIN disk : RemoveStaleScratch(f)
    BY <1>1, <1>3, <1>9, <2>2, OtherSame, RemoveStaleScratchKeeps
  <2>3. CASE ScanPending(FALSE) \/ ScanPending(TRUE)
    BY <1>1, <1>3, <1>9, <2>3, OtherSame, ScanPendingKeeps
  <2> QED BY <1>9, <2>1, <2>2, <2>3 DEF OrphanScan
<1>10. CASE UNCHANGED vars
  <2>1. Orderly(e)' /\ Keeps
    BY <1>10 DEF vars, Orderly, Keeps
  <2> QED BY <1>3, <1>10, <2>1, OtherSame, KeepsAll
<1> QED BY <1>4, <1>5, <1>6, <1>7, <1>8, <1>9, <1>10 DEF Next

\* A tracked step follows from an epoch.
LEMMA TrackedStep ==
  ASSUME IInv, [Next]_vars, Tracked'
  PROVE  \E e \in Epochs : e.runs = crashes /\ Follows(e)
<1>1. Tracked
  BY SettingsStay DEF Tracked
<1>2. PICK e \in Epochs : e.runs = crashes /\ Orderly(e)
  BY <1>1 DEF IInv, Ordered
<1> QED BY <1>2, OrderlyStep DEF IInv

\* The number of crashes does not go back.
LEMMA CrashesGrow ==
  ASSUME TypeInv, [Next]_vars, crashes' = 0
  PROVE  crashes = 0
<1>1. CASE Record
  BY <1>1, RecordSame DEF Record
<1>2. CASE FlushPending \/ ProcessPending \/ OrphanScan \/ ScanPending(TRUE) \/ UNCHANGED vars
  BY <1>2, OtherSame DEF FlushPending, ProcessPending, Same
<1>3. CASE Crash
  <2>1. crashes' = crashes + 1 /\ crashes \in Nat
    BY <1>3, SizesTyped DEF Crash, TypeInv
  <2> QED BY <2>1
<1>4. ASSUME NEW r \in Recs, PostProcess(r) PROVE UNCHANGED crashes
  BY <1>4, PostProcessSame DEF Same
<1>5. ASSUME NEW p \in Procs, Work(p) PROVE UNCHANGED crashes
  <2>1. CASE RenameFails(p)
    BY <2>1 DEF RenameFails, settings
  <2> QED BY <1>5, <2>1, WorkSame DEF Work, Same
<1> QED BY <1>1, <1>2, <1>3, <1>4, <1>5 DEF Next

\* The invariant is inductive.
LEMMA NextOrderly == IInv /\ [Next]_vars => IInv'
<1> SUFFICES ASSUME IInv, [Next]_vars PROVE IInv'
  OBVIOUS
<1>1. TypeInv /\ TypeInv'
  BY NextTyped DEF IInv
<1>2. Tracked' => Ordered'
  BY TrackedStep DEF Follows
<1>3. ASSUME Calm' PROVE Covered'
  <2>1. Tracked' /\ crashes' = 0
    BY <1>3, Zenon DEF Calm, Tracked
  <2>2. crashes = 0
    BY <1>1, <2>1, CrashesGrow
  <2>3. Calm
    BY <2>1, <2>2, SettingsStay DEF Calm, Tracked
  <2>4. PICK e \in Epochs : e.runs = crashes /\ Follows(e)
    BY <2>1, TrackedStep
  <2>5. 1..closed \subseteq Footage(disk, sent, discarded)
    BY <2>3 DEF IInv, Covered
  <2>6. Footage(disk, sent, discarded) \subseteq Footage(disk', sent', discarded')
    <3> DEFINE after == Footage(disk', sent', discarded')
    <3>1. (UNION sent) \cup discarded \subseteq after /\ \A f \in DOMAIN disk : disk[f] \subseteq after
      BY <2>2, <2>4 DEF Follows, KeepsBut, Spare
    <3> HIDE DEF after
    <3>2. Footage(disk, sent, discarded) \subseteq after
      BY <3>1 DEF Footage
    <3> QED BY <3>2 DEF after
  <2> QED BY <2>4, <2>5, <2>6 DEF Follows, Covered
<1> QED BY <1>1, <1>2, <1>3 DEF IInv

LEMMA InitOrdered == Init => IInv
BY InitTyped, InitOrderly DEF IInv

\* As long as nobody crashes, no rename fails and nothing is re-encoded, every
\* recording closed is on disk, sent, or deleted by policy, however fragments,
\* merges, uploads and scans interleave and whatever else fails.
THEOREM FootageSafe == Spec => []NoFootageLost
<1>1. IInv => NoFootageLost
  <2> SUFFICES ASSUME IInv, Calm PROVE Lost = {}
    <3>1. IInv => crashes = 0 \/ crashes > 0
      BY SizesTyped DEF IInv, TypeInv
    <3>2. Calm \/ crashes > 0 \/ renameFailed \/ compress \/ ~IInv
      BY <3>1, Zenon DEF Calm
    <3> QED BY <3>2 DEF NoFootageLost
  <2>1. 1..closed \subseteq Footage(disk, sent, discarded)
    BY DEF IInv, Covered
  <2> QED BY <2>1 DEF Lost, OnDisk, Footage
<1> QED BY <1>1, InitOrdered, NextOrderly, PTL DEF Spec

\* However often the process dies, a step loses no footage but with a scratch
\* file an earlier run left behind, which it deletes, or with a file in corrupt/
\* that another replaces, as long as no rename fails and nothing is re-encoded.
THEOREM LostOnlyInScratch == Spec => LostOnlyWithScratch
<1>1. ASSUME IInv, [Next]_vars
      PROVE  renameFailed' \/ compress \/ Lost' \ Lost \subseteq UNION {disk[f] : f \in GivenUp}
  <2> DEFINE only == Lost' \ Lost \subseteq UNION {disk[f] : f \in GivenUp}
  <2>1. ASSUME Tracked' PROVE only
    <3>1. PICK e \in Epochs : Follows(e)
      BY <1>1, <2>1, TrackedStep
    <3> QED BY <3>1, OnlySpareLost DEF Follows
  <2>2. UNCHANGED compress
    BY <1>1, SettingsStay
  <2> HIDE DEF only
  <2>3. renameFailed' \/ compress \/ only
    BY <2>1, <2>2, Zenon DEF Tracked
  <2> QED BY <2>3 DEF only
<1> QED BY <1>1, InitOrdered, NextOrderly, PTL DEF Spec, LostOnlyWithScratch
-----------------------------------------------------------------------------
(* Markers.  From here on goroutines may crash, renames may fail and files may *)
(* be re-encoded: nothing of `Orderly' is used.                               *)

\* A file that no rewrite makes again: the recording it is named after is done,
\* and the session does not hold what that recording began.
Gone(pr, cl, g, f) ==
  \E r \in 1..cl :
     /\ pr[r].pc = "done"
     /\ f = Raw(r) \/ (f = Half(r) /\ g \notin {Raw(r), Half(r)})

\* Under the session lock a goroutine works for the file the session holds.  A
\* merge still deletes that file or it is gone; what then has its place is the
\* joined file.
InSessionLock(d, g, u) ==
  /\ g # NoFile /\ u.pc \in {"publish", "flush", "regroup", "deliver"}
  /\ u.pc = "publish" =>
        /\ u.job.tmp.kind = "sessiontmp" /\ u.job.dst = Joined(g)
        /\ u.job.then \in {"regroup", "deliver"}
        /\ g \in Range(u.job.del) \/ g \notin DOMAIN d
  /\ u.pc \in {"regroup", "deliver"} => u.file = Joined(g) /\ (g = u.file \/ g \notin DOMAIN d)

Place(d, cl, g, p, u) ==
  /\ p > cl => u.pc = "idle"
  /\ p = Scan => u.lock # "session" /\ (u.pc = "publish" => u.lock = "merge")
  /\ u.pc = "publish" /\ u.lock = "none" => u.job.then = "session"
  /\ u.pc = "publish" /\ u.lock = "merge" =>
        u.job.dst.kind = "merged" /\ u.job.then \in {"egress", "done", "orphan"}
  /\ u.pc \in {"flush", "regroup", "deliver"} => u.lock = "session"
  /\ u.lock = "session" => InSessionLock(d, g, u)

OneSession(pr) == \A p, q \in Recs : p # q /\ pr[p].lock = "session" => pr[q].lock # "session"

\* The session holds nothing, or what a recording that is done left.
HeldOK(pr, cl, g) == g = NoFile \/ \E r \in 1..cl : pr[r].pc = "done" /\ g \in {Raw(r), Half(r)}

\* The files marked as in flight, but those a failed merge of a session left so.
Watched == inflight \ stranded
Uploading(pr, f) == \E p \in Procs : pr[p].pc = "upload" /\ pr[p].file = f
MarkersOK(d, pr, cl, g, marked) ==
  \A f \in marked : f = g \/ Uploading(pr, f) \/ (f \notin DOMAIN d /\ Gone(pr, cl, g, f))

Marked(d, pr, cl, g, marked) ==
  /\ \A p \in Procs : Place(d, cl, g, p, pr[p])
  /\ OneSession(pr) /\ HeldOK(pr, cl, g)
  /\ MarkersOK(d, pr, cl, g, marked)
MInv == /\ Marked(disk, proc, closed, group.file, Watched)
        /\ group.file = NoFile => group = NoGroup

\* A file that appears is not one a marker waits to see no more of.
Appears(d, pr, cl, g, d2, p) ==
  \A f \in DOMAIN d2 \ DOMAIN d :
     f.kind = "dir" => ~Gone(pr, cl, g, f) /\ (f = g => pr[p].lock = "session")

\* The session takes another file in the place of the one it holds.
Changes(d2, pr, g, p, u, g2, marked2) ==
  g2 = g \/ /\ \A q \in Procs \ {p} : pr[q].lock # "session"
            /\ \/ g2 = NoFile
               \/ p \in Recs /\ u.pc = "done" /\ g2 = Raw(p)
               \/ g # NoFile /\ g2 = Joined(g)
            /\ g \in marked2 => g \notin DOMAIN d2

\* A file named by recordings, or none.
LEMMA HeldIs ==
  ASSUME NEW pr, NEW cl \in 0..N, NEW g, HeldOK(pr, cl, g)
  PROVE  g = NoFile \/ g.kind = "dir"
BY Numbers DEF HeldOK

\* One goroutine moves, and what the session holds and what is marked may change.
LEMMA MarkedStep ==
  ASSUME NEW d, NEW pr \in [Procs -> Goroutine], NEW cl \in 0..N, NEW g, NEW marked \in SUBSET Names,
         Marked(d, pr, cl, g, marked),
         NEW p \in Procs, NEW u, p \in Recs => pr[p].pc # "done",
         NEW d2, DOMAIN d2 \subseteq Names, NEW cl2 \in 0..N, cl <= cl2, NEW g2, NEW marked2,
         Place(d2, cl2, g2, p, u),
         u.lock = "session" => \A q \in Procs \ {p} : pr[q].lock # "session",
         Appears(d, pr, cl, g, d2, p), Changes(d2, pr, g, p, u, g2, marked2),
         \A f \in marked2 : f \in marked \/ f = g2 \/ (u.pc = "upload" /\ u.file = f),
         pr[p].pc = "upload" => pr[p].file \notin marked2 \/ (u.pc = "upload" /\ u.file = pr[p].file),
         u.pc = "done" => p = Scan \/ p \in 1..cl2
  PROVE  Marked(d2, [pr EXCEPT ![p] = u], cl2, g2, marked2)
<1> DEFINE pr2 == [pr EXCEPT ![p] = u]
<1>1. pr2[p] = u /\ \A q \in Procs \ {p} : pr2[q] = pr[q]
  OBVIOUS
<1> HIDE DEF pr2
<1>2. \A r \in 1..cl : r \in Recs /\ r \in Procs /\ r \in Int /\ r \in 1..cl2
  BY SizesTyped
<1>3. \A r \in 1..cl : pr[r].pc = "done" => r # p /\ pr2[r].pc = "done"
  BY <1>1, <1>2
<1>4. g = NoFile \/ g.kind = "dir"
  BY HeldIs DEF Marked
<1>5. ASSUME NEW q \in Procs \ {p} PROVE Place(d2, cl2, g2, q, pr2[q])
  <2>1. pr2[q] = pr[q] /\ Place(d, cl, g, q, pr[q]) /\ q \in Int
    BY <1>1, SizesTyped DEF Marked
  <2>2. q > cl2 => q > cl
    BY <2>1, SizesTyped
  <2>3. CASE pr[q].lock # "session"
    BY <2>1, <2>2, <2>3 DEF Place
  <2>4. CASE pr[q].lock = "session"
    <3>1. g2 = g
      BY <2>4 DEF Changes
    <3>2. q \in Recs
      BY <2>1, <2>4, SizesTyped DEF Place
    <3>3. pr[p].lock # "session"
      <4>1. CASE p \in Recs
        BY <2>4, <3>2, <4>1 DEF Marked, OneSession
      <4>2. CASE p = Scan
        BY <4>2 DEF Marked, Place
      <4> QED BY <4>1, <4>2, SizesTyped
    <3>4. InSessionLock(d, g, pr[q])
      BY <2>1, <2>4 DEF Place
    <3>5. g \notin DOMAIN d => g \notin DOMAIN d2
      BY <1>4, <3>3, <3>4 DEF Appears, InSessionLock
    <3>6. InSessionLock(d2, g2, pr[q])
      BY <3>1, <3>4, <3>5 DEF InSessionLock
    <3> QED BY <2>1, <2>2, <2>4, <3>6 DEF Place
  <2> QED BY <2>3, <2>4
<1>6. \A q \in Procs : Place(d2, cl2, g2, q, pr2[q])
  BY <1>1, <1>5
<1>7. OneSession(pr2)
  <2> SUFFICES ASSUME NEW a \in Recs, NEW b \in Recs, a # b, pr2[a].lock = "session"
               PROVE  pr2[b].lock # "session"
    BY DEF OneSession
  <2>1. a \in Procs /\ b \in Procs
    BY SizesTyped
  <2> QED BY <1>1, <2>1 DEF Marked, OneSession
<1>8. HeldOK(pr2, cl2, g2)
  <2>1. CASE g2 = g \/ (g # NoFile /\ g2 = Joined(g))
    <3>1. CASE g = NoFile
      BY <2>1, <3>1 DEF HeldOK
    <3>2. CASE g # NoFile
      <4>1. PICK r \in 1..cl : pr[r].pc = "done" /\ g \in {Raw(r), Half(r)}
        BY <3>2 DEF Marked, HeldOK
      <4>2. g2 \in {Raw(r), Half(r)}
        BY <2>1, <4>1, JoinedName
      <4> QED BY <1>2, <1>3, <4>1, <4>2 DEF HeldOK
    <3> QED BY <3>1, <3>2
  <2>2. CASE g2 = NoFile
    BY <2>2 DEF HeldOK
  <2>3. CASE p \in Recs /\ u.pc = "done" /\ g2 = Raw(p)
    BY <1>1, <2>3, SizesTyped DEF HeldOK
  <2> QED BY <2>1, <2>2, <2>3 DEF Changes
<1>9. ASSUME NEW r \in 1..cl, pr[r].pc = "done", g2 # g, g2 \in {Raw(r), Half(r)}
      PROVE  g = Raw(r) /\ g2 = Half(r)
  <2>1. r \in Int /\ Raw(r).kind = "dir" /\ Half(r).kind = "dir" /\ r # p
    BY <1>2, <1>3, <1>9, Numbers
  <2>2. g2 # NoFile
    BY <1>9, <2>1, FileIs DEF NoFile
  <2>3. ~(p \in Recs /\ g2 = Raw(p))
    BY <1>9, <2>1, SizesTyped, OwnNamesDiffer
  <2>4. g # NoFile /\ g2 = Joined(g)
    BY <1>9, <2>2, <2>3 DEF Changes
  <2>5. PICK s \in 1..cl : g \in {Raw(s), Half(s)}
    BY <2>4 DEF Marked, HeldOK
  <2>6. g2 = Half(s) /\ s \in Int
    BY <1>2, <2>4, <2>5, JoinedName
  <2>7. s = r
    BY <1>9, <2>1, <2>6, OwnNamesDiffer
  <2> QED BY <1>9, <2>5, <2>6, <2>7
<1>10. ASSUME NEW f, Gone(pr, cl, g, f) PROVE Gone(pr2, cl2, g2, f)
  <2>1. PICK r \in 1..cl : /\ pr[r].pc = "done"
                           /\ f = Raw(r) \/ (f = Half(r) /\ g \notin {Raw(r), Half(r)})
    BY <1>10 DEF Gone
  <2>2. f = Half(r) /\ g \notin {Raw(r), Half(r)} => g2 \notin {Raw(r), Half(r)}
    BY <1>9, <2>1
  <2>3. r \in 1..cl2 /\ pr2[r].pc = "done"
    BY <1>2, <1>3, <2>1
  <2> QED BY <2>1, <2>2, <2>3 DEF Gone
<1>11. ASSUME NEW f, f \notin DOMAIN d, Gone(pr, cl, g, f) PROVE f \notin DOMAIN d2
  <2>1. f.kind = "dir"
    BY <1>11, Numbers DEF Gone
  <2> QED BY <1>11, <2>1 DEF Appears
<1>12. ASSUME NEW f \in marked2 PROVE f = g2 \/ Uploading(pr2, f) \/ (f \notin DOMAIN d2 /\ Gone(pr2, cl2, g2, f))
  <2>1. CASE u.pc = "upload" /\ u.file = f
    BY <1>1, <2>1 DEF Uploading
  <2>2. CASE f \in marked /\ f = g /\ g2 # g
    <3>1. f \notin DOMAIN d2
      BY <1>12, <2>2 DEF Changes
    <3>2. g # NoFile
      BY <2>2, NameIs, FileIs DEF NoFile
    <3>3. PICK r \in 1..cl : pr[r].pc = "done" /\ g \in {Raw(r), Half(r)}
      BY <3>2 DEF Marked, HeldOK
    <3>4. g = Half(r) => g2 \notin {Raw(r), Half(r)}
      BY <1>2, <1>9, <2>2, <3>3, OwnNamesDiffer
    <3>5. r \in 1..cl2 /\ pr2[r].pc = "done"
      BY <1>2, <1>3, <3>3
    <3> QED BY <2>2, <3>1, <3>3, <3>4, <3>5 DEF Gone
  <2>3. CASE f \in marked /\ Uploading(pr, f)
    <3>1. PICK q \in Procs : pr[q].pc = "upload" /\ pr[q].file = f
      BY <2>3 DEF Uploading
    <3> QED BY <1>1, <1>12, <3>1 DEF Uploading
  <2>4. CASE f \in marked /\ f \notin DOMAIN d /\ Gone(pr, cl, g, f)
    <3>1. f \notin DOMAIN d2
      BY <1>11, <2>4
    <3> QED BY <1>10, <2>4, <3>1
  <2> QED BY <2>1, <2>2, <2>3, <2>4 DEF Marked, MarkersOK
<1>13. MarkersOK(d2, pr2, cl2, g2, marked2)
  BY <1>12 DEF MarkersOK
<1> QED BY <1>6, <1>7, <1>8, <1>13 DEF Marked, pr2

\* Changes of the directory that put no new name in the recording directory.
NoNewDir(d, d2) == \A f \in DOMAIN d2 \ DOMAIN d : f.kind # "dir"

LEMMA NoNewDirs ==
  ASSUME NEW d
  PROVE  /\ NoNewDir(d, d)
         /\ \A fs : NoNewDir(d, Without(d, fs))
         /\ \A f, c : f.kind # "dir" => NoNewDir(d, Put(d, f, c))
         /\ \A f, g : g.kind # "dir" => NoNewDir(d, Rename(d, f, g))
         /\ \A bad : NoNewDir(d, Quarantined(d, bad))
         /\ NoNewDir(d, RecoverMergeScratch(d))
         /\ \A d2, d3 : NoNewDir(d, d2) /\ NoNewDir(d2, d3) => NoNewDir(d, d3)
<1>1. NoNewDir(d, d)
  BY DEF NoNewDir
<1>2. ASSUME NEW fs PROVE NoNewDir(d, Without(d, fs))
  BY DEF NoNewDir, Without, Restrict
<1>3. ASSUME NEW f, NEW c, f.kind # "dir" PROVE NoNewDir(d, Put(d, f, c))
  BY <1>3 DEF NoNewDir, Put
<1>4. ASSUME NEW f, NEW g, g.kind # "dir" PROVE NoNewDir(d, Rename(d, f, g))
  BY <1>4 DEF NoNewDir, Rename, Put, Without, Restrict
<1>5. ASSUME NEW bad PROVE NoNewDir(d, Quarantined(d, bad))
  <2>1. \A g \in bad : Corrupt(g).kind # "dir"
    BY FileIs DEF Corrupt
  <2>2. DOMAIN Quarantined(d, bad) = (DOMAIN d \ bad) \cup {Corrupt(g) : g \in bad}
    BY DEF Quarantined
  <2> QED BY <2>1, <2>2 DEF NoNewDir
<1>6. NoNewDir(d, RecoverMergeScratch(d))
  <2> DEFINE left == {f \in DOMAIN d : f.kind = "merging"}
             g == CHOOSE h \in left : TRUE
             m == File("merged", g.base, 0)
  <2>1. m.kind # "dir"
    BY FileIs
  <2>2. RecoverMergeScratch(d) \in {d, Without(d, left), Rename(d, g, m)}
    BY DEF RecoverMergeScratch
  <2> HIDE DEF m, left, g
  <2> QED BY <1>1, <1>2, <1>4, <2>1, <2>2
<1>7. ASSUME NEW d2, NEW d3, NoNewDir(d, d2), NoNewDir(d2, d3) PROVE NoNewDir(d, d3)
  BY <1>7 DEF NoNewDir
<1> QED BY <1>1, <1>2, <1>3, <1>4, <1>5, <1>6, <1>7

\* No file that appears is one the session holds or one that is gone.
LEMMA NoneAppears ==
  ASSUME NEW d, NEW pr, NEW cl, NEW g, NEW d2, NEW p, NoNewDir(d, d2)
  PROVE  Appears(d, pr, cl, g, d2, p)
BY DEF Appears, NoNewDir

\* What is known of a goroutine.
LEMMA MarkedNow ==
  ASSUME TypeInv, MInv, NEW p \in Procs
  PROVE  /\ proc \in [Procs -> Goroutine] /\ closed \in 0..N /\ closed <= closed
         /\ Watched \in SUBSET Names /\ DOMAIN disk \subseteq Names
         /\ Marked(disk, proc, closed, group.file, Watched)
         /\ Place(disk, closed, group.file, p, proc[p]) /\ HeldOK(proc, closed, group.file)
         /\ p \in Recs /\ proc[p].pc # "idle" => p \in 1..closed /\ p # Scan /\ ~(p > closed)
         /\ p = Scan => ~(p > closed)
<1>1. /\ proc \in [Procs -> Goroutine] /\ closed \in 0..N
      /\ Watched \in SUBSET Names /\ DOMAIN disk \subseteq Names
  BY DEF TypeInv, ProcTyped, SourceTyped, RestTyped, DiskTyped, Watched
<1>2. /\ Marked(disk, proc, closed, group.file, Watched)
      /\ Place(disk, closed, group.file, p, proc[p]) /\ HeldOK(proc, closed, group.file)
  BY DEF MInv, Marked
<1>3. p \in Recs /\ proc[p].pc # "idle" => p \in 1..closed /\ p # Scan /\ ~(p > closed)
  BY <1>1, <1>2, SizesTyped DEF Place
<1>4. closed <= closed /\ (p = Scan => ~(p > closed))
  BY <1>1, SizesTyped DEF Scan
<1> QED BY <1>1, <1>2, <1>3, <1>4

\* A step that changes nothing of the session and puts no new name in the
\* recording directory.
LEMMA MarkedMove ==
  ASSUME TypeInv, TypeInv', MInv, NEW p \in Procs, NEW u, proc' = [proc EXCEPT ![p] = u],
         p \in Recs => proc[p].pc \notin {"done", "idle"}, proc[p].pc # "upload",
         UNCHANGED <<closed, group>>, NoNewDir(disk, disk'),
         \A f \in Watched' : f \in Watched \/ (u.pc = "upload" /\ u.file = f),
         Place(disk', closed, group.file, p, u), u.lock # "session"
  PROVE  MInv'
<1>1. /\ proc \in [Procs -> Goroutine] /\ closed \in 0..N /\ closed <= closed
      /\ Watched \in SUBSET Names
      /\ Marked(disk, proc, closed, group.file, Watched)
      /\ p \in Recs => p \in 1..closed
  BY MarkedNow
<1>2. DOMAIN disk' \subseteq Names
  BY DEF TypeInv, DiskTyped
<1>3. Appears(disk, proc, closed, group.file, disk', p)
  BY NoneAppears
<1>4. Changes(disk', proc, group.file, p, u, group.file, Watched')
  BY DEF Changes
<1>5. u.pc = "done" => p = Scan \/ p \in 1..closed
  BY <1>1, SizesTyped
<1>6. Marked(disk', proc', closed, group.file, Watched')
  BY <1>1, <1>2, <1>3, <1>4, <1>5, MarkedStep
<1> QED BY <1>6 DEF MInv

\* A goroutine that goes on without the session lock, or is done, has its place.
LEMMA PlaceIs ==
  ASSUME TypeInv, MInv, NEW p \in Procs, p \in Recs => proc[p].pc # "idle", NEW d, NEW g, NEW f,
         NEW lock \in {"none", "merge"}, NEW job,
         NEW pc \in {"encode", "session", "mindur", "egress", "orphan", "compress", "upload", "done"}
  PROVE  /\ Place(d, closed, g, p, At(pc, f, lock, job))
         /\ At(pc, f, lock, job).lock # "session" /\ At(pc, f, lock, job).pc = pc
<1> DEFINE u == At(pc, f, lock, job)
<1>1. u.pc = pc /\ u.lock = lock
  BY AtIs
<1> HIDE DEF u
<1>2. ~(p > closed)
  BY MarkedNow, SizesTyped
<1> QED BY <1>1, <1>2 DEF Place, u

\* Such a step, for a goroutine that goes on so.
LEMMA MarkedGoto ==
  ASSUME TypeInv, TypeInv', MInv, NEW p \in Procs, NEW f,
         NEW lock \in {"none", "merge"},
         NEW pc \in {"encode", "session", "mindur", "egress", "orphan", "done"},
         Goto(p, pc, f, lock),
         p \in Recs => proc[p].pc \notin {"done", "idle"}, proc[p].pc # "upload",
         UNCHANGED <<closed, group, Watched>>, NoNewDir(disk, disk')
  PROVE  MInv'
<1> DEFINE u == At(pc, f, lock, NoJob)
<1>1. proc' = [proc EXCEPT ![p] = u]
  BY DEF Goto, Step
<1>2. Place(disk', closed, group.file, p, u) /\ u.lock # "session"
  BY PlaceIs
<1> HIDE DEF u
<1> QED BY <1>1, <1>2, MarkedMove

LEMMA MarkedFinish ==
  ASSUME TypeInv, TypeInv', MInv, NEW p \in Procs, Finish(p),
         p \in Recs => proc[p].pc \notin {"done", "idle"}, proc[p].pc # "upload",
         UNCHANGED <<closed, group, Watched>>, NoNewDir(disk, disk')
  PROVE  MInv'
BY MarkedGoto DEF Finish

LEMMA ProcessPendingFileMarks ==
  ASSUME TypeInv, TypeInv', MInv, NEW r \in Recs, ProcessPendingFile(r)
  PROVE  MInv'
<1>1. /\ proc[r].pc = "ready" /\ UNCHANGED <<closed, disk, group, Watched>>
      /\ Goto(r, "encode", Raw(r), "none") \/ Finish(r)
  BY DEF ProcessPendingFile, source, Watched, settings
<1>2. r \in Procs /\ NoNewDir(disk, disk')
  BY <1>1, SizesTyped, NoNewDirs
<1> QED BY <1>1, <1>2, MarkedGoto, MarkedFinish

LEMMA FinalizeRecordingMarks ==
  ASSUME TypeInv, TypeInv', MInv, NEW r \in Recs, FinalizeRecording(r)
  PROVE  MInv'
<1> DEFINE tmp == File("finalizing", 3 * r - 2, 0)
           j == [del |-> <<Raw(r)>>, tmp |-> tmp, dst |-> Raw(r), then |-> "session"]
           u == At("publish", Raw(r), "none", j)
<1>1. /\ proc[r].pc = "encode" /\ UNCHANGED <<closed, group, Watched>>
      /\ \/ disk' = Put(disk, tmp, disk[Raw(r)]) /\ proc' = [proc EXCEPT ![r] = u]
         \/ disk' = disk /\ Goto(r, "session", Raw(r), "none")
         \/ disk' = disk /\ Finish(r)
  BY DEF FinalizeRecording, source, Step, Watched, settings
<1>2. r \in Procs /\ tmp.kind # "dir" /\ j.then = "session" /\ j.dst = Raw(r)
  BY SizesTyped, FileIs
<1> HIDE DEF j, tmp
<1>3. NoNewDir(disk, disk')
  BY <1>1, <1>2, NoNewDirs
<1>4. ASSUME proc' = [proc EXCEPT ![r] = u] PROVE MInv'
  <2>1. u.pc = "publish" /\ u.lock = "none" /\ u.job = j
    BY AtIs
  <2>2. ~(r > closed) /\ r # Scan
    BY <1>1, <1>2, MarkedNow
  <2> HIDE DEF u
  <2>3. Place(disk', closed, group.file, r, u)
    BY <1>2, <2>1, <2>2 DEF Place
  <2> QED BY <1>1, <1>2, <1>3, <1>4, <2>1, <2>3, MarkedMove
<1> QED BY <1>1, <1>2, <1>3, <1>4, MarkedGoto, MarkedFinish

LEMMA VanishedMarks ==
  ASSUME TypeInv, TypeInv', MInv, NEW p \in Recs, Vanished(p)
  PROVE  MInv'
<1>1. /\ proc[p].pc \in {"session", "mindur"} /\ Finish(p)
      /\ UNCHANGED <<closed, disk, group, Watched>>
  BY DEF Vanished, source, Watched, settings
<1>2. p \in Procs /\ NoNewDir(disk, disk')
  BY <1>1, SizesTyped, NoNewDirs
<1> QED BY <1>1, <1>2, MarkedFinish

LEMMA EgressMarks ==
  ASSUME TypeInv, TypeInv', MInv, NEW p \in Recs,
         MoveToOutputDir(p) \/ CompressFails(p) \/ Compressed(p)
  PROVE  MInv'
<1>1. /\ proc[p].pc \in {"egress", "compress"} /\ Finish(p)
      /\ UNCHANGED <<closed, group, Watched>>
      /\ disk' = Without(disk, {proc[p].file})
  BY DEF MoveToOutputDir, CompressFails, Compressed, Deliver, source, Watched, settings
<1>2. p \in Procs /\ NoNewDir(disk, disk')
  BY <1>1, SizesTyped, NoNewDirs
<1> QED BY <1>1, <1>2, MarkedFinish

\* A goroutine takes note of what its file holds.
LEMMA NotingIs ==
  ASSUME NEW pc, NEW f, NEW lock, NEW c
  PROVE  LET u == [At(pc, f, lock, NoJob) EXCEPT !.held = c]
         IN  u.pc = pc /\ u.file = f /\ u.lock = lock
BY DEF At

LEMMA CompressFileMarks ==
  ASSUME TypeInv, TypeInv', MInv, NEW p \in Recs, CompressFile(p)
  PROVE  MInv'
<1> DEFINE u == [At("compress", proc[p].file, "none", NoJob) EXCEPT !.held = disk[proc[p].file]]
<1>1. /\ proc[p].pc = "egress" /\ UNCHANGED <<closed, disk, group, Watched>>
      /\ Finish(p) \/ proc' = [proc EXCEPT ![p] = u]
  BY DEF CompressFile, source, Step, Watched, settings
<1>2. p \in Procs /\ NoNewDir(disk, disk')
  BY <1>1, SizesTyped, NoNewDirs
<1>3. u.pc = "compress" /\ u.lock = "none"
  BY NotingIs
<1>4. ~(p > closed) /\ p # Scan
  BY <1>1, <1>2, MarkedNow
<1> HIDE DEF u
<1>5. Place(disk', closed, group.file, p, u)
  BY <1>3, <1>4 DEF Place
<1> QED BY <1>1, <1>2, <1>3, <1>5, MarkedFinish, MarkedMove

LEMMA BeginUploadMarks ==
  ASSUME TypeInv, TypeInv', MInv, NEW p \in Procs, BeginUpload(p)
  PROVE  MInv'
<1> DEFINE f == proc[p].file
           u == [At("upload", f, proc[p].lock, NoJob) EXCEPT !.held = disk[f]]
<1>1. /\ proc[p].pc = "orphan" /\ UNCHANGED <<closed, disk, group>>
      /\ \/ Finish(p) /\ UNCHANGED Watched
         \/ proc' = [proc EXCEPT ![p] = u] /\ Watched' \subseteq Watched \cup {f}
  BY DEF BeginUpload, source, Step, Watched, settings
<1>2. NoNewDir(disk, disk')
  BY <1>1, NoNewDirs
<1>3. u.pc = "upload" /\ u.file = f /\ u.lock = proc[p].lock
  BY NotingIs
<1>4. proc[p].lock # "session" /\ ~(p > closed)
  BY <1>1, SizesTyped, MarkedNow DEF Place, InSessionLock
<1> HIDE DEF u, f
<1>5. Place(disk', closed, group.file, p, u)
  BY <1>3, <1>4 DEF Place
<1>6. ASSUME proc' = [proc EXCEPT ![p] = u], Watched' \subseteq Watched \cup {f} PROVE MInv'
  <2>1. \A g \in Watched' : g \in Watched \/ (u.pc = "upload" /\ u.file = g)
    BY <1>3, <1>6
  <2> QED BY <1>1, <1>2, <1>3, <1>4, <1>5, <1>6, <2>1, MarkedMove
<1> QED BY <1>1, <1>2, <1>6, MarkedFinish

\* An upload that ends takes its marker away.
LEMMA EndUploadMarks ==
  ASSUME TypeInv, TypeInv', MInv, NEW p \in Procs, EndUpload(p)
  PROVE  MInv'
<1> DEFINE f == proc[p].file
           u == At("done", NoFile, "none", NoJob)
<1>1. /\ proc[p].pc = "upload" /\ UNCHANGED <<closed, group>>
      /\ Watched' = Watched \ {f} /\ (disk' = disk \/ disk' = Without(disk, {f}))
  BY DEF EndUpload, source, Watched, settings
<1>2. proc' = [proc EXCEPT ![p] = u]
  BY DEF EndUpload, Finish, Goto, Step
<1>3. p \in Recs => proc[p].pc # "done" /\ proc[p].pc # "idle"
  BY <1>1
<1>4. Place(disk', closed, group.file, p, u) /\ u.lock # "session" /\ u.pc = "done"
  BY <1>3, PlaceIs
<1> HIDE DEF u, f
<1>5. NoNewDir(disk, disk')
  BY <1>1, NoNewDirs
<1>6. Appears(disk, proc, closed, group.file, disk', p)
  BY <1>5, NoneAppears
<1>7. Changes(disk', proc, group.file, p, u, group.file, Watched')
  BY DEF Changes
<1>8. DOMAIN disk' \subseteq Names
  BY DEF TypeInv, DiskTyped
<1>9. p = Scan \/ p \in 1..closed
  BY <1>3, SizesTyped, MarkedNow
<1>10. proc[p].file \notin Watched' /\ Watched' \subseteq Watched
  BY <1>1 DEF f
<1>11. Marked(disk', proc', closed, group.file, Watched')
  BY <1>2, <1>3, <1>4, <1>6, <1>7, <1>8, <1>9, <1>10, MarkedNow, MarkedStep
<1> QED BY <1>1, <1>11 DEF MInv

\* Who holds the session lock holds it alone.
LEMMA HoldsAlone ==
  ASSUME TypeInv, MInv, NEW p \in Recs, proc[p].lock = "session"
  PROVE  Free(p, "session")
<1> SUFFICES ASSUME NEW q \in Procs \ {p} PROVE proc[q].lock # "session"
  BY DEF Free
<1>1. CASE q \in Recs
  BY <1>1 DEF MInv, Marked, OneSession
<1>2. CASE q = Scan
  BY <1>2, MarkedNow DEF Place
<1> QED BY <1>1, <1>2, SizesTyped

\* A step under the session lock that may change what the session holds, and
\* that leaves the lock.
LEMMA MarkedSession ==
  ASSUME TypeInv, TypeInv', MInv, NEW p \in Recs, proc[p].pc \notin {"idle", "done", "upload"},
         Free(p, "session"), UNCHANGED closed, NoNewDir(disk, disk'),
         NEW f, NEW pc \in {"mindur", "done"}, Goto(p, pc, f, "none"),
         group'.file = NoFile => group' = NoGroup,
         \/ group'.file \in {NoFile, group.file} \/ (pc = "done" /\ group'.file = Raw(p))
         \/ group.file # NoFile /\ group'.file = Joined(group.file),
         group.file \in Watched' /\ group'.file # group.file => group.file \notin DOMAIN disk',
         \A g \in Watched' : g \in Watched \/ g = group'.file
  PROVE  MInv'
<1> DEFINE u == At(pc, f, "none", NoJob)
           g2 == group'.file
<1>1. proc' = [proc EXCEPT ![p] = u] /\ p \in Procs
  BY SizesTyped DEF Goto, Step
<1>2. Place(disk', closed, g2, p, u) /\ u.lock # "session" /\ u.pc = pc
  BY <1>1, PlaceIs
<1> HIDE DEF u
<1>3. Changes(disk', proc, group.file, p, u, g2, Watched')
  BY <1>2 DEF Changes, Free
<1> HIDE DEF g2
<1>4. Appears(disk, proc, closed, group.file, disk', p)
  BY NoneAppears
<1>5. DOMAIN disk' \subseteq Names
  BY DEF TypeInv, DiskTyped
<1>6. /\ proc \in [Procs -> Goroutine] /\ closed \in 0..N /\ closed <= closed
      /\ Watched \in SUBSET Names
      /\ Marked(disk, proc, closed, group.file, Watched) /\ p \in 1..closed
  BY <1>1, MarkedNow
<1>7. \A g \in Watched' : g \in Watched \/ g = g2
  BY DEF g2
<1>8. Marked(disk', [proc EXCEPT ![p] = u], closed, g2, Watched')
  BY <1>1, <1>2, <1>3, <1>4, <1>5, <1>6, <1>7, MarkedStep
<1> QED BY <1>1, <1>8 DEF MInv, g2

\* A file becomes the one the session holds.
LEMMA HoldMarks ==
  ASSUME TypeInv, TypeInv', MInv, NEW p \in Recs, proc[p].pc \notin {"idle", "done", "upload"},
         Free(p, "session"), UNCHANGED <<closed, stranded>>, NoNewDir(disk, disk'),
         NEW f \in Names, NEW cont, Hold(p, f, cont),
         f = Raw(p) \/ (group.file # NoFile /\ f = Joined(group.file)),
         group.file \in Watched' /\ f # group.file => group.file \notin DOMAIN disk'
  PROVE  MInv'
<1>1. /\ group'.file = f /\ Watched' \subseteq Watched \cup {f}
      /\ Goto(p, "done", NoFile, "none")
  BY DEF Hold, Finish, Watched
<1>2. f # NoFile
  BY NameIs, FileIs DEF NoFile
<1> QED BY <1>1, <1>2, MarkedSession

LEMMA HoldFirstMarks ==
  ASSUME TypeInv, TypeInv', MInv, NEW p \in Recs, HoldFirst(p)
  PROVE  MInv'
<1>1. /\ proc[p].pc = "session" /\ Free(p, "session") /\ group = NoGroup
      /\ UNCHANGED <<closed, disk, stranded>>
      /\ \/ Goto(p, "mindur", proc[p].file, "none") /\ UNCHANGED <<group, Watched>>
         \/ Hold(p, proc[p].file, reason[p] = "cont")
  BY DEF HoldFirst, source, Watched, settings
<1>2. /\ p \in Procs /\ proc[p].file = Raw(p) /\ Raw(p) \in Names
      /\ NoNewDir(disk, disk')
  BY <1>1, SizesTyped, DerivedNames, ProcIs, NoNewDirs DEF Named
<1>3. group.file = NoFile /\ NoFile \notin Names
  BY <1>1, NameIs, FileIs DEF NoGroup, NoFile
<1>4. Watched' \subseteq Names
  BY DEF TypeInv, RestTyped, Watched
<1> QED BY <1>1, <1>2, <1>3, <1>4, MarkedGoto, HoldMarks

\* The file is no longer marked, and the goroutine has the lock.
LEMMA ReleaseHeldMarks ==
  ASSUME TypeInv, TypeInv', MInv, NEW p \in Recs, ReleaseHeld(p)
  PROVE  MInv'
<1> DEFINE u == At("flush", proc[p].file, "session", NoJob)
<1>1. /\ proc[p].pc = "session" /\ Free(p, "session") /\ group # NoGroup
      /\ UNCHANGED <<closed, disk, group>> /\ Watched' = Watched \ {group.file}
      /\ proc' = [proc EXCEPT ![p] = u]
  BY DEF ReleaseHeld, source, Goto, Step, Watched, settings
<1>2. u.pc = "flush" /\ u.lock = "session"
  BY AtIs
<1> HIDE DEF u
<1>3. /\ proc \in [Procs -> Goroutine] /\ closed \in 0..N /\ closed <= closed
      /\ Watched \in SUBSET Names /\ DOMAIN disk \subseteq Names
      /\ Marked(disk, proc, closed, group.file, Watched)
      /\ p \in 1..closed /\ p # Scan /\ ~(p > closed) /\ p \in Procs
  BY <1>1, SizesTyped, MarkedNow
<1>4. group.file # NoFile
  BY <1>1 DEF MInv
<1>5. Place(disk, closed, group.file, p, u)
  BY <1>2, <1>3, <1>4 DEF Place, InSessionLock
<1>6. Appears(disk, proc, closed, group.file, disk, p)
  BY NoneAppears, NoNewDirs
<1>7. Changes(disk, proc, group.file, p, u, group.file, Watched')
  BY DEF Changes
<1>8. \A q \in Procs \ {p} : proc[q].lock # "session"
  BY <1>1 DEF Free
<1>9. \A f \in Watched' : f \in Watched
  BY <1>1
<1>10. proc[p].pc # "done" /\ proc[p].pc # "upload" /\ u.pc # "done"
  BY <1>1, <1>2
<1>11. Marked(disk, [proc EXCEPT ![p] = u], closed, group.file, Watched')
  BY <1>2, <1>3, <1>5, <1>6, <1>7, <1>8, <1>9, <1>10, MarkedStep
<1> QED BY <1>1, <1>11 DEF MInv

\* Who is under the session lock has the file it holds.
LEMMA InLock ==
  ASSUME TypeInv, MInv, NEW p \in Recs, proc[p].lock = "session" \/ proc[p].pc \in {"flush", "regroup", "deliver"}
  PROVE  /\ p \in Procs /\ proc[p].lock = "session" /\ Free(p, "session")
         /\ InSessionLock(disk, group.file, proc[p])
<1>1. p \in Procs
  BY SizesTyped
<1>2. proc[p].lock = "session" /\ InSessionLock(disk, group.file, proc[p])
  BY <1>1, MarkedNow DEF Place
<1> QED BY <1>1, <1>2, HoldsAlone

LEMMA FlushSessionEntryMarks ==
  ASSUME TypeInv, TypeInv', MInv, NEW p \in Recs, FlushSessionEntry(p)
  PROVE  MInv'
<1>1. /\ proc[p].pc = "flush" /\ UNCHANGED <<closed, stranded>> /\ disk' = Without(disk, {group.file})
      /\ \/ Goto(p, "mindur", proc[p].file, "none") /\ UNCHANGED <<group, Watched>>
         \/ Hold(p, proc[p].file, FALSE)
  BY DEF FlushSessionEntry, Deliver, source, Watched, settings
<1>2. /\ p \in Procs /\ proc[p].file = Raw(p) /\ Raw(p) \in Names /\ Free(p, "session")
      /\ NoNewDir(disk, disk')
  BY <1>1, InLock, DerivedNames, ProcIs, NoNewDirs DEF Named
<1>3. group.file \notin DOMAIN disk'
  BY <1>1 DEF Without, Restrict
<1> QED BY <1>1, <1>2, <1>3, MarkedGoto, HoldMarks

LEMMA RegroupMarks ==
  ASSUME TypeInv, TypeInv', MInv, NEW p \in Recs, Regroup(p)
  PROVE  MInv'
<1>1. /\ proc[p].pc = "regroup" /\ Hold(p, proc[p].file, TRUE) /\ UNCHANGED <<closed, disk, stranded>>
  BY DEF Regroup, source, settings
<1>2. /\ p \in Procs /\ Free(p, "session") /\ InSessionLock(disk, group.file, proc[p])
  BY <1>1, InLock
<1>3. proc[p].file \in Names /\ NoNewDir(disk, disk')
  BY <1>1, <1>2, ProcIs, NoNewDirs DEF Named, PCs
<1>4. /\ group.file # NoFile /\ proc[p].file = Joined(group.file)
      /\ proc[p].file # group.file => group.file \notin DOMAIN disk
  BY <1>1, <1>2 DEF InSessionLock
<1> QED BY <1>1, <1>2, <1>3, <1>4, HoldMarks

LEMMA DeliverSessionMarks ==
  ASSUME TypeInv, TypeInv', MInv, NEW p \in Recs, DeliverSession(p)
  PROVE  MInv'
<1>1. /\ proc[p].pc = "deliver" /\ Goto(p, "done", NoFile, "none") /\ UNCHANGED closed
      /\ group' = NoGroup /\ Watched' = Watched \ {group.file}
      /\ disk' = Without(disk, {proc[p].file})
  BY DEF DeliverSession, Deliver, Finish, source, Watched, settings
<1>2. Free(p, "session") /\ NoNewDir(disk, disk') /\ group'.file = NoFile
  BY <1>1, InLock, NoNewDirs DEF NoGroup
<1> QED BY <1>1, <1>2, MarkedSession

\* A step that leaves the session and the markers alone, the lock held or not.
LEMMA MarkedWork ==
  ASSUME TypeInv, TypeInv', MInv, NEW p \in Procs, NEW u, proc' = [proc EXCEPT ![p] = u],
         p \in Recs => proc[p].pc \notin {"done", "idle"}, proc[p].pc # "upload",
         UNCHANGED <<closed, group, Watched>>,
         Appears(disk, proc, closed, group.file, disk', p),
         Place(disk', closed, group.file, p, u), u.lock = "session" => Free(p, "session")
  PROVE  MInv'
<1>1. /\ proc \in [Procs -> Goroutine] /\ closed \in 0..N /\ closed <= closed
      /\ Watched \in SUBSET Names
      /\ Marked(disk, proc, closed, group.file, Watched)
      /\ p \in Recs => p \in 1..closed
  BY MarkedNow
<1>2. DOMAIN disk' \subseteq Names
  BY DEF TypeInv, DiskTyped
<1>3. u.lock = "session" => \A q \in Procs \ {p} : proc[q].lock # "session"
  BY DEF Free
<1>4. Changes(disk', proc, group.file, p, u, group.file, Watched)
  BY DEF Changes
<1>5. u.pc = "done" => p = Scan \/ p \in 1..closed
  BY <1>1, SizesTyped
<1>6. Marked(disk', [proc EXCEPT ![p] = u], closed, group.file, Watched)
  BY <1>1, <1>2, <1>3, <1>4, <1>5, MarkedStep
<1> QED BY <1>6 DEF MInv

\* A merge of the session begins, or the held file has gone; one that fails leaves
\* it marked, unheld and stranded.
LEMMA MergeTwoFilesMarks ==
  ASSUME TypeInv, TypeInv', MInv, NEW p \in Recs, MergeTwoFiles(p)
  PROVE  MInv'
<1> DEFINE a == group.file
           b == proc[p].file
           tmp == File("sessiontmp", Joined(a).base + 1, 0)
           then == IF reason[p] = "end" THEN "deliver" ELSE "regroup"
           j == [del |-> <<a, b>>, tmp |-> tmp, dst |-> Joined(a), then |-> then]
           u == At("publish", b, "session", j)
<1>1. /\ proc[p].pc = "session" /\ Free(p, "session") /\ group # NoGroup /\ UNCHANGED closed
      /\ \/ /\ disk' = Put(disk, tmp, disk[a] \cup disk[b])
            /\ proc' = [proc EXCEPT ![p] = u] /\ UNCHANGED <<group, Watched>>
         \/ /\ a \notin DOMAIN disk \/ a \notin Watched'
            /\ Watched' \subseteq Watched /\ group' = NoGroup
            /\ Goto(p, "mindur", b, "none") /\ UNCHANGED disk
  BY DEF MergeTwoFiles, source, Exists, Step, Watched
<1>2. p \in Procs /\ tmp.kind = "sessiontmp" /\ a # NoFile
  BY <1>1, SizesTyped, FileIs DEF MInv
<1>3. /\ j.tmp = tmp /\ j.dst = Joined(a) /\ j.then \in {"regroup", "deliver"}
      /\ a \in Range(j.del)
  <2>1. <<a, b>>[1] = a /\ 1 \in DOMAIN <<a, b>>
    OBVIOUS
  <2>2. a \in Range(<<a, b>>)
    BY <2>1 DEF Range
  <2> QED BY <2>2
<1>4. ASSUME a \notin DOMAIN disk \/ a \notin Watched', Watched' \subseteq Watched, group' = NoGroup,
             Goto(p, "mindur", b, "none"), UNCHANGED disk
      PROVE  MInv'
  <2>1. NoNewDir(disk, disk') /\ group'.file = NoFile
    BY <1>4, NoNewDirs DEF NoGroup
  <2> QED BY <1>1, <1>4, <2>1, MarkedSession
<1> HIDE DEF tmp, j
<1>5. ASSUME disk' = Put(disk, tmp, disk[a] \cup disk[b]),
             proc' = [proc EXCEPT ![p] = u], UNCHANGED <<group, Watched>>
      PROVE  MInv'
  <2>1. u.pc = "publish" /\ u.lock = "session" /\ u.job = j
    BY AtIs
  <2> HIDE DEF u
  <2>2. ~(p > closed) /\ p # Scan
    BY <1>1, <1>2, MarkedNow
  <2>3. Place(disk', closed, a, p, u)
    BY <1>2, <1>3, <2>1, <2>2 DEF Place, InSessionLock
  <2>4. Appears(disk, proc, closed, a, disk', p)
    BY <1>2, <1>5, NoNewDirs, NoneAppears
  <2> QED BY <1>1, <1>2, <1>5, <2>3, <2>4, MarkedWork
<1> QED BY <1>1, <1>4, <1>5

LEMMA DeleteInputMarks ==
  ASSUME TypeInv, TypeInv', MInv, NEW p \in Procs, DeleteInput(p)
  PROVE  MInv'
<1> DEFINE j == proc[p].job
           i == [j EXCEPT !.del = Tail(@)]
           u == At("publish", proc[p].file, proc[p].lock, i)
           x == Head(j.del)
<1>1. /\ proc[p].pc = "publish" /\ j.del # <<>>
      /\ proc' = [proc EXCEPT ![p] = u]
      /\ UNCHANGED <<closed, group, Watched>>
  BY DEF DeleteInput, Step, source, Watched, settings
<1>2. DOMAIN disk' = DOMAIN disk \ {x}
  BY DEF DeleteInput, Without, Restrict
<1>3. j \in Job
  BY ProcIs DEF Goroutine
<1>4. i.tmp = j.tmp /\ i.dst = j.dst /\ i.then = j.then /\ i.del = Tail(j.del)
  BY <1>3 DEF Job
<1>5. Range(j.del) \subseteq Range(i.del) \cup {x}
  BY <1>1, <1>3, <1>4, RangeTail DEF Job
<1>6. u.pc = "publish" /\ u.lock = proc[p].lock /\ u.job = i
  BY AtIs
<1> HIDE DEF i, u, x
<1>7. Place(disk, closed, group.file, p, proc[p])
  BY MarkedNow
<1>8. ASSUME u.lock = "session" PROVE InSessionLock(disk', group.file, u)
  BY <1>1, <1>2, <1>4, <1>5, <1>6, <1>7, <1>8 DEF Place, InSessionLock
<1>9. Place(disk', closed, group.file, p, u)
  BY <1>1, <1>4, <1>6, <1>7, <1>8 DEF Place
<1>10. u.lock = "session" => Free(p, "session")
  <2>1. u.lock = "session" => p \in Recs
    BY <1>6, <1>7, SizesTyped DEF Place
  <2> QED BY <1>6, <2>1, HoldsAlone
<1>11. Appears(disk, proc, closed, group.file, disk', p)
  BY <1>2 DEF Appears
<1> QED BY <1>1, <1>9, <1>10, <1>11, MarkedWork

\* A rewrite's output takes its name: the recording's own, a segment's, or that
\* of the file the session holds.
LEMMA PublishOutputMarks ==
  ASSUME TypeInv, TypeInv', MInv, NEW p \in Procs, PublishOutput(p)
  PROVE  MInv'
<1> DEFINE j == proc[p].job
           u == At(j.then, j.dst, proc[p].lock, j)
           g == group.file
<1>1. /\ proc[p].pc = "publish" /\ j.del = <<>>
      /\ UNCHANGED <<closed, group, Watched>>
      /\ (j.then = "done" /\ Finish(p)) \/ (j.then # "done" /\ proc' = [proc EXCEPT ![p] = u])
  BY DEF PublishOutput, Step, source, Watched, settings
<1>2. \A f \in DOMAIN disk' \ DOMAIN disk : f = j.dst
  BY DEF PublishOutput, Rename, Put, Without, Restrict
<1>3. /\ proc[p] \in Goroutine /\ Named(p, proc[p])
      /\ Place(disk, closed, g, p, proc[p]) /\ HeldOK(proc, closed, g) /\ closed \in 0..N
      /\ p \in Recs => p \in 1..closed /\ ~(p > closed)
      /\ p = Scan => ~(p > closed)
  BY <1>1, ProcIs, MarkedNow
<1>4. u.pc = j.then /\ u.lock = proc[p].lock /\ u.job = j /\ u.file = j.dst
  BY AtIs
<1> HIDE DEF u, j, g
<1>5. CASE proc[p].lock = "none"
  <2>1. p \in Recs /\ j.then = "session" /\ j.dst = Raw(p)
    BY <1>1, <1>3, <1>5, SizesTyped DEF Place, Named, j
  <2>2. \A r \in 1..closed : r \in Int /\ (Raw(p) = Raw(r) => r = p) /\ Raw(p) # Half(r)
    BY <1>3, <2>1, SizesTyped, OwnNamesDiffer
  <2>3. ~Gone(proc, closed, g, Raw(p))
    BY <1>1, <2>2 DEF Gone
  <2>4. Raw(p) # g
    <3>1. p \in Int /\ NoFile.kind = "none"
      BY <2>1, SizesTyped, FileIs DEF NoFile
    <3>2. Raw(p) # NoFile
      BY <3>1, OwnNames
    <3> QED BY <1>1, <1>3, <2>2, <3>2 DEF HeldOK
  <2>5. Appears(disk, proc, closed, g, disk', p)
    BY <1>2, <2>1, <2>3, <2>4 DEF Appears
  <2>6. Place(disk', closed, g, p, u)
    BY <1>3, <1>4, <1>5, <2>1, SizesTyped DEF Place
  <2> QED BY <1>1, <1>4, <1>5, <2>1, <2>5, <2>6, MarkedWork DEF g
<1>6. CASE proc[p].lock = "merge"
  <2>1. j.then \in {"egress", "done", "orphan"} /\ j.dst.kind = "merged"
    BY <1>1, <1>3, <1>6 DEF Place, j
  <2>2. NoNewDir(disk, disk')
    BY <1>2, <2>1 DEF NoNewDir
  <2>3. Appears(disk, proc, closed, g, disk', p)
    BY <2>2, NoneAppears
  <2>4. j.then # "done" => Place(disk', closed, g, p, u)
    BY <1>3, <1>4, <1>6, <2>1, SizesTyped DEF Place
  <2>5. CASE j.then # "done"
    BY <1>1, <1>4, <1>6, <2>3, <2>4, <2>5, MarkedWork DEF g
  <2>6. CASE j.then = "done"
    BY <1>1, <2>2, <2>6, MarkedFinish
  <2> QED BY <2>5, <2>6
<1>7. CASE proc[p].lock = "session"
  <2>1. p \in Recs /\ InSessionLock(disk, g, proc[p])
    BY <1>3, <1>7, SizesTyped DEF Place
  <2>2. /\ j.then \in {"regroup", "deliver"} /\ j.dst = Joined(g) /\ g # NoFile
        /\ g \in Range(j.del) \/ g \notin DOMAIN disk
    BY <1>1, <2>1 DEF InSessionLock, j
  <2>3. g \notin DOMAIN disk
    BY <1>1, <2>2 DEF Range
  <2>4. g = j.dst \/ g \notin DOMAIN disk'
    BY <1>2, <2>3
  <2>5. Place(disk', closed, g, p, u)
    BY <1>3, <1>4, <1>7, <2>1, <2>2, <2>4, SizesTyped DEF Place, InSessionLock
  <2>6. ~Gone(proc, closed, g, j.dst)
    <3>1. PICK s \in 1..closed : g \in {Raw(s), Half(s)}
      BY <1>3, <2>2 DEF HeldOK
    <3>2. j.dst = Half(s)
      BY <1>3, <2>2, <3>1, JoinedName
    <3>3. \A r \in 1..closed : Half(s) # Raw(r) /\ (Half(s) = Half(r) => s = r)
      BY <1>3, SizesTyped, OwnNamesDiffer
    <3> QED BY <3>1, <3>2, <3>3 DEF Gone
  <2>7. Appears(disk, proc, closed, g, disk', p)
    BY <1>2, <1>7, <2>6 DEF Appears
  <2>8. Free(p, "session")
    BY <1>7, <2>1, HoldsAlone
  <2> QED BY <1>1, <2>2, <2>5, <2>7, <2>8, MarkedWork DEF g
<1> QED BY <1>3, <1>5, <1>6, <1>7 DEF Goroutine

\* The merge of a session that cannot be renamed lets go of the file it held,
\* which is gone.
LEMMA RenameFailsMarks ==
  ASSUME TypeInv, TypeInv', MInv, NEW p \in Procs, RenameFails(p)
  PROVE  MInv'
<1> DEFINE j == proc[p].job
           u == At(j.then, j.tmp, proc[p].lock, j)
           g == group.file
<1>1. /\ proc[p].pc = "publish" /\ j.del = <<>>
      /\ UNCHANGED <<closed, Watched>>
      /\ \/ j.tmp.kind = "merging" /\ j.then # "done" /\ proc' = [proc EXCEPT ![p] = u]
         \/ Goto(p, "done", NoFile, "none")
      /\ group' = IF proc[p].lock = "session" THEN NoGroup ELSE group
  BY DEF RenameFails, Finish, Step, source, Watched, settings
<1>2. DOMAIN disk' \subseteq DOMAIN disk
  BY DEF RenameFails, Without, Restrict
<1>3. /\ proc[p] \in Goroutine /\ Named(p, proc[p]) /\ Place(disk, closed, g, p, proc[p])
      /\ ~(p > closed)
  BY <1>1, SizesTyped, ProcIs, MarkedNow
<1>4. u.pc = j.then /\ u.lock = proc[p].lock /\ u.job = j
  BY AtIs
<1>5. NoNewDir(disk, disk') /\ Appears(disk, proc, closed, g, disk', p)
  BY <1>2 DEF NoNewDir, Appears
<1> HIDE DEF u, j, g
<1>6. CASE proc[p].lock = "session"
  <2>1. p \in Recs /\ InSessionLock(disk, g, proc[p]) /\ Free(p, "session")
    BY <1>3, <1>6, SizesTyped, HoldsAlone DEF Place
  <2>2. j.tmp.kind # "merging" /\ (g \in Range(j.del) \/ g \notin DOMAIN disk)
    BY <1>1, <2>1 DEF InSessionLock, j
  <2>3. g \notin DOMAIN disk'
    BY <1>1, <1>2, <2>2 DEF Range
  <2>4. group' = NoGroup /\ group'.file = NoFile /\ Goto(p, "done", NoFile, "none")
    BY <1>1, <1>6, <2>2 DEF NoGroup
  <2> QED BY <1>1, <1>5, <2>1, <2>3, <2>4, MarkedSession DEF g
<1>7. CASE proc[p].lock = "none"
  <2>1. p \in Recs \/ p = Scan
    BY SizesTyped
  <2>2. j.tmp.kind # "merging"
    BY <1>1, <1>3, <1>7 DEF Place, Named, j
  <2> QED BY <1>1, <1>5, <1>7, <2>2, MarkedFinish DEF Finish
<1>8. CASE proc[p].lock = "merge"
  <2>1. j.then \in {"egress", "done", "orphan"}
    BY <1>1, <1>3, <1>8 DEF Place, j
  <2>2. j.then # "done" => Place(disk', closed, g, p, u)
    BY <1>3, <1>4, <1>8, <2>1 DEF Place
  <2>3. group' = group
    BY <1>1, <1>8
  <2>4. ASSUME j.then # "done", proc' = [proc EXCEPT ![p] = u] PROVE MInv'
    BY <1>1, <1>4, <1>5, <1>8, <2>2, <2>3, <2>4, MarkedWork DEF g
  <2> QED BY <1>1, <1>5, <2>3, <2>4, MarkedFinish DEF Finish
<1> QED BY <1>3, <1>6, <1>7, <1>8 DEF Goroutine

\* A merge of segments begins.
LEMMA MergeVideosMarks ==
  ASSUME TypeInv, TypeInv', MInv, NEW p \in Procs, NEW d, NoNewDir(disk, d),
         NEW more, NEW del, NEW then \in {"done", "egress", "orphan"}, MergeVideos(p, d, more, del, then),
         p \in Recs => proc[p].pc \notin {"done", "idle"}, proc[p].pc # "upload",
         UNCHANGED <<closed, group, Watched>>
  PROVE  MInv'
<1> DEFINE segs == Segments(d)
           s == Scratch(segs)
           j == [del |-> del, tmp |-> s, dst |-> MergedName(segs), then |-> then]
           u == At("publish", NoFile, "merge", j)
           c == UNION {d[f] : f \in segs \cup more}
<1>1. disk' = Put(d, s, c) /\ proc' = [proc EXCEPT ![p] = u]
  BY DEF MergeVideos, Step
<1>2. s.kind # "dir" /\ j.dst.kind = "merged" /\ j.then = then
  BY FileIs DEF Scratch, MergedName
<1>3. u.pc = "publish" /\ u.lock = "merge" /\ u.job = j
  BY AtIs
<1> HIDE DEF segs, s, j, u, c
<1>4. NoNewDir(disk, disk')
  BY <1>1, <1>2, NoNewDirs
<1>5. ~(p > closed)
  BY SizesTyped, MarkedNow
<1>6. Place(disk', closed, group.file, p, u)
  BY <1>2, <1>3, <1>5 DEF Place
<1> QED BY <1>1, <1>3, <1>4, <1>6, MarkedMove

LEMMA MinDurationLongMarks ==
  ASSUME TypeInv, TypeInv', MInv, NEW p \in Recs, MinDurationLong(p)
  PROVE  MInv'
<1> DEFINE f == proc[p].file
<1>1. PICK bad \in Suspects :
         LET d == Quarantined(disk, bad)
             segs == Segments(d)
         IN
         \/ segs = {} /\ Checked(bad) /\ disk' = d /\ Goto(p, "egress", f, "none")
         \/ segs # {} /\ Checked(bad) /\ MergeVideos(p, d, {f}, InOrder(segs) \o <<f>>, "egress")
         \/ /\ segs # {} /\ bad = {} /\ Fails("merge")
            /\ disk' = Rename(d, f, Parked(f)) /\ Finish(p)
         \/ /\ segs # {} /\ bad = {} /\ Fails("probe")
            /\ MergeVideos(p, d, {f}, <<f>> \o InOrder(segs), "done")
  BY DEF MinDurationLong
<1> DEFINE d == Quarantined(disk, bad)
           s == InOrder(Segments(d))
           g == Parked(f)
<1>2. /\ proc[p].pc = "mindur" /\ UNCHANGED <<closed, group, Watched>>
      /\ \/ disk' = d /\ Goto(p, "egress", f, "none")
         \/ MergeVideos(p, d, {f}, s \o <<f>>, "egress")
         \/ disk' = Rename(d, f, g) /\ Finish(p)
         \/ MergeVideos(p, d, {f}, <<f>> \o s, "done")
  BY <1>1 DEF MinDurationLong, source, Watched, settings
<1>3. g.kind # "dir" /\ p \in Procs /\ NoNewDir(disk, d)
  <2>1. g.kind # "dir" /\ p \in Procs
    BY FileIs, SizesTyped DEF Parked
  <2>2. NoNewDir(disk, d)
    BY NoNewDirs
  <2> QED BY <2>1, <2>2
<1> HIDE DEF d, s, f, g
<1>4. NoNewDir(disk, Rename(d, f, g))
  BY <1>3, NoNewDirs
<1>5. ASSUME disk' = d, Goto(p, "egress", f, "none") PROVE MInv'
  BY <1>2, <1>3, <1>5, MarkedGoto
<1>6. ASSUME disk' = Rename(d, f, g), Finish(p) PROVE MInv'
  BY <1>2, <1>3, <1>4, <1>6, MarkedFinish
<1>7. ASSUME NEW del, NEW then \in {"egress", "done"}, MergeVideos(p, d, {f}, del, then) PROVE MInv'
  BY <1>2, <1>3, <1>7, MergeVideosMarks
<1> QED BY <1>2, <1>5, <1>6, <1>7

LEMMA MinDurationUnreadMarks ==
  ASSUME TypeInv, TypeInv', MInv, NEW p \in Recs, MinDurationUnread(p)
  PROVE  MInv'
<1> DEFINE f == proc[p].file
           g == Parked(f)
<1>1. /\ proc[p].pc = "mindur" /\ Finish(p) /\ UNCHANGED <<closed, group, Watched>>
      /\ disk' = Rename(disk, f, g)
  BY DEF MinDurationUnread, source, Watched, settings
<1>2. g.kind # "dir" /\ p \in Procs
  BY FileIs, SizesTyped DEF Parked
<1> HIDE DEF f, g
<1>3. NoNewDir(disk, disk')
  BY <1>1, <1>2, NoNewDirs
<1> QED BY <1>1, <1>2, <1>3, MarkedFinish

LEMMA MinDurationShortMarks ==
  ASSUME TypeInv, TypeInv', MInv, NEW p \in Recs, MinDurationShort(p)
  PROVE  MInv'
<1> DEFINE f == proc[p].file
           g == Parked(f)
           parked == Rename(disk, f, g)
<1>1. PICK bad \in Suspects :
         LET d == Quarantined(parked, bad)
             segs == Segments(d)
             total == UNION {d[h] : h \in segs}
         IN
         \/ /\ Cardinality(segs) > 1 /\ Checked(bad)
            /\ MergeVideos(p, d, {}, InOrder(segs),
                 IF Long(total) \/ IsDefinitiveStop(reason[p]) THEN "egress" ELSE "done")
         \/ /\ Cardinality(segs) > 1 /\ bad = {} /\ Fails("merge")
            /\ disk' = d /\ Finish(p)
         \/ /\ Cardinality(segs) > 1 /\ bad = {} /\ Fails("probe")
            /\ MergeVideos(p, d, {}, InOrder(segs), "done")
         \/ /\ Cardinality(segs) <= 1 /\ Checked(bad) /\ disk' = d
            /\ IF segs # {} /\ IsDefinitiveStop(reason[p])
               THEN Goto(p, "orphan", CHOOSE h \in segs : TRUE, "merge")
               ELSE Finish(p)
  BY DEF MinDurationShort
<1> DEFINE d == Quarantined(parked, bad)
           segs == Segments(d)
           s == InOrder(segs)
           lone == CHOOSE h \in segs : TRUE
<1>2. /\ proc[p].pc = "mindur" /\ UNCHANGED <<closed, group, Watched>>
      /\ \/ \E then \in {"egress", "done"} : MergeVideos(p, d, {}, s, then)
         \/ disk' = d /\ Finish(p)
         \/ disk' = d /\ Goto(p, "orphan", lone, "merge")
  BY <1>1 DEF MinDurationShort, source, Watched, settings
<1>3. g.kind # "dir" /\ p \in Procs
  BY FileIs, SizesTyped DEF Parked
<1> HIDE DEF s, lone, f, g
<1>4. NoNewDir(disk, parked)
  BY <1>3, NoNewDirs
<1> HIDE DEF parked
<1>5. NoNewDir(disk, d)
  BY <1>4, NoNewDirs
<1> HIDE DEF d, segs
<1>6. ASSUME NEW then \in {"egress", "done"}, MergeVideos(p, d, {}, s, then) PROVE MInv'
  BY <1>2, <1>3, <1>5, <1>6, MergeVideosMarks
<1>7. ASSUME disk' = d, Finish(p) PROVE MInv'
  BY <1>2, <1>3, <1>5, <1>7, MarkedFinish
<1>8. ASSUME disk' = d, Goto(p, "orphan", lone, "merge") PROVE MInv'
  BY <1>2, <1>3, <1>5, <1>8, MarkedGoto
<1> QED BY <1>2, <1>6, <1>7, <1>8

\* The scan changes files, and no goroutine.
LEMMA FilesMarks ==
  ASSUME TypeInv, TypeInv', MInv, NoNewDir(disk, disk'), UNCHANGED <<closed, proc, group, Watched>>
  PROVE  MInv'
<1>1. Marked(disk, proc, closed, group.file, Watched) /\ HeldOK(proc, closed, group.file)
      /\ closed \in 0..N
  BY SizesTyped, MarkedNow
<1>2. group.file = NoFile \/ group.file.kind = "dir"
  BY <1>1, HeldIs
<1>3. group.file # NoFile /\ group.file \notin DOMAIN disk => group.file \notin DOMAIN disk'
  BY <1>2 DEF NoNewDir
<1>4. \A p \in Procs : Place(disk', closed, group.file, p, proc[p])
  BY <1>1, <1>3 DEF Marked, Place, InSessionLock
<1>5. ASSUME NEW f, Gone(proc, closed, group.file, f), f \notin DOMAIN disk
      PROVE  f \notin DOMAIN disk'
  <2>1. f.kind = "dir"
    BY <1>1, <1>5, Numbers DEF Gone
  <2> QED BY <1>5, <2>1 DEF NoNewDir
<1>6. MarkersOK(disk', proc, closed, group.file, Watched)
  BY <1>1, <1>5 DEF Marked, MarkersOK
<1>7. Marked(disk', proc, closed, group.file, Watched)
  BY <1>1, <1>4, <1>6 DEF Marked
<1> QED BY <1>7 DEF MInv

LEMMA ScanMainMarks ==
  ASSUME TypeInv, TypeInv', MInv, NEW f \in DOMAIN disk, ScanMain(f)
  PROVE  MInv'
<1> DEFINE g == Parked(f)
<1>1. /\ ScanIdle /\ UNCHANGED <<closed, group, Watched>>
      /\ \/ disk' = Rename(disk, f, g) /\ UNCHANGED proc
         \/ Goto(Scan, "orphan", f, "none") /\ UNCHANGED disk
  BY DEF ScanMain, source, Watched, settings
<1>2. g.kind # "dir"
  BY FileIs DEF Parked
<1> HIDE DEF g
<1>3. NoNewDir(disk, disk')
  BY <1>1, <1>2, NoNewDirs
<1>4. Scan \in Procs /\ Scan \notin Recs /\ proc[Scan].pc # "upload"
  BY <1>1, SizesTyped DEF ScanIdle
<1> QED BY <1>1, <1>3, <1>4, FilesMarks, MarkedGoto

LEMMA RemoveStaleScratchMarks ==
  ASSUME TypeInv, TypeInv', MInv, NEW f \in DOMAIN disk, RemoveStaleScratch(f)
  PROVE  MInv'
<1>1. disk' = Without(disk, {f}) /\ UNCHANGED <<closed, proc, group, Watched>>
  BY DEF RemoveStaleScratch, source, Watched, settings
<1> QED BY <1>1, NoNewDirs, FilesMarks

LEMMA ScanPendingMarks ==
  ASSUME TypeInv, TypeInv', MInv, NEW force \in BOOLEAN, ScanPending(force)
  PROVE  MInv'
<1> DEFINE recovered == RecoverMergeScratch(disk)
<1>1. PICK bad \in Suspects, aged \in Suspects :
         LET d == Quarantined(Without(recovered, aged), bad)
             segs == Segments(d)
             lone == CHOOSE g \in segs : TRUE
             goes == force \/ Long(UNION {d[g] : g \in segs})
         IN
         /\ aged \subseteq IF force THEN {} ELSE Segments(recovered)
         /\ bad \subseteq Segments(recovered) \ aged
         /\ discarded' = discarded \cup UNION {recovered[f] : f \in aged}
         /\ \/ /\ segs = {} /\ Checked(bad) /\ disk' = d /\ UNCHANGED proc
            \/ /\ Cardinality(segs) = 1 /\ Checked(bad) /\ disk' = d
               /\ IF goes /\ lone \notin inflight
                  THEN Goto(Scan, "orphan", lone, "merge") ELSE UNCHANGED proc
            \/ /\ Cardinality(segs) > 1 /\ Checked(bad)
               /\ MergeVideos(Scan, d, {}, InOrder(segs), IF goes THEN "orphan" ELSE "done")
            \/ /\ Cardinality(segs) > 1 /\ bad = {} /\ Fails("merge")
               /\ disk' = d /\ UNCHANGED proc
            \/ /\ Cardinality(segs) > 1 /\ bad = {} /\ Fails("probe")
               /\ MergeVideos(Scan, d, {}, InOrder(segs), "done")
  BY DEF ScanPending
<1> DEFINE w == Without(recovered, aged)
           d == Quarantined(w, bad)
           segs == Segments(d)
           s == InOrder(segs)
           lone == CHOOSE g \in segs : TRUE
<1>2. /\ ScanIdle /\ UNCHANGED <<closed, group, Watched>>
      /\ \/ \E then \in {"orphan", "done"} : MergeVideos(Scan, d, {}, s, then)
         \/ disk' = d /\ UNCHANGED proc
         \/ disk' = d /\ Goto(Scan, "orphan", lone, "merge")
  BY <1>1 DEF ScanPending, source, Watched, settings
<1>3. Scan \in Procs /\ Scan \notin Recs /\ proc[Scan].pc # "upload"
  BY <1>2, SizesTyped DEF ScanIdle
<1> HIDE DEF s, lone
<1>4. NoNewDir(disk, recovered)
  BY NoNewDirs
<1> HIDE DEF recovered
<1>5. NoNewDir(disk, w)
  BY <1>4, NoNewDirs
<1> HIDE DEF w
<1>6. NoNewDir(disk, d)
  BY <1>5, NoNewDirs
<1> HIDE DEF d, segs
<1>7. ASSUME NEW then \in {"orphan", "done"}, MergeVideos(Scan, d, {}, s, then) PROVE MInv'
  BY <1>2, <1>3, <1>6, <1>7, MergeVideosMarks
<1>8. ASSUME disk' = d, UNCHANGED proc PROVE MInv'
  BY <1>2, <1>6, <1>8, FilesMarks
<1>9. ASSUME disk' = d, Goto(Scan, "orphan", lone, "merge") PROVE MInv'
  BY <1>2, <1>3, <1>6, <1>9, MarkedGoto
<1> QED BY <1>2, <1>7, <1>8, <1>9

LEMMA CloseFileMarks ==
  ASSUME TypeInv, TypeInv', MInv, NEW why, NEW dur, CloseFile(why, dur)
  PROVE  MInv'
<1> DEFINE r == closed + 1
           u == At("queued", NoFile, "none", NoJob)
           g == group.file
<1>1. /\ r \in Recs /\ closed' = r /\ proc' = [proc EXCEPT ![r] = u]
      /\ UNCHANGED <<group, Watched>>
  BY DEF CloseFile, Goto, Step, Watched, settings
<1>2. DOMAIN disk' = DOMAIN disk \cup {Raw(r)}
  BY DEF CloseFile, Put
<1>3. u.pc = "queued" /\ u.lock = "none"
  BY AtIs
<1> HIDE DEF u
<1>4. /\ proc \in [Procs -> Goroutine] /\ closed \in 0..N
      /\ Watched \in SUBSET Names
      /\ Marked(disk, proc, closed, g, Watched) /\ HeldOK(proc, closed, g)
      /\ r \in Procs /\ Place(disk, closed, g, r, proc[r])
  BY <1>1, SizesTyped, MarkedNow
<1>5. r \in 0..N /\ closed <= r /\ r > closed /\ ~(r > r) /\ r # Scan /\ r \in Int
  BY <1>1, <1>4, SizesTyped
<1>6. proc[r].pc = "idle"
  BY <1>4, <1>5 DEF Place
<1>7. \A q \in 1..closed : q \in Int /\ q # r
  BY <1>4, <1>5
<1> HIDE DEF r, g
<1>8. ~Gone(proc, closed, g, Raw(r))
  BY <1>5, <1>7, OwnNamesDiffer DEF Gone
<1>9. Raw(r) # g
  <2>1. NoFile.kind = "none"
    BY FileIs DEF NoFile
  <2>2. Raw(r) # NoFile
    BY <1>5, <2>1, OwnNames
  <2> QED BY <1>4, <1>5, <1>7, <2>2, OwnNamesDiffer DEF HeldOK
<1>10. Appears(disk, proc, closed, g, disk', r)
  BY <1>2, <1>8, <1>9 DEF Appears
<1>11. Place(disk', r, g, r, u)
  BY <1>3, <1>5 DEF Place
<1>12. Changes(disk', proc, g, r, u, g, Watched)
  BY DEF Changes
<1>13. DOMAIN disk' \subseteq Names
  BY DEF TypeInv, DiskTyped
<1>14. Marked(disk', [proc EXCEPT ![r] = u], r, g, Watched)
  BY <1>3, <1>4, <1>5, <1>6, <1>10, <1>11, <1>12, <1>13, MarkedStep
<1> QED BY <1>1, <1>14 DEF MInv, g

LEMMA StartBatchMarks ==
  ASSUME TypeInv, TypeInv', MInv, StartBatch
  PROVE  MInv'
<1> DEFINE u == At("ready", NoFile, "none", NoJob)
           g == group.file
<1>1. /\ proc' = [p \in Procs |-> IF p \in Queued THEN u ELSE proc[p]]
      /\ UNCHANGED <<closed, disk, group, Watched>>
  BY DEF StartBatch, Watched, settings
<1>2. u.pc = "ready" /\ u.lock = "none"
  BY AtIs
<1> HIDE DEF u
<1>3. /\ Marked(disk, proc, closed, g, Watched) /\ closed \in 0..N
      /\ \A p \in Procs : proc'[p] = IF p \in Queued THEN u ELSE proc[p]
  BY <1>1, SizesTyped, MarkedNow
<1>4. \A p \in Queued : p \in Procs /\ p # Scan /\ proc[p].pc = "queued"
  BY SizesTyped DEF Queued
<1> HIDE DEF g
<1>5. ASSUME NEW p \in Procs PROVE Place(disk, closed, g, p, proc'[p])
  <2>1. Place(disk, closed, g, p, proc[p])
    BY <1>3 DEF Marked
  <2>2. CASE p \in Queued
    <3>1. ~(p > closed)
      BY <1>4, <2>1, <2>2 DEF Place
    <3> QED BY <1>2, <1>3, <1>4, <2>2, <3>1 DEF Place
  <2> QED BY <1>3, <2>1, <2>2
<1>6. OneSession(proc')
  BY <1>2, <1>3, SizesTyped DEF Marked, OneSession
<1>7. \A r \in 1..closed : r \in Procs /\ (proc[r].pc = "done" => proc'[r] = proc[r])
  BY <1>3, <1>4, SizesTyped
<1>8. HeldOK(proc', closed, g)
  BY <1>3, <1>7 DEF Marked, HeldOK
<1>9. \A f : Gone(proc, closed, g, f) => Gone(proc', closed, g, f)
  BY <1>7 DEF Gone
<1>10. \A f : Uploading(proc, f) => Uploading(proc', f)
  BY <1>3, <1>4 DEF Uploading
<1>11. MarkersOK(disk, proc', closed, g, Watched)
  BY <1>3, <1>9, <1>10 DEF Marked, MarkersOK
<1>12. Marked(disk, proc', closed, g, Watched)
  BY <1>5, <1>6, <1>8, <1>11 DEF Marked
<1> QED BY <1>1, <1>12 DEF MInv, g

\* At rest, nobody holds a lock and nothing is marked.
LEMMA AtRestMarks ==
  ASSUME NEW d, NEW cl \in 0..N, NEW pr,
         \A p \in Procs : \/ pr[p] = Idle
                          \/ ~(p > cl) /\ pr[p] = At("done", NoFile, "none", NoJob)
  PROVE  Marked(d, pr, cl, NoGroup.file, {})
<1>1. \A p \in Procs : pr[p].lock = "none" /\ pr[p].pc \in {"idle", "done"} /\ (p > cl => pr[p].pc = "idle")
  BY AtIs DEF Idle
<1>2. \A p \in Procs : Place(d, cl, NoGroup.file, p, pr[p])
  BY <1>1 DEF Place
<1>3. OneSession(pr)
  BY <1>1, SizesTyped DEF OneSession
<1> QED BY <1>2, <1>3 DEF Marked, HeldOK, MarkersOK, NoGroup

LEMMA CrashMarks ==
  ASSUME TypeInv, TypeInv', MInv, Crash
  PROVE  MInv'
<1>1. /\ proc' = [p \in Procs |-> IF p \in 1..closed THEN At("done", NoFile, "none", NoJob) ELSE Idle]
      /\ group' = NoGroup /\ Watched' = {} /\ UNCHANGED closed
  BY DEF Crash, source, Watched
<1>2. closed \in 0..N
  BY DEF TypeInv, SourceTyped
<1>3. \A p \in 1..closed : ~(p > closed)
  BY <1>2, SizesTyped
<1>4. \A p \in Procs : \/ proc'[p] = Idle
                       \/ ~(p > closed) /\ proc'[p] = At("done", NoFile, "none", NoJob)
  BY <1>1, <1>3
<1>5. Marked(disk', proc', closed, NoGroup.file, {})
  BY <1>2, <1>4, AtRestMarks
<1> QED BY <1>1, <1>5 DEF MInv

LEMMA InitMarks == Init => MInv
<1> SUFFICES ASSUME Init PROVE MInv
  OBVIOUS
<1>1. closed = 0 /\ proc = [p \in Procs |-> Idle] /\ group = NoGroup /\ Watched = {}
  BY DEF Init, Watched
<1>2. closed \in 0..N /\ \A p \in Procs : proc[p] = Idle
  BY <1>1, SizesTyped
<1>3. Marked(disk, proc, closed, NoGroup.file, {})
  BY <1>2, AtRestMarks
<1> QED BY <1>1, <1>3 DEF MInv

LEMMA NextMarks ==
  ASSUME TypeInv, MInv, [Next]_vars
  PROVE  MInv'
<1>1. TypeInv'
  BY NextTyped
<1>2. CASE Record
  <2>1. PICK why \in Reasons, d \in IF closed < N THEN Lengths[closed + 1] ELSE {} : CloseFile(why, d)
    BY <1>2 DEF Record
  <2> QED BY <1>1, <2>1, CloseFileMarks
<1>3. CASE FlushPending \/ ProcessPending
  BY <1>1, <1>3, StartBatchMarks DEF FlushPending, ProcessPending
<1>4. CASE Crash
  BY <1>1, <1>4, CrashMarks
<1>5. ASSUME NEW r \in Recs, PostProcess(r) PROVE MInv'
  <2>1. CASE ProcessPendingFile(r) \/ FinalizeRecording(r) \/ HoldFirst(r) \/ ReleaseHeld(r)
    BY <1>1, <2>1, ProcessPendingFileMarks, FinalizeRecordingMarks, HoldFirstMarks, ReleaseHeldMarks
  <2>2. CASE FlushSessionEntry(r) \/ MergeTwoFiles(r) \/ Regroup(r) \/ DeliverSession(r) \/ Vanished(r)
    BY <1>1, <2>2, FlushSessionEntryMarks, MergeTwoFilesMarks, RegroupMarks, DeliverSessionMarks, VanishedMarks
  <2>3. CASE MinDurationLong(r) \/ MinDurationUnread(r) \/ MinDurationShort(r)
    BY <1>1, <2>3, MinDurationLongMarks, MinDurationUnreadMarks, MinDurationShortMarks
  <2>4. CASE MoveToOutputDir(r) \/ CompressFile(r) \/ Compressed(r) \/ CompressFails(r)
    BY <1>1, <2>4, EgressMarks, CompressFileMarks
  <2> QED BY <1>5, <2>1, <2>2, <2>3, <2>4 DEF PostProcess
<1>6. ASSUME NEW p \in Procs, Work(p) PROVE MInv'
  BY <1>1, <1>6, DeleteInputMarks, PublishOutputMarks, RenameFailsMarks, BeginUploadMarks, EndUploadMarks DEF Work
<1>7. CASE OrphanScan \/ ScanPending(TRUE)
  BY <1>1, <1>7, ScanMainMarks, RemoveStaleScratchMarks, ScanPendingMarks DEF OrphanScan
<1>8. CASE UNCHANGED vars
  BY <1>8 DEF vars, MInv, Watched
<1> QED BY <1>2, <1>3, <1>4, <1>5, <1>6, <1>7, <1>8 DEF Next

\* A file marked as in flight is held for the session, or some goroutine is at
\* work on it, or its merge into the session failed, whatever else crashes, fails
\* or is re-encoded: no other marker hides a file from the scan for good.
THEOREM MarkersHaveOwners == Spec => []MarkersOwned
<1>1. MInv => MarkersOwned
  <2> SUFFICES ASSUME MInv, NEW f \in inflight, f \in DOMAIN disk, f \notin stranded,
                      f # group.file
               PROVE  \E p \in Procs : proc[p].pc \notin {"idle", "done"} /\ f = proc[p].file
    BY DEF MarkersOwned, InHand
  <2>1. Uploading(proc, f)
    BY DEF MInv, Marked, MarkersOK, Watched
  <2> QED BY <2>1 DEF Uploading
<1>2. Init => TypeInv /\ MInv
  BY InitTyped, InitMarks
<1>3. TypeInv /\ MInv /\ [Next]_vars => (TypeInv /\ MInv)'
  BY NextTyped, NextMarks
<1> QED BY <1>1, <1>2, <1>3, PTL DEF Spec
=============================================================================
