----------------------------- MODULE WatchProofs -----------------------------
(* What a watch writes is in the order of the stream (WrittenInOrder), without *)
(* a gap but those of failed downloads (NoneSkipped) and in files that can be  *)
(* played (FilesPlayable).  All three rest on Base, the types of the variables *)
(* with what pc tells of them.                                                 *)
EXTENDS Watch, FiniteSetTheorems, WellFoundedInduction, TLAPS

\* A transitive, irreflexive relation on a finite set has a minimal element.
LEMMA Least ==
  ASSUME NEW S, IsFiniteSet(S), S # {}, NEW R,
         \A x \in S : <<x, x>> \notin R,
         \A x, y, z \in S : <<x, y>> \in R /\ <<y, z>> \in R => <<x, z>> \in R
  PROVE  \E m \in S : \A k \in S : <<k, m>> \notin R
<1> DEFINE below(m) == {k \in S : <<k, m>> \in R}
           T == {below(m) : m \in S}
<1>1. \A m \in S : below(m) \in SUBSET S
  OBVIOUS
<1>2. \A m \in S : IsFiniteSet(below(m))
  BY <1>1, FS_Subset
<1>3. T \subseteq FiniteSubsetsOf(S) /\ T # {}
  <2>1. \A m \in S : below(m) \in FiniteSubsetsOf(S)
    <3> HIDE DEF below
    <3> QED BY <1>1, <1>2 DEF FiniteSubsetsOf
  <2> HIDE DEF below
  <2> QED BY <2>1
<1>4. IsWellFoundedOn(StrictSubsetOrdering(S), FiniteSubsetsOf(S))
  BY FS_StrictSubsetOrderingWellFounded
<1>5. \E D \in T : \A E \in T : ~ (<<E, D>> \in StrictSubsetOrdering(S))
  <2> HIDE DEF T
  <2> QED BY <1>3, <1>4, WFMin
<1>6. PICK m \in S : \A k \in S : ~ (<<below(k), below(m)>> \in StrictSubsetOrdering(S))
  <2>1. PICK D \in T : \A E \in T : ~ (<<E, D>> \in StrictSubsetOrdering(S))
    BY <1>5
  <2>2. PICK m \in S : D = below(m)
    OBVIOUS
  <2>3. \A k \in S : below(k) \in T
    OBVIOUS
  <2> HIDE DEF T, below
  <2> QED BY <2>1, <2>2, <2>3
<1>7. ASSUME NEW k \in S, <<k, m>> \in R PROVE FALSE
  <2>1. below(k) \subseteq below(m)
    BY <1>7
  <2>2. k \in below(m) /\ k \notin below(k)
    BY <1>7
  <2>3. <<below(k), below(m)>> \in StrictSubsetOrdering(S)
    <3>1. below(k) \in SUBSET S /\ below(m) \in SUBSET S /\ below(k) # below(m)
      BY <1>1, <2>2
    <3> HIDE DEF below
    <3> QED BY <2>1, <3>1 DEF StrictSubsetOrdering
  <2> QED BY <1>6, <2>3
<1> QED BY <1>7

LEMMA MinOK ==
  ASSUME NEW N \in Nat, NEW S \in SUBSET (1..N), S # {}
  PROVE  Min(S) \in S /\ \A m \in S : Min(S) <= m
<1>1. IsFiniteSet(S)
  <2>1. 1 \in Int /\ N \in Int
    OBVIOUS
  <2>2. IsFiniteSet(1..N)
    BY <2>1, FS_Interval
  <2> QED BY <2>2, FS_Subset
<1>2. PICK R : R = {p \in S \X S : p[1] < p[2]}
  OBVIOUS
<1>3. \A x, y \in S : <<x, y>> \in R <=> x < y
  BY <1>2
<1>4. /\ \A x \in S : <<x, x>> \notin R
      /\ \A x, y, z \in S : <<x, y>> \in R /\ <<y, z>> \in R => <<x, z>> \in R
  BY <1>3
<1>5. \E m \in S : \A k \in S : <<k, m>> \notin R
  BY <1>1, <1>4, Least
<1>6. \E m \in S : \A k \in S : m <= k
  <2>1. PICK m \in S : \A k \in S : <<k, m>> \notin R
    BY <1>5
  <2>2. \A k \in S : ~ (k < m)
    BY <1>3, <2>1
  <2>3. \A k \in S : k \in Int
    OBVIOUS
  <2> QED BY <2>2, <2>3
<1> QED BY <1>6 DEF Min

LEMMA MaxOK ==
  ASSUME NEW N \in Nat, NEW S \in SUBSET (1..N), S # {}
  PROVE  Max(S) \in S /\ \A m \in S : m <= Max(S)
<1>1. IsFiniteSet(S)
  <2>1. 1 \in Int /\ N \in Int
    OBVIOUS
  <2>2. IsFiniteSet(1..N)
    BY <2>1, FS_Interval
  <2> QED BY <2>2, FS_Subset
<1>2. PICK R : R = {p \in S \X S : p[1] > p[2]}
  OBVIOUS
<1>3. \A x, y \in S : <<x, y>> \in R <=> x > y
  BY <1>2
<1>4. /\ \A x \in S : <<x, x>> \notin R
      /\ \A x, y, z \in S : <<x, y>> \in R /\ <<y, z>> \in R => <<x, z>> \in R
  BY <1>3
<1>5. \E m \in S : \A k \in S : <<k, m>> \notin R
  BY <1>1, <1>4, Least
<1>6. \E m \in S : \A k \in S : k <= m
  <2>1. PICK m \in S : \A k \in S : <<k, m>> \notin R
    BY <1>5
  <2>2. \A k \in S : ~ (k > m)
    BY <1>3, <2>1
  <2>3. \A k \in S : k \in Int
    OBVIOUS
  <2> QED BY <2>2, <2>3
<1> QED BY <1>6 DEF Max

\* What is written, and the types of the variables.
Rec == [what : {"init", "video", "audio"}, n : Nat, map : [Tracks -> Nat], file : Nat]

Base ==
    /\ mode \in Modes /\ numbered \in BOOLEAN /\ made \in 0..MaxSegment[mode] /\ change \in Nat /\ width \in Nat \ {0}
    /\ pc \in {"poll", "audio", "inits", "walk", "ended"}
    /\ listed \in [Tracks -> SUBSET (1..made)] /\ todo \in [Tracks -> SUBSET (1..made)]
    /\ seen \in [Tracks -> SUBSET (1..made)] /\ last \in [Tracks -> 0..made]
    /\ got \in SUBSET (Tracks \X (1..made)) /\ failed \in SUBSET (Tracks \X (1..made))
    /\ map \in [Tracks -> Nat]
    /\ base \in [Tracks -> Nat]
    /\ init \in [Tracks -> Nat]
    /\ fresh \in BOOLEAN /\ file \in Nat /\ out \in Seq(Rec)
    /\ mode # "timed" => got = {}
    /\ pc \in {"poll", "audio", "inits"} => \A t \in Of(mode) : todo[t] = {}
    /\ pc = "walk" /\ mode = "video" => todo["video"] # {}
    /\ pc \in {"audio", "inits"} => mode # "video"

\* What is written is taken up, and before all that is to come or waits.
Behind ==
    \A i \in DOMAIN out : \A t \in Tracks : out[i].what = t =>
        /\ out[i].n <= last[t]
        /\ \A m \in todo[t] : out[i].n < m
        /\ \A m \in 1..made : <<t, m>> \in got => out[i].n < m

\* Where the time stamps of a track count from: nothing fetched is from before.
Shifted ==
    mode = "timed" => \A t \in Tracks :
        /\ base[t] <= last[t]
        /\ \A m \in todo[t] : base[t] <= m
        /\ \A m \in 1..made : <<t, m>> \in got => base[t] # 0 /\ base[t] <= m

\* A single playlist takes up a segment as it fetches it, two take up whole lists.
TakenUp ==
    IF mode = "video" THEN pc = "walk" => \A m \in todo["video"] : last["video"] < m
    ELSE \A t \in Tracks : /\ \A m \in todo[t] : m <= last[t]
                           /\ \A m \in 1..made : <<t, m>> \in got => m <= last[t]
Order == InOrder /\ Behind /\ TakenUp /\ Shifted

\* What was taken up, or is about to be, was listed before or has left the playlist.
Settled(t) ==
    \A n \in 1..made :
        n <= last[t] \/ (\E k \in todo[t] : n <= k) => n \in seen[t] \/ Expired(n)

\* With two playlists: what is listed again was seen, and a list has no gaps.
Scanned(t) ==
    \A n \in 1..made :
        /\ n \in listed[t] /\ n <= last[t] => n \in seen[t]
        /\ \A k \in listed[t] : n <= k => n \in listed[t] \/ Expired(n)

\* With one: what was listed after something that is to come is to come as well.
Closed(t) == \A n \in seen[t] : \A k \in todo[t] : k < n => n \in todo[t]

Covered ==
    \A t \in Of(mode) : Settled(t) /\ IF mode = "video" THEN Closed(t) ELSE Scanned(t)

\* n waits for a poll since the download of one before it failed.
Left(t, n) ==
    \E m \in 1..n-1 : <<t, m>> \in failed /\ \A k \in m+1..n : <<t, k>> \notin Written

\* No listed segment is out of sight.
Kept ==
    pc # "ended" => \A t \in Of(mode) : \A n \in seen[t] :
        \/ <<t, n>> \in Written \cup failed \cup got
        \/ n \in todo[t]
        \/ mode = "video" /\ Left(t, n) /\ (pc = "walk" \/ n <= last[t] => Expired(n))

\* A file that is not fresh ends with the init in use and media behind it.
LastInit ==
    ~fresh => \E j \in DOMAIN out :
        /\ out[j].what = "init" /\ out[j].file = file /\ out[j].map = init
        /\ \A k \in j+1..Len(out) : out[k].what # "init"

\* The init in use is the one of the maps the watch has taken up.
Inits ==
    /\ LastInit
    /\ mode = "video" => map = init /\ map["audio"] = 0
    /\ mode # "video" =>
         /\ (\A t \in Tracks : map[t] # 0) => init = map
         /\ pc = "walk" => \A t \in Tracks : map[t] # 0

LEMMA PicksPositive == Picks \subseteq Nat \ {0}
<1> SUFFICES ASSUME NEW o \in Offers, PickPlaylist(o) # 0
             PROVE  PickPlaylist(o) \in Nat \ {0}
  BY DEF Picks
<1>1. o \subseteq Nat \ {0} /\ Target \in Nat
  BY WatchAssumption
<1>2. CASE Target \in o
  BY <1>1, <1>2 DEF PickPlaylist
<1>3. CASE Target \notin o /\ Below(o) # {}
  <2>1. Below(o) \in SUBSET (1..Target)
    <3> SUFFICES ASSUME NEW w \in Below(o) PROVE w \in 1..Target
      OBVIOUS
    <3>1. w \in Nat /\ w # 0 /\ w < Target
      BY <1>1 DEF Below
    <3> QED BY <1>1, <3>1
  <2>2. Max(Below(o)) \in Below(o)
    BY <1>1, <1>3, <2>1, MaxOK
  <2> QED BY <1>1, <1>3, <2>1, <2>2 DEF PickPlaylist
<1> QED BY <1>2, <1>3 DEF PickPlaylist

LEMMA MapPositive ==
  ASSUME Base, NEW n \in Nat
  PROVE  MapOf(n) \in Nat \ {0}
BY DEF Base, MapOf

LEMMA MediaRecord ==
  ASSUME Base, NEW t \in Tracks, NEW n \in Nat
  PROVE  /\ Media(t, n) \in Rec
         /\ Media(t, n).what = t /\ Media(t, n).n = n /\ Media(t, n).file = file
         /\ Media(t, n).map = [Zero EXCEPT ![t] = MapOf(n)]
<1>1. MapOf(n) \in Nat
  BY MapPositive
<1>2. [Zero EXCEPT ![t] = MapOf(n)] \in [Tracks -> Nat]
  BY <1>1 DEF Zero
<1>3. t \in {"init", "video", "audio"} /\ file \in Nat
  BY DEF Tracks, Base
<1> QED BY <1>2, <1>3 DEF Media, Rec

LEMMA InitRecord ==
  ASSUME Base, NEW m \in [Tracks -> Nat]
  PROVE  /\ InitOf(m) \in Rec
         /\ InitOf(m).what = "init" /\ InitOf(m).file = file /\ InitOf(m).map = m
<1>1. file \in Nat
  BY DEF Base
<1> QED BY <1>1 DEF InitOf, Rec

LEMMA Appended ==
  ASSUME NEW R, NEW a \in Seq(R), NEW b \in Seq(R)
  PROVE  /\ a \o b \in Seq(R) /\ Len(a \o b) = Len(a) + Len(b)
         /\ \A i \in 1..Len(a) : (a \o b)[i] = a[i]
         /\ \A i \in 1..Len(b) : (a \o b)[Len(a) + i] = b[i]
OBVIOUS

\* What a file opens with.
Opening == IF fresh /\ init # Zero THEN <<InitOf(init)>> ELSE <<>>

LEMMA OpeningOK ==
  ASSUME Base
  PROVE  Opening \in Seq(Rec) /\ Len(Opening) \in 0..1
<1>1. InitOf(init) \in Rec
  BY InitRecord DEF Base
<1> QED BY <1>1 DEF Opening

\* What WriteMedia does to the files: perhaps the init segment, then the media.
LEMMA MediaWritten ==
  ASSUME Base, NEW segs \in Seq(Rec), WriteMedia(segs)
  PROVE  /\ out' \in Seq(Rec) /\ Len(out') = Len(out) + Len(Opening) + Len(segs)
         /\ \A i \in 1..Len(out) : out'[i] = out[i]
         /\ \A i \in 1..Len(Opening) : out'[Len(out) + i] = Opening[i]
         /\ \A i \in 1..Len(segs) : out'[Len(out) + Len(Opening) + i] = segs[i]
         /\ init' = init /\ file' \in Nat /\ fresh' \in BOOLEAN
         /\ ~fresh' => file' = file
<1>1. out \in Seq(Rec) /\ Opening \in Seq(Rec) /\ file \in Nat
  BY OpeningOK DEF Base
<1>2. out' = (out \o Opening) \o segs /\ init' = init
  BY DEF WriteMedia, Opening
<1>3. fresh' \in BOOLEAN
  BY DEF WriteMedia
<1>4. file' \in Nat /\ (~fresh' => file' = file)
  BY <1>1 DEF WriteMedia
<1> DEFINE o == out \o Opening
<1>5. /\ o \in Seq(Rec) /\ Len(o) = Len(out) + Len(Opening)
      /\ \A i \in 1..Len(out) : o[i] = out[i]
      /\ \A i \in 1..Len(Opening) : o[Len(out) + i] = Opening[i]
  BY <1>1, Appended
<1>6. out' = o \o segs
  BY <1>2
<1> HIDE DEF o
<1>7. /\ out' \in Seq(Rec) /\ Len(out') = Len(o) + Len(segs)
      /\ \A i \in 1..Len(o) : out'[i] = o[i]
      /\ \A i \in 1..Len(segs) : out'[Len(o) + i] = segs[i]
  <2>1. o \in Seq(Rec)
    BY <1>5
  <2>2. /\ o \o segs \in Seq(Rec) /\ Len(o \o segs) = Len(o) + Len(segs)
        /\ \A i \in 1..Len(o) : (o \o segs)[i] = o[i]
        /\ \A i \in 1..Len(segs) : (o \o segs)[Len(o) + i] = segs[i]
    BY <2>1, Appended
  <2> QED BY <1>6, <2>2
<1>8. Len(out) \in Nat /\ Len(Opening) \in Nat /\ Len(segs) \in Nat
  BY <1>1
<1>9. \A i \in 1..Len(out) : out'[i] = out[i]
  <2> TAKE i \in 1..Len(out)
  <2>1. i \in 1..Len(o)
    BY <1>5, <1>8
  <2> QED BY <2>1, <1>5, <1>7
<1>10. \A i \in 1..Len(Opening) : out'[Len(out) + i] = Opening[i]
  <2> TAKE i \in 1..Len(Opening)
  <2>1. Len(out) + i \in 1..Len(o)
    BY <1>5, <1>8
  <2> QED BY <2>1, <1>5, <1>7
<1>11. \A i \in 1..Len(segs) : out'[Len(out) + Len(Opening) + i] = segs[i]
  BY <1>5, <1>7
<1> QED BY <1>2, <1>3, <1>4, <1>5, <1>7, <1>9, <1>10, <1>11

\* A step adds to the files: init segments, and of each track at most one segment
\* of S, and all of S.
Grows(S) ==
    /\ out' \in Seq(Rec) /\ Len(out) <= Len(out')
    /\ \A i \in 1..Len(out) : out'[i] = out[i]
    /\ \A i \in Len(out)+1..Len(out') :
        /\ out'[i].what = "init" \/ <<out'[i].what, out'[i].n>> \in S
        /\ \A j \in i+1..Len(out') : out'[i].what = out'[j].what => out'[i].what = "init"
    /\ \A s \in S : \E i \in 1..Len(out') : <<out'[i].what, out'[i].n>> = s

LEMMA GrowsByMedia ==
  ASSUME Base, NEW segs \in Seq(Rec), WriteMedia(segs), NEW S,
         \A i, j \in 1..Len(segs) : i < j => segs[i].what # segs[j].what,
         \A i \in 1..Len(segs) : <<segs[i].what, segs[i].n>> \in S,
         \A s \in S : \E i \in 1..Len(segs) : <<segs[i].what, segs[i].n>> = s
  PROVE  Grows(S)
<1> DEFINE L == Len(out)
           M == Len(Opening)
<1>1. /\ out' \in Seq(Rec) /\ Len(out') = L + M + Len(segs)
      /\ \A i \in 1..L : out'[i] = out[i]
      /\ \A i \in 1..M : out'[L + i] = Opening[i]
      /\ \A i \in 1..Len(segs) : out'[L + M + i] = segs[i]
  BY MediaWritten
<1>2. L \in Nat /\ M \in 0..1 /\ Len(segs) \in Nat
  <2>1. M \in 0..1
    BY OpeningOK
  <2>2. out \in Seq(Rec)
    BY DEF Base
  <2> QED BY <2>1, <2>2
<1>3. M = 1 => Opening[1].what = "init"
  <2>1. InitOf(init).what = "init"
    BY InitRecord DEF Base
  <2> QED BY <2>1 DEF Opening
<1> HIDE DEF L, M
<1>4. ASSUME NEW i \in L+1..Len(out')
      PROVE  \/ i = L + 1 /\ M = 1 /\ out'[i].what = "init"
             \/ /\ i - (L + M) \in 1..Len(segs) /\ out'[i] = segs[i - (L + M)]
  <2>1. CASE M = 1 /\ i = L + 1
    <3>1. out'[L + 1] = Opening[1]
      BY <1>1, <2>1
    <3> QED BY <3>1, <2>1, <1>3
  <2>2. CASE ~ (M = 1 /\ i = L + 1)
    <3>1. i - (L + M) \in 1..Len(segs)
      BY <1>1, <1>2, <2>2
    <3>2. L + M + (i - (L + M)) = i
      BY <1>2
    <3> QED BY <1>1, <3>1, <3>2
  <2> QED BY <2>1, <2>2
<1>5. ASSUME NEW i \in L+1..Len(out'), NEW j \in i+1..Len(out'),
             out'[i].what = out'[j].what
      PROVE  out'[i].what = "init"
  <2>1. j \in L+1..Len(out') /\ i < j /\ Len(out') \in Nat
    BY <1>1, <1>2
  <2>2. j # L + 1
    BY <2>1, <1>2
  <2>3. j - (L + M) \in 1..Len(segs) /\ out'[j] = segs[j - (L + M)]
    BY <1>4, <2>1, <2>2
  <2>4. ASSUME i - (L + M) \in 1..Len(segs), out'[i] = segs[i - (L + M)] PROVE FALSE
    <3>1. i - (L + M) < j - (L + M)
      BY <1>2, <2>1
    <3> QED BY <1>5, <2>3, <2>4, <3>1
  <2> QED BY <1>4, <2>4
<1>6. ASSUME NEW i \in L+1..Len(out')
      PROVE  out'[i].what = "init" \/ <<out'[i].what, out'[i].n>> \in S
  BY <1>4
<1>7. ASSUME NEW s \in S
      PROVE  \E i \in 1..Len(out') : <<out'[i].what, out'[i].n>> = s
  <2>1. PICK i \in 1..Len(segs) : <<segs[i].what, segs[i].n>> = s
    OBVIOUS
  <2>2. L + M + i \in 1..Len(out')
    BY <1>1, <1>2
  <2> QED BY <1>1, <2>1, <2>2
<1>8. L <= Len(out')
  BY <1>1, <1>2
<1> QED BY <1>1, <1>5, <1>6, <1>7, <1>8 DEF Grows, L

LEMMA InitWritten ==
  ASSUME Base, NEW m \in [Tracks -> Nat], WriteInit(m)
  PROVE  /\ out' \in Seq(Rec) /\ Len(out') = Len(out) + 1
         /\ \A i \in 1..Len(out) : out'[i] = out[i]
         /\ out'[Len(out) + 1] = InitOf(m)
         /\ init' = m /\ file' = file /\ fresh' = FALSE
<1>1. out \in Seq(Rec) /\ InitOf(m) \in Rec
  BY InitRecord DEF Base
<1> QED BY <1>1 DEF WriteInit

LEMMA GrowsByInit ==
  ASSUME Base, NEW m \in [Tracks -> Nat], WriteInit(m)
  PROVE  Grows({})
<1> DEFINE L == Len(out)
<1>1. InitOf(m).what = "init"
  BY InitRecord
<1>2. L \in Nat
  BY DEF Base
<1>3. /\ out' \in Seq(Rec) /\ Len(out') = L + 1
      /\ \A i \in 1..L : out'[i] = out[i]
      /\ out'[L + 1].what = "init"
  BY <1>1, InitWritten
<1>4. \A i \in L+1..Len(out') : out'[i].what = "init"
  <2> HIDE DEF L
  <2>1. \A i \in L+1..Len(out') : i = L + 1
    BY <1>2, <1>3
  <2> QED BY <1>3, <2>1
<1> QED BY <1>2, <1>3, <1>4 DEF Grows

LEMMA GrowsNot ==
  ASSUME Base, out' = out
  PROVE  Grows({})
<1>1. out \in Seq(Rec) /\ Len(out) \in Nat
  BY DEF Base
<1> QED BY <1>1 DEF Grows

LEMMA WrittenGrows ==
  ASSUME Base, NEW S, Grows(S), NEW t \in Tracks, NEW n
  PROVE  <<t, n>> \in Written' <=> <<t, n>> \in Written \/ <<t, n>> \in S
<1>1. /\ DOMAIN out = 1..Len(out) /\ DOMAIN out' = 1..Len(out')
      /\ Len(out) \in Nat /\ Len(out') \in Nat /\ Len(out) <= Len(out')
  BY DEF Base, Grows
<1>2. ASSUME <<t, n>> \in Written PROVE <<t, n>> \in Written'
  <2>1. PICK i \in 1..Len(out) : <<t, n>> = <<out[i].what, out[i].n>>
    BY <1>1, <1>2 DEF Written
  <2>2. i \in 1..Len(out') /\ out'[i] = out[i]
    BY <1>1 DEF Grows
  <2> QED BY <1>1, <2>1, <2>2 DEF Written
<1>3. ASSUME <<t, n>> \in S PROVE <<t, n>> \in Written'
  BY <1>1, <1>3 DEF Grows, Written
<1>4. ASSUME <<t, n>> \in Written', <<t, n>> \notin Written PROVE <<t, n>> \in S
  <2>1. PICK i \in 1..Len(out') : <<t, n>> = <<out'[i].what, out'[i].n>>
    BY <1>1, <1>4 DEF Written
  <2>2. i \notin 1..Len(out)
    <3> SUFFICES ASSUME i \in 1..Len(out) PROVE FALSE
      OBVIOUS
    <3>1. out'[i] = out[i]
      BY DEF Grows
    <3> QED BY <1>1, <1>4, <2>1, <3>1 DEF Written
  <2>3. i \in Len(out)+1..Len(out')
    BY <1>1, <2>2
  <2>4. t # "init"
    BY DEF Tracks
  <2> QED BY <2>1, <2>3, <2>4 DEF Grows
<1> QED BY <1>2, <1>3, <1>4

\* What is written of a pair.
Both(ok) == Fetched("video", ok) \o Fetched("audio", ok)

LEMMA Chunk ==
  ASSUME Base, NEW D \in SUBSET Tracks, NEW ok \in [D -> 1..made]
  PROVE  /\ Both(ok) \in Seq(Rec)
         /\ Both(ok) = <<>> <=> D = {}
         /\ \A i, j \in 1..Len(Both(ok)) : i < j => Both(ok)[i].what # Both(ok)[j].what
         /\ \A i \in 1..Len(Both(ok)) : \E t \in D : <<Both(ok)[i].what, Both(ok)[i].n>> = <<t, ok[t]>>
         /\ \A t \in D : \E i \in 1..Len(Both(ok)) : <<Both(ok)[i].what, Both(ok)[i].n>> = <<t, ok[t]>>
         /\ \A i \in 1..Len(Both(ok)) : \E t \in D : Both(ok)[i] = Media(t, ok[t])
<1> DEFINE segs == Both(ok)
           v == Fetched("video", ok)
           a == Fetched("audio", ok)
           m(t) == Media(t, ok[t])
<1>1. \A t \in D : m(t) \in Rec /\ m(t).what = t /\ m(t).n = ok[t]
  <2> TAKE t \in D
  <2>1. t \in Tracks /\ ok[t] \in Nat
    BY DEF Base
  <2> QED BY <2>1, MediaRecord
<1>2. /\ v \in Seq(Rec) /\ Len(v) = IF "video" \in D THEN 1 ELSE 0
      /\ "video" \in D => v[1] = m("video")
  BY <1>1 DEF Fetched
<1>3. /\ a \in Seq(Rec) /\ Len(a) = IF "audio" \in D THEN 1 ELSE 0
      /\ "audio" \in D => a[1] = m("audio")
  BY <1>1 DEF Fetched
<1>4. segs = v \o a
  BY DEF Both
<1> HIDE DEF m, v, a, segs
<1>5. /\ segs \in Seq(Rec) /\ Len(segs) = Len(v) + Len(a)
      /\ \A i \in 1..Len(v) : segs[i] = v[i]
      /\ \A i \in 1..Len(a) : segs[Len(v) + i] = a[i]
  <2>1. /\ v \o a \in Seq(Rec) /\ Len(v \o a) = Len(v) + Len(a)
        /\ \A i \in 1..Len(v) : (v \o a)[i] = v[i]
        /\ \A i \in 1..Len(a) : (v \o a)[Len(v) + i] = a[i]
    BY <1>2, <1>3, Appended
  <2> QED BY <1>4, <2>1
<1>6. ASSUME NEW i \in 1..Len(segs)
      PROVE  \/ i = 1 /\ "video" \in D /\ segs[i] = m("video")
             \/ i = Len(v) + 1 /\ "audio" \in D /\ segs[i] = m("audio")
  <2>1. CASE "video" \in D /\ i = 1
    <3>1. 1 \in 1..Len(v)
      BY <1>2, <2>1
    <3> QED BY <1>2, <1>5, <2>1, <3>1
  <2>2. CASE ~ ("video" \in D /\ i = 1)
    <3>1. "audio" \in D /\ Len(a) = 1 /\ i = Len(v) + 1
      BY <1>2, <1>3, <1>5, <2>2
    <3>2. 1 \in 1..Len(a)
      BY <3>1
    <3> QED BY <1>3, <1>5, <3>1, <3>2
  <2> QED BY <2>1, <2>2
<1>7. ASSUME "video" \in D PROVE 1 \in 1..Len(segs) /\ segs[1] = m("video")
  <2>1. 1 \in 1..Len(v) /\ 1 \in 1..Len(segs)
    BY <1>2, <1>3, <1>5, <1>7
  <2> QED BY <1>2, <1>5, <1>7, <2>1
<1>8. ASSUME "audio" \in D PROVE Len(v) + 1 \in 1..Len(segs) /\ segs[Len(v) + 1] = m("audio")
  <2>1. 1 \in 1..Len(a) /\ Len(v) + 1 \in 1..Len(segs)
    BY <1>2, <1>3, <1>5, <1>8
  <2> QED BY <1>3, <1>5, <1>8, <2>1
<1>9. \A t \in D : \E i \in 1..Len(segs) : segs[i] = m(t)
  BY <1>7, <1>8 DEF Tracks
<1>10. \A i \in 1..Len(segs) : \E t \in D : segs[i] = m(t)
  BY <1>6
<1>11. segs = <<>> <=> D = {}
  <2>1. segs = <<>> <=> Len(segs) = 0
    BY <1>5
  <2>2. Len(segs) \in Nat
    BY <1>5
  <2>3. Len(segs) = 0 <=> D = {}
    BY <2>2, <1>2, <1>3, <1>5 DEF Tracks
  <2> QED BY <2>1, <2>3
<1>12. \A i, j \in 1..Len(segs) : i < j => segs[i].what # segs[j].what
  <2> SUFFICES ASSUME NEW i \in 1..Len(segs), NEW j \in 1..Len(segs), i < j,
                      segs[i].what = segs[j].what
               PROVE  FALSE
    OBVIOUS
  <2>1. \/ i = 1 /\ "video" \in D /\ segs[i] = m("video")
        \/ i = Len(v) + 1 /\ "audio" \in D /\ segs[i] = m("audio")
    BY <1>6
  <2>2. \/ j = 1 /\ "video" \in D /\ segs[j] = m("video")
        \/ j = Len(v) + 1 /\ "audio" \in D /\ segs[j] = m("audio")
    BY <1>6
  <2> QED BY <2>1, <2>2, <1>1, <1>2
<1>13. \A i \in 1..Len(segs) : \E t \in D : <<segs[i].what, segs[i].n>> = <<t, ok[t]>>
  <2> TAKE i \in 1..Len(segs)
  <2>1. PICK t \in D : segs[i] = m(t)
    BY <1>10
  <2> QED BY <1>1, <2>1
<1>14. \A t \in D : \E i \in 1..Len(segs) : <<segs[i].what, segs[i].n>> = <<t, ok[t]>>
  <2> TAKE t \in D
  <2>1. PICK i \in 1..Len(segs) : segs[i] = m(t)
    BY <1>9
  <2> QED BY <1>1, <2>1
<1> QED BY <1>5, <1>10, <1>11, <1>12, <1>13, <1>14 DEF m, segs

\* What is told from the numbers, where the segments have them.
LEMMA NewNumbered ==
  ASSUME Base, numbered, NEW t \in Tracks, NEW list \in SUBSET (1..made)
  PROVE  New(t, list) = {n \in list : n > last[t]}
<1>1. last[t] \in Nat /\ \A n \in list : n \in Nat /\ Number(n) = n /\ n # 0
  <2>1. made \in Nat /\ last[t] \in 0..made
    BY DEF Base
  <2> QED BY <2>1 DEF Number
<1>2. \A n \in list : ~Known(t, n, list) <=> n > last[t]
  BY <1>1 DEF Known
<1> QED BY <1>2 DEF New

LEMMA AfterNumbered ==
  ASSUME Base, numbered, NEW t \in Tracks, NEW n \in 1..made
  PROVE  After(t, n) = n
BY DEF After, Number

LEMMA AfterTyped ==
  ASSUME Base, NEW t \in Tracks, NEW n \in 1..made
  PROVE  After(t, n) \in 0..made
<1>1. last[t] \in 0..made /\ made \in Nat
  BY DEF Base
<1>2. Number(n) \in 0..made
  BY <1>1 DEF Number
<1> QED BY <1>1, <1>2 DEF After

LEMMA LeastTodo ==
  ASSUME Base, NEW t \in Tracks, todo[t] # {}
  PROVE  /\ Min(todo[t]) \in todo[t] /\ Min(todo[t]) \in 1..made
         /\ \A m \in todo[t] : Min(todo[t]) <= m
<1>1. todo[t] \in SUBSET (1..made) /\ made \in Nat
  BY DEF Base
<1> QED BY <1>1, MinOK

LEMMA BaseStart == ASSUME Init PROVE Base
<1>1. mode \in Modes /\ numbered \in BOOLEAN /\ made \in 0..MaxSegment[mode] /\ change \in Nat
  BY WatchAssumption DEF Init
<1>2. width \in Nat \ {0}
  BY PicksPositive DEF Init
<1>3. Zero \in [Tracks -> Nat] /\ Zero \in [Tracks -> 0..made] /\ None \in [Tracks -> SUBSET (1..made)]
  BY <1>1, WatchAssumption DEF Zero, None
<1>4. \A t \in Of(mode) : None[t] = {}
  BY DEF None, Of, Tracks
<1> QED BY <1>1, <1>2, <1>3, <1>4 DEF Init, Base

\* The types of the four variables of the files.
FilesTyped == init \in [Tracks -> Nat] /\ fresh \in BOOLEAN /\ file \in Nat /\ out \in Seq(Rec)

LEMMA FilesMedia ==
  ASSUME Base, NEW segs \in Seq(Rec), WriteMedia(segs)
  PROVE  FilesTyped'
<1>1. init \in [Tracks -> Nat]
  BY DEF Base
<1> QED BY <1>1, MediaWritten DEF FilesTyped

LEMMA FilesInit ==
  ASSUME Base, NEW m \in [Tracks -> Nat], WriteInit(m)
  PROVE  FilesTyped'
<1>1. file \in Nat
  BY DEF Base
<1> QED BY <1>1, InitWritten DEF FilesTyped

LEMMA FilesSame == ASSUME Base, UNCHANGED files PROVE FilesTyped'
BY DEF Base, FilesTyped, files

LEMMA BaseOutside ==
  ASSUME Base, MakeSegment \/ GoesOffline \/ Cancel
  PROVE  Base'
<1>1. made \in 0..MaxSegment[mode] /\ MaxSegment[mode] \in Nat
  BY WatchAssumption DEF Base
<1>2. /\ made' \in 0..MaxSegment[mode] /\ made <= made'
      /\ UNCHANGED <<room, pc, counters, tracks, files, history>>
  BY <1>1 DEF MakeSegment, GoesOffline, Cancel
<1>3. 1..made \subseteq 1..made' /\ 0..made \subseteq 0..made'
  BY <1>1, <1>2
<1>4. /\ listed \in [Tracks -> SUBSET (1..made')] /\ todo \in [Tracks -> SUBSET (1..made')]
      /\ seen \in [Tracks -> SUBSET (1..made')] /\ last \in [Tracks -> 0..made']
      /\ got \in SUBSET (Tracks \X (1..made')) /\ failed \in SUBSET (Tracks \X (1..made'))
  BY <1>3 DEF Base
<1> QED BY <1>2, <1>4 DEF Base, room, tracks, files, history

LEMMA ListingTyped ==
  ASSUME Base
  PROVE  Listing \in SUBSET (1..made) /\ \A t \in Tracks : New(t, Listing) \in SUBSET (1..made)
BY DEF Listing, New

LEMMA BasePollVideo == ASSUME Base, PollVideo PROVE Base'
<1>1. UNCHANGED <<mode, numbered, made, change, width, got, last, map, base, files, failed>>
  BY DEF PollVideo, room, outside, history
<1>2. /\ listed' \in [Tracks -> SUBSET (1..made)] /\ todo' \in [Tracks -> SUBSET (1..made)]
      /\ seen' \in [Tracks -> SUBSET (1..made)]
  BY ListingTyped DEF Base, PollVideo, Lists, Tracks
<1>3. pc' \in {"poll", "walk", "ended"} /\ (pc' = "poll" => todo'["video"] = {})
      /\ (pc' = "walk" => todo'["video"] # {})
  BY DEF PollVideo, Stalls, Ends
<1>4. mode = "video" /\ FilesTyped'
  BY <1>1, FilesSame DEF PollVideo
<1> QED BY <1>1, <1>2, <1>3, <1>4 DEF Base, FilesTyped, Of

LEMMA BasePollPair == ASSUME Base, NEW t \in Tracks, PollPair(t) PROVE Base'
<1>1. UNCHANGED <<mode, numbered, made, change, width, todo, got, last, map, base, files, seen, failed>>
  BY DEF PollPair, room, outside, history
<1>2. listed' \in [Tracks -> SUBSET (1..made)]
  BY ListingTyped DEF Base, PollPair, Lists
<1>3. pc \in {"poll", "audio"} /\ pc' \in {"audio", "inits"} /\ mode # "video"
  BY DEF PollPair
<1>4. FilesTyped'
  BY <1>1, FilesSame
<1> QED BY <1>1, <1>2, <1>3, <1>4 DEF Base, FilesTyped, Of

LEMMA BasePollFails == ASSUME Base, PollFails PROVE Base'
<1>1. UNCHANGED <<mode, numbered, made, change, width, listed, todo, got, last, map, base, files, seen, failed>>
  BY DEF PollFails, room, outside, history, tracks
<1>2. pc \in {"poll", "audio"} /\ pc' \in {"poll", "ended"}
  BY DEF PollFails, Ends
<1>3. FilesTyped'
  BY <1>1, FilesSame
<1> QED BY <1>1, <1>2, <1>3 DEF Base, FilesTyped, Of

LEMMA BaseRefreshURL == ASSUME Base, RefreshURL PROVE Base'
<1>1. UNCHANGED <<mode, numbered, made, change, listed, todo, got, last, map, base, files, seen, failed>>
  BY DEF RefreshURL, outside, tracks, history
<1>2. pc \in {"poll", "audio"} /\ pc' = "poll" /\ width' \in Nat \ {0}
  BY PicksPositive DEF RefreshURL
<1>3. FilesTyped'
  BY <1>1, FilesSame
<1> QED BY <1>1, <1>2, <1>3 DEF Base, FilesTyped, Of

\* The init segment a segment of a single playlist needs.
VideoMap(n) == [Zero EXCEPT !["video"] = MapOf(n)]

LEMMA VideoMapTyped ==
  ASSUME Base, NEW n \in Nat
  PROVE  VideoMap(n) \in [Tracks -> Nat] /\ VideoMap(n)["video"] = MapOf(n)
         /\ VideoMap(n)["audio"] = 0 /\ VideoMap(n) # Zero
<1>1. MapOf(n) \in Nat \ {0}
  BY MapPositive
<1> QED BY <1>1 DEF VideoMap, Zero, Tracks

LEMMA BaseVideoInit == ASSUME Base, VideoInit PROVE Base'
<1> DEFINE m == VideoMap(Min(todo["video"]))
<1>1. pc = "walk" /\ mode = "video" /\ todo["video"] # {}
  BY DEF Base, VideoInit
<1>2. Min(todo["video"]) \in 1..made
  BY <1>1, LeastTodo DEF Tracks
<1>3. m \in [Tracks -> Nat]
  BY <1>2, VideoMapTyped
<1>4. \/ WriteInit(m) /\ map' = m /\ UNCHANGED pc
      \/ UNCHANGED files /\ pc' = "ended" /\ UNCHANGED map
  BY DEF VideoInit, VideoMap, Refused, Ends
<1> HIDE DEF m
<1>5. FilesTyped' /\ map' \in [Tracks -> Nat] /\ pc' \in {"walk", "ended"}
  <2>1. map \in [Tracks -> Nat]
    BY DEF Base
  <2> QED BY <1>1, <1>3, <1>4, <2>1, FilesInit, FilesSame
<1>6. UNCHANGED <<mode, numbered, made, change, width, listed, todo, got, last, base, seen, failed>>
  BY DEF VideoInit, room, outside, history
<1> QED BY <1>1, <1>5, <1>6 DEF Base, FilesTyped

LEMMA BaseVideoSegment == ASSUME Base, VideoSegment PROVE Base'
<1> DEFINE n == Min(todo["video"])
<1>1. pc = "walk" /\ mode = "video" /\ todo["video"] # {}
  BY DEF Base, VideoSegment
<1>2. n \in 1..made
  BY <1>1, LeastTodo DEF Tracks
<1>3. last' = [last EXCEPT !["video"] = After("video", n)]
  BY DEF VideoSegment, Takes
<1>4. UNCHANGED <<mode, numbered, made, change, width, listed, got, map, base, seen>>
  BY DEF VideoSegment, room, outside, history
<1>5. \/ /\ WriteMedia(<<Media("video", n)>>) /\ failed' = failed
         /\ todo' = [todo EXCEPT !["video"] = @ \ {n}] /\ Walks
      \/ /\ UNCHANGED files /\ failed' = failed \cup {<<"video", n>>} /\ Walks
         /\ todo' = [todo EXCEPT !["video"] = @ \ {n}] \/ todo' = [todo EXCEPT !["video"] = {}]
      \/ UNCHANGED <<files, todo, failed>> /\ pc' = "ended"
  BY DEF VideoSegment, Leaves, Refused, Ends
<1> HIDE DEF n
<1>6. FilesTyped'
  <2>1. Media("video", n) \in Rec
    <3>1. n \in Nat /\ "video" \in Tracks
      BY <1>2 DEF Base, Tracks
    <3> QED BY <3>1, MediaRecord
  <2>2. <<Media("video", n)>> \in Seq(Rec)
    BY <2>1
  <2>3. CASE WriteMedia(<<Media("video", n)>>)
    BY <2>2, <2>3, FilesMedia
  <2> QED BY <1>5, <2>3, FilesSame
<1>7. last' \in [Tracks -> 0..made]
  <2>1. After("video", n) \in 0..made /\ last \in [Tracks -> 0..made]
    BY <1>2, AfterTyped DEF Base, Tracks
  <2> QED BY <1>3, <2>1
<1>8. todo' \in [Tracks -> SUBSET (1..made)] /\ failed' \in SUBSET (Tracks \X (1..made))
  <2>1. <<"video", n>> \in Tracks \X (1..made)
    BY <1>2 DEF Tracks
  <2> QED BY <1>5, <2>1 DEF Base, Tracks
<1>9. \/ pc' = "ended"
      \/ pc' = "poll" /\ todo'["video"] = {}
      \/ pc' = "walk" /\ todo'["video"] # {}
  BY <1>5 DEF Walks
<1> QED BY <1>1, <1>4, <1>6, <1>7, <1>8, <1>9 DEF Base, FilesTyped, Of

LEMMA FirstMapTyped ==
  ASSUME Base
  PROVE  [t \in Tracks |-> FirstMap(t)] \in [Tracks -> Nat]
<1> SUFFICES ASSUME NEW t \in Tracks PROVE FirstMap(t) \in Nat
  OBVIOUS
<1>1. CASE listed[t] = {}
  BY <1>1 DEF Base, FirstMap
<1>2. CASE listed[t] # {}
  <2>1. listed[t] \in SUBSET (1..made) /\ made \in Nat
    BY DEF Base
  <2>2. Min(listed[t]) \in 1..made
    BY <1>2, <2>1, MinOK
  <2> QED BY <1>2, <2>2, MapPositive DEF FirstMap
<1> QED BY <1>1, <1>2

LEMMA GreatestNew ==
  ASSUME Base, NEW t \in Tracks, New(t, listed[t]) # {}
  PROVE  /\ Max(New(t, listed[t])) \in New(t, listed[t])
         /\ \A m \in New(t, listed[t]) : m <= Max(New(t, listed[t]))
<1>1. New(t, listed[t]) \in SUBSET (1..made) /\ made \in Nat
  BY DEF Base, New
<1> QED BY <1>1, MaxOK

LEMMA BaseCombinedInit == ASSUME Base, CombinedInit PROVE Base'
<1> DEFINE m == [t \in Tracks |-> FirstMap(t)]
           new == [t \in Tracks |-> New(t, listed[t])]
<1>1. m \in [Tracks -> Nat] /\ new \in [Tracks -> SUBSET (1..made)]
  BY FirstMapTyped DEF Base, New
<1>2. UNCHANGED <<mode, numbered, made, change, width, listed, got, base, failed>> /\ pc = "inits"
  BY DEF CombinedInit, room, outside, history
<1>3. \/ /\ map' = m /\ (WriteInit(m) \/ UNCHANGED files)
         /\ todo' = new /\ seen' = [t \in Tracks |-> seen[t] \cup listed[t]]
         /\ last' = [t \in Tracks |-> IF new[t] = {} THEN last[t] ELSE After(t, Max(new[t]))]
         /\ \/ new = None /\ pc' \in {"poll", "ended"}
            \/ new # None /\ pc' = "walk"
      \/ map' = m /\ pc' \in {"poll", "ended"} /\ UNCHANGED <<todo, last, seen, files>>
      \/ UNCHANGED files /\ pc' = "ended" /\ UNCHANGED <<map, todo, last, seen>>
  BY DEF CombinedInit, Stalls, Ends, Refused
<1>4. FilesTyped' /\ map' \in [Tracks -> Nat]
  <2> HIDE DEF m, new
  <2>1. map \in [Tracks -> Nat]
    BY DEF Base
  <2> QED BY <1>1, <1>3, <2>1, FilesInit, FilesSame
<1>5. todo' \in [Tracks -> SUBSET (1..made)] /\ seen' \in [Tracks -> SUBSET (1..made)]
  <2> HIDE DEF m, new
  <2>1. [t \in Tracks |-> seen[t] \cup listed[t]] \in [Tracks -> SUBSET (1..made)]
    BY DEF Base
  <2>2. todo \in [Tracks -> SUBSET (1..made)] /\ seen \in [Tracks -> SUBSET (1..made)]
    BY DEF Base
  <2> QED BY <1>1, <1>3, <2>1, <2>2
<1>6. last' \in [Tracks -> 0..made]
  <2>1. \A t \in Tracks : new[t] # {} => After(t, Max(new[t])) \in 0..made
    <3> TAKE t \in Tracks
    <3>1. new[t] # {} => Max(new[t]) \in new[t]
      BY GreatestNew
    <3>2. new[t] \in SUBSET (1..made)
      BY <1>1
    <3>3. new[t] # {} => Max(new[t]) \in 1..made
      BY <3>1, <3>2
    <3> HIDE DEF new
    <3> QED BY <3>3, AfterTyped
  <2>2. last \in [Tracks -> 0..made]
    BY DEF Base
  <2> HIDE DEF m, new
  <2>3. [t \in Tracks |-> IF new[t] = {} THEN last[t] ELSE After(t, Max(new[t]))] \in [Tracks -> 0..made]
    BY <2>1, <2>2
  <2> QED BY <1>3, <2>2, <2>3
<1>7. pc' \in {"poll", "walk", "ended"} /\ (pc' = "poll" => \A t \in Of(mode) : todo'[t] = {})
  <2>1. \A t \in Of(mode) : None[t] = {} /\ todo[t] = {}
    BY <1>2 DEF None, Of, Tracks, Base
  <2> HIDE DEF m, new
  <2> QED BY <1>3, <2>1
<1>8. mode # "video"
  BY <1>2 DEF Base
<1> QED BY <1>2, <1>4, <1>5, <1>6, <1>7, <1>8 DEF Base, FilesTyped

\* What a pair of segments comes to: of the tracks that have one to come those in
\* D are fetched, and written together.
Paired(D, ok) ==
    /\ D \subseteq {t \in Tracks : todo[t] # {}} /\ ok = [t \in D |-> Min(todo[t])]
    /\ IF D = {} THEN UNCHANGED files
       ELSE WriteMedia(Both(ok))
    /\ failed' = failed \cup {<<t, Min(todo[t])>> : t \in {t \in Tracks : todo[t] # {}} \ D}
    /\ todo' = [t \in Tracks |-> IF todo[t] # {} THEN todo[t] \ {Min(todo[t])} ELSE {}]
    /\ base' = [t \in Tracks |-> IF t \in D /\ base[t] = 0 THEN ok[t] ELSE base[t]]
    /\ pc' = IF todo' = None THEN "poll" ELSE "walk"

LEMMA PairMoves ==
  ASSUME Base, PairSegments
  PROVE  /\ pc = "walk" /\ mode = "paired"
         /\ UNCHANGED <<mode, numbered, made, change, width, listed, got, last, map, seen, crossed>>
         /\ \/ \E D \in SUBSET Tracks : \E ok \in [D -> 1..made] : Paired(D, ok)
            \/ UNCHANGED <<files, todo, base, failed>> /\ pc' = "ended"
<1> DEFINE A == {t \in Tracks : todo[t] # {}}
           next == [t \in A |-> Min(todo[t])]
           Tried(bad) ==
             LET ok == Restrict(next, A \ bad)
                 chunk == Both(ok)
             IN /\ failed' = failed \cup {<<t, next[t]>> : t \in bad}
                /\ Based(ok)
                /\ IF chunk = <<>> THEN UNCHANGED files ELSE WriteMedia(chunk)
                /\ todo' = [t \in Tracks |-> IF t \in A THEN todo[t] \ {next[t]} ELSE {}]
                /\ pc' = IF todo' = None THEN "poll" ELSE "walk"
<1>1. /\ pc = "walk" /\ mode = "paired"
      /\ UNCHANGED <<mode, numbered, made, change, width, listed, got, last, map, seen, crossed>>
  BY DEF PairSegments, room, outside, history
<1>2. CASE UNCHANGED <<files, todo, base, failed>> /\ pc' = "ended"
  BY <1>1, <1>2
<1>3. ASSUME NEW bad \in SUBSET A, Tried(bad)
      PROVE  \E D \in SUBSET Tracks : \E ok \in [D -> 1..made] : Paired(D, ok)
  <2> DEFINE D == A \ bad
             ok == [t \in D |-> Min(todo[t])]
  <2>2. Restrict(next, D) = ok
    BY DEF Restrict
  <2>3. \A t \in A : Min(todo[t]) \in 1..made
    BY LeastTodo
  <2>4. D \in SUBSET Tracks /\ ok \in [D -> 1..made] /\ A \ D = bad
    BY <2>3
  <2>5. Both(ok) = <<>> <=> D = {}
    <3>1. D \in SUBSET Tracks /\ ok \in [D -> 1..made]
      BY <2>4
    <3> HIDE DEF D, ok
    <3> QED BY <3>1, Chunk
  <2>6. IF D = {} THEN UNCHANGED files ELSE WriteMedia(Both(ok))
    BY <1>3, <2>2, <2>5
  <2>7. base' = [t \in Tracks |-> IF t \in D /\ base[t] = 0 THEN ok[t] ELSE base[t]]
    BY <1>3, <2>2 DEF Based
  <2>8. failed' = failed \cup {<<t, Min(todo[t])>> : t \in A \ D}
    BY <1>3, <2>4
  <2>9. todo' = [t \in Tracks |-> IF todo[t] # {} THEN todo[t] \ {Min(todo[t])} ELSE {}]
    BY <1>3
  <2>10. pc' = IF todo' = None THEN "poll" ELSE "walk"
    BY <1>3
  <2>11. Paired(D, ok)
    BY <2>6, <2>7, <2>8, <2>9, <2>10 DEF Paired
  <2> QED BY <2>4, <2>11
<1>4. (UNCHANGED <<files, todo, base, failed>> /\ pc' = "ended") \/ \E bad \in SUBSET A : Tried(bad)
  BY DEF PairSegments, Refused, Ends, Both
<1> QED BY <1>1, <1>2, <1>3, <1>4

LEMMA PairFiles ==
  ASSUME Base, NEW D \in SUBSET Tracks, NEW ok \in [D -> 1..made], Paired(D, ok)
  PROVE  FilesTyped' /\ Grows({<<t, ok[t]>> : t \in D})
<1>1. CASE D = {}
  <2>1. UNCHANGED files
    BY <1>1 DEF Paired
  <2>2. {<<t, ok[t]>> : t \in D} = {}
    BY <1>1
  <2>3. out' = out
    BY <2>1 DEF files
  <2> QED BY <2>1, <2>2, <2>3, FilesSame, GrowsNot
<1>2. CASE D # {}
  <2> DEFINE S == {<<t, ok[t]>> : t \in D}
  <2>1. WriteMedia(Both(ok))
    BY <1>2 DEF Paired
  <2>2. /\ Both(ok) \in Seq(Rec)
        /\ \A i, j \in 1..Len(Both(ok)) : i < j => Both(ok)[i].what # Both(ok)[j].what
        /\ \A i \in 1..Len(Both(ok)) : <<Both(ok)[i].what, Both(ok)[i].n>> \in S
        /\ \A s \in S : \E i \in 1..Len(Both(ok)) : <<Both(ok)[i].what, Both(ok)[i].n>> = s
    <3>1. /\ \A i \in 1..Len(Both(ok)) :
               \E t \in D : <<Both(ok)[i].what, Both(ok)[i].n>> = <<t, ok[t]>>
          /\ \A t \in D :
               \E i \in 1..Len(Both(ok)) : <<Both(ok)[i].what, Both(ok)[i].n>> = <<t, ok[t]>>
      BY Chunk
    <3>2. /\ Both(ok) \in Seq(Rec)
          /\ \A i, j \in 1..Len(Both(ok)) : i < j => Both(ok)[i].what # Both(ok)[j].what
      BY Chunk
    <3> DEFINE w(i) == <<Both(ok)[i].what, Both(ok)[i].n>>
    <3>3. \A i \in 1..Len(Both(ok)) : w(i) \in S
      <4> TAKE i \in 1..Len(Both(ok))
      <4>1. PICK t \in D : w(i) = <<t, ok[t]>>
        BY <3>1
      <4> HIDE DEF w
      <4> QED BY <4>1
    <3>4. \A s \in S : \E i \in 1..Len(Both(ok)) : w(i) = s
      <4> TAKE s \in S
      <4>1. PICK t \in D : s = <<t, ok[t]>>
        OBVIOUS
      <4> HIDE DEF S
      <4> QED BY <3>1, <4>1
    <3> HIDE DEF S
    <3> QED BY <3>2, <3>3, <3>4
  <2> HIDE DEF S
  <2>3. FilesTyped'
    BY <2>1, <2>2, FilesMedia
  <2>4. Grows(S)
    BY <2>1, <2>2, GrowsByMedia
  <2> QED BY <2>3, <2>4 DEF S
<1> QED BY <1>1, <1>2

LEMMA BasePairSegments == ASSUME Base, PairSegments PROVE Base'
<1>1. /\ pc = "walk" /\ mode = "paired"
      /\ UNCHANGED <<mode, numbered, made, change, width, listed, got, last, map, seen>>
  BY PairMoves
<1>2. CASE UNCHANGED <<files, todo, base, failed>> /\ pc' = "ended"
  <2>1. FilesTyped'
    BY <1>2, FilesSame
  <2> QED BY <1>1, <1>2, <2>1 DEF Base, FilesTyped
<1>3. ASSUME NEW D \in SUBSET Tracks, NEW ok \in [D -> 1..made], Paired(D, ok)
      PROVE  Base'
  <2>1. FilesTyped'
    BY <1>3, PairFiles
  <2>2. \A t \in Tracks : todo[t] # {} => Min(todo[t]) \in 1..made
    BY LeastTodo
  <2>3. failed' \in SUBSET (Tracks \X (1..made))
    <3>1. failed \in SUBSET (Tracks \X (1..made))
      BY DEF Base
    <3>2. {<<t, Min(todo[t])>> : t \in {t \in Tracks : todo[t] # {}} \ D} \subseteq Tracks \X (1..made)
      BY <2>2
    <3> QED BY <1>3, <3>1, <3>2 DEF Paired
  <2>4. todo' \in [Tracks -> SUBSET (1..made)]
    BY <1>3 DEF Base, Paired
  <2>5. base' \in [Tracks -> Nat]
    <3>1. base \in [Tracks -> Nat] /\ made \in Nat
      BY DEF Base
    <3>2. \A t \in D : ok[t] \in Nat
      BY <3>1
    <3> QED BY <1>3, <3>1, <3>2 DEF Paired
  <2>6. (pc' = "poll" /\ \A t \in Tracks : todo'[t] = {}) \/ pc' = "walk"
    BY <1>3 DEF Paired, None
  <2> QED BY <1>1, <2>1, <2>3, <2>4, <2>5, <2>6 DEF Base, FilesTyped, Of
<1> QED BY <1>2, <1>3, PairMoves

\* What a step of FetchTimed does with the first segment that is to come.
LEMMA FetchMoves ==
  ASSUME Base, FetchTimed
  PROVE  /\ pc = "walk" /\ mode = "timed"
         /\ UNCHANGED <<mode, numbered, made, change, width, pc, listed, last, map, files, seen>>
         /\ \E t \in Tracks : \E n \in 1..made :
              /\ n \in todo[t] /\ (\A k \in todo[t] : n <= k) /\ todo' = [todo EXCEPT ![t] = @ \ {n}]
              /\ \/ got' = got \cup {<<t, n>>} /\ Based([u \in {t} |-> n]) /\ failed' = failed
                 \/ failed' = failed \cup {<<t, n>>} /\ UNCHANGED <<got, base>>
<1> DEFINE t == IF todo["video"] # {} THEN "video" ELSE "audio"
           n == Min(todo[t])
<1>1. pc = "walk" /\ mode = "timed" /\ todo # None
  BY DEF FetchTimed
<1>2. t \in Tracks /\ todo[t] # {}
  <2>1. todo = [u \in Tracks |-> todo[u]]
    BY DEF Base
  <2>2. \E u \in Tracks : todo[u] # {}
    BY <1>1, <2>1 DEF None
  <2> QED BY <2>2 DEF Tracks
<1>3. n \in todo[t] /\ n \in 1..made /\ \A k \in todo[t] : n <= k
  <2> HIDE DEF t
  <2> QED BY <1>2, LeastTodo
<1>4. UNCHANGED <<mode, numbered, made, change, width, pc, listed, last, map, files, seen>>
  BY DEF FetchTimed, room, outside, history
<1>5. /\ todo' = [todo EXCEPT ![t] = @ \ {n}]
      /\ \/ got' = got \cup {<<t, n>>} /\ Based([u \in {t} |-> n]) /\ failed' = failed
         \/ failed' = failed \cup {<<t, n>>} /\ UNCHANGED <<got, base>>
  BY DEF FetchTimed
<1> HIDE DEF t, n
<1> QED BY <1>1, <1>2, <1>3, <1>4, <1>5

LEMMA BaseFetchTimed == ASSUME Base, FetchTimed PROVE Base'
<1>1. /\ pc = "walk" /\ mode = "timed"
      /\ UNCHANGED <<mode, numbered, made, change, width, pc, listed, last, map, files, seen>>
  BY FetchMoves
<1>2. PICK t \in Tracks, n \in 1..made :
              /\ n \in todo[t] /\ todo' = [todo EXCEPT ![t] = @ \ {n}]
              /\ \/ got' = got \cup {<<t, n>>} /\ Based([u \in {t} |-> n]) /\ failed' = failed
                 \/ failed' = failed \cup {<<t, n>>} /\ UNCHANGED <<got, base>>
  BY FetchMoves
<1>3. todo' \in [Tracks -> SUBSET (1..made)]
  BY <1>2 DEF Base
<1>4. got' \in SUBSET (Tracks \X (1..made)) /\ failed' \in SUBSET (Tracks \X (1..made))
  BY <1>2 DEF Base
<1>5. base' \in [Tracks -> Nat]
  <2>1. base \in [Tracks -> Nat] /\ n \in Nat
    BY DEF Base
  <2> QED BY <1>2, <2>1 DEF Based
<1>6. FilesTyped'
  BY <1>1, FilesSame
<1> QED BY <1>1, <1>3, <1>4, <1>5, <1>6 DEF Base, FilesTyped

\* The segment WriteTimed takes next: of what was fetched none is before it.
LEMMA FirstInTime ==
  ASSUME Base, got # {}
  PROVE  \E s \in got : \A u \in got \ {s} : Earlier(s, u)
<1>1. \A s \in got : s[1] \in Tracks /\ s[2] \in Nat /\ s = <<s[1], s[2]>>
  BY DEF Base
<1>2. \A s \in got : Time(s) \in Int
  <2>1. \A t \in Tracks : base[t] \in Nat
    BY DEF Base
  <2> TAKE s \in got
  <2>2. base[s[1]] \in Nat /\ s[2] \in Nat
    BY <1>1, <2>1
  <2> QED BY <2>2 DEF Time
<1>3. IsFiniteSet(got)
  <2>1. 1 \in Int /\ made \in Int
    BY DEF Base
  <2>2. IsFiniteSet(1..made)
    BY <2>1, FS_Interval
  <2>3. IsFiniteSet(Tracks)
    <3>1. IsFiniteSet({"video"})
      BY FS_Singleton
    <3>2. Tracks = {"video"} \cup {"audio"}
      BY DEF Tracks
    <3> QED BY <3>1, <3>2, FS_AddElement
  <2>4. IsFiniteSet(Tracks \X (1..made))
    BY <2>2, <2>3, FS_Product
  <2>5. got \in SUBSET (Tracks \X (1..made))
    BY DEF Base
  <2> QED BY <2>4, <2>5, FS_Subset
<1> DEFINE Before(x, y) ==
             \/ Time(x) < Time(y)
             \/ Time(x) = Time(y) /\ x[1] = "audio" /\ y[1] = "video"
             \/ Time(x) = Time(y) /\ x[1] = y[1] /\ x[2] < y[2]
<1>4. PICK R : R = {p \in got \X got : Before(p[1], p[2])}
  OBVIOUS
<1>5. \A x, y \in got : <<x, y>> \in R <=> Before(x, y)
  <2> HIDE DEF Before
  <2> QED BY <1>4
<1>6. /\ \A x \in got : ~ Before(x, x)
      /\ \A x, y, z \in got : Before(x, y) /\ Before(y, z) => Before(x, z)
  <2>1. \A x \in got : x[2] \in Nat /\ Time(x) \in Int
    BY <1>1, <1>2
  <2>2. \A x \in got : ~ Before(x, x)
    BY <2>1
  <2>3. ASSUME NEW x \in got, NEW y \in got, NEW z \in got, Before(x, y), Before(y, z)
        PROVE  Before(x, z)
    <3>1. /\ Time(x) \in Int /\ Time(y) \in Int /\ Time(z) \in Int
          /\ x[2] \in Nat /\ y[2] \in Nat /\ z[2] \in Nat
      BY <2>1
    <3> QED BY <2>3, <3>1
  <2> HIDE DEF Before
  <2> QED BY <2>2, <2>3
<1>7. PICK s \in got : \A u \in got : ~ Before(u, s)
  <2> HIDE DEF Before
  <2>1. /\ \A x \in got : <<x, x>> \notin R
        /\ \A x, y, z \in got : <<x, y>> \in R /\ <<y, z>> \in R => <<x, z>> \in R
    BY <1>5, <1>6
  <2>2. \E s \in got : \A u \in got : <<u, s>> \notin R
    BY <1>3, <2>1, Least
  <2> QED BY <1>5, <2>2
<1>8. ASSUME NEW u \in got, u # s PROVE Earlier(s, u)
  <2>1. CASE Time(s) # Time(u)
    BY <1>2, <1>7, <2>1 DEF Earlier
  <2>2. CASE Time(s) = Time(u) /\ s[1] # u[1]
    BY <1>1, <1>7, <2>2 DEF Earlier, Tracks
  <2>3. CASE Time(s) = Time(u) /\ s[1] = u[1]
    <3>1. s[2] # u[2] /\ s[2] \in Nat /\ u[2] \in Nat
      BY <1>1, <1>8, <2>3
    <3>2. ~ (u[2] < s[2])
      BY <1>7, <2>3
    <3> QED BY <2>3, <3>1, <3>2 DEF Earlier
  <2> QED BY <2>1, <2>2, <2>3
<1> QED BY <1>8

LEMMA TimedMoves ==
  ASSUME Base, WriteTimed
  PROVE  /\ pc = "walk" /\ mode = "timed" /\ todo = None
         /\ UNCHANGED <<mode, numbered, made, change, width, listed, todo, last, map, base, seen, failed, crossed>>
         /\ \/ got = {} /\ pc' = "poll" /\ UNCHANGED <<got, files>>
            \/ UNCHANGED <<got, files>> /\ pc' = "ended"
            \/ \E s \in got :
                  /\ \A u \in got \ {s} : Earlier(s, u)
                  /\ WriteMedia(<<Media(s[1], s[2])>>) /\ got' = got \ {s} /\ pc' = pc
<1>1. /\ pc = "walk" /\ mode = "timed" /\ todo = None
      /\ UNCHANGED <<mode, numbered, made, change, width, listed, todo, last, map, base, seen, failed, crossed>>
  BY DEF WriteTimed, room, outside, history
<1>2. CASE got = {}
  BY <1>1, <1>2 DEF WriteTimed
<1>3. CASE got # {}
  <2> DEFINE s == CHOOSE s \in got : \A u \in got \ {s} : Earlier(s, u)
  <2>1. s \in got /\ \A u \in got \ {s} : Earlier(s, u)
    BY <1>3, FirstInTime
  <2>2. \/ WriteMedia(<<Media(s[1], s[2])>>) /\ got' = got \ {s} /\ pc' = pc
        \/ UNCHANGED <<got, files>> /\ pc' = "ended"
    BY <1>3 DEF WriteTimed, Refused, Ends
  <2> HIDE DEF s
  <2> QED BY <1>1, <2>1, <2>2
<1> QED BY <1>2, <1>3

LEMMA OneWritten ==
  ASSUME Base, NEW t \in Tracks, NEW n \in 1..made, WriteMedia(<<Media(t, n)>>)
  PROVE  FilesTyped' /\ Grows({<<t, n>>})
<1> DEFINE segs == <<Media(t, n)>>
<1>1. n \in Nat
  BY DEF Base
<1>2. Media(t, n) \in Rec /\ Media(t, n).what = t /\ Media(t, n).n = n
  BY <1>1, MediaRecord
<1>3. segs \in Seq(Rec) /\ Len(segs) = 1 /\ segs[1] = Media(t, n)
  BY <1>2
<1>4. \A i \in 1..Len(segs) : i = 1
  BY <1>3
<1>5. WriteMedia(segs)
  OBVIOUS
<1> HIDE DEF segs
<1>6. FilesTyped'
  BY <1>3, <1>5, FilesMedia
<1>7. /\ \A i, j \in 1..Len(segs) : i < j => segs[i].what # segs[j].what
      /\ \A i \in 1..Len(segs) : <<segs[i].what, segs[i].n>> \in {<<t, n>>}
      /\ \A s \in {<<t, n>>} : \E i \in 1..Len(segs) : <<segs[i].what, segs[i].n>> = s
  BY <1>2, <1>3, <1>4
<1> QED BY <1>3, <1>5, <1>6, <1>7, GrowsByMedia

LEMMA BaseWriteTimed == ASSUME Base, WriteTimed PROVE Base'
<1>1. /\ pc = "walk" /\ mode = "timed" /\ todo = None
      /\ UNCHANGED <<mode, numbered, made, change, width, listed, todo, last, map, base, seen, failed>>
  BY TimedMoves
<1>2. /\ FilesTyped' /\ got' \subseteq got /\ pc' \in {"poll", "walk", "ended"}
  <2>1. CASE UNCHANGED <<got, files>> /\ pc' \in {"poll", "ended"}
    BY <2>1, FilesSame
  <2>2. ASSUME NEW s \in got, WriteMedia(<<Media(s[1], s[2])>>), got' = got \ {s}, pc' = pc
        PROVE  FilesTyped' /\ got' \subseteq got /\ pc' \in {"poll", "walk", "ended"}
    <3>1. s[1] \in Tracks /\ s[2] \in 1..made
      BY DEF Base
    <3> QED BY <1>1, <2>2, <3>1, OneWritten
  <2> QED BY <2>1, <2>2, TimedMoves
<1>3. \A t \in Of(mode) : todo[t] = {}
  BY <1>1 DEF None, Of, Tracks
<1> QED BY <1>1, <1>2, <1>3 DEF Base, FilesTyped

LEMMA BaseKept == ASSUME Base, [Next]_vars PROVE Base'
<1>1. CASE UNCHANGED vars
  BY <1>1 DEF Base, vars, room, outside, history, counters, tracks, files, Of
<1>2. CASE Next
  BY <1>2, BaseOutside, BasePollVideo, BasePollPair, BasePollFails, BaseRefreshURL, BaseVideoInit,
     BaseVideoSegment, BaseCombinedInit, BasePairSegments, BaseFetchTimed, BaseWriteTimed
     DEF Next, Watching
<1> QED BY <1>1, <1>2

\* A step that writes S keeps the order when each segment of S is still to be
\* fetched or written, is taken up, and is the least of its track to be so.
LEMMA OrderGrown ==
  ASSUME Base, Base', numbered, numbered', InOrder, Behind, NEW S \in SUBSET (Tracks \X (1..made)), Grows(S),
         \A t \in Tracks, n \in 1..made : <<t, n>> \in S =>
            /\ n \in todo[t] \/ <<t, n>> \in got
            /\ n <= last'[t]
            /\ \A m \in todo'[t] : n < m
            /\ \A m \in 1..made' : <<t, m>> \in got' => n < m,
         \A t \in Tracks :
            /\ last[t] <= last'[t]
            /\ \A m \in todo'[t] : m \in todo[t] \/ last[t] < m
            /\ \A m \in 1..made' : <<t, m>> \in got' => <<t, m>> \in got \/ m \in todo[t]
  PROVE  InOrder' /\ Behind'
<1> DEFINE L == Len(out)
           K == Len(out')
<1>1. /\ out \in Seq(Rec) /\ out' \in Seq(Rec) /\ DOMAIN out = 1..L /\ DOMAIN out' = 1..K
      /\ L \in Nat /\ K \in Nat /\ L <= K
  BY DEF Base, Grows
<1>2. \A i \in 1..K : out'[i].n \in Nat /\ out'[i].what \in {"init"} \cup Tracks
  <2> TAKE i \in 1..K
  <2>1. out'[i] \in Rec
    BY <1>1
  <2> HIDE DEF K
  <2> QED BY <2>1 DEF Rec, Tracks
<1>3. \A i \in 1..L : out'[i] = out[i]
  BY DEF Grows
<1>4. \A i \in L+1..K :
        /\ out'[i].what = "init" \/ <<out'[i].what, out'[i].n>> \in S
        /\ \A j \in i+1..K : out'[i].what = out'[j].what => out'[i].what = "init"
  BY DEF Grows
<1>5. ASSUME NEW t \in Tracks, NEW n, <<t, n>> \in S
      PROVE  /\ n \in 1..made /\ n <= last'[t]
             /\ \A i \in 1..L : out[i].what = t => out[i].n < n
             /\ \A m \in todo'[t] : n < m
             /\ \A m \in 1..made' : <<t, m>> \in got' => n < m
  <2>1. n \in 1..made
    BY <1>5
  <2>2. n \in todo[t] \/ <<t, n>> \in got
    BY <1>5, <2>1
  <2>3. \A i \in 1..L : out[i].what = t => out[i].n < n
    BY <1>1, <2>1, <2>2 DEF Behind
  <2> QED BY <1>5, <2>1, <2>3
<1> HIDE DEF L, K
<1>6. ASSUME NEW i \in 1..K, NEW j \in 1..K, i < j, out'[i].what = out'[j].what,
             out'[i].what # "init", out'[j].n # 0
      PROVE  out'[i].n < out'[j].n
  <2>1. CASE i \in 1..L /\ j \in 1..L
    BY <1>1, <1>3, <1>6, <2>1 DEF InOrder, Number
  <2>2. CASE i \in 1..L /\ j \notin 1..L
    <3>1. j \in L+1..K
      BY <1>1, <2>2
    <3>2. <<out'[j].what, out'[j].n>> \in S /\ out'[j].what \in Tracks
      BY <1>2, <1>4, <1>6, <3>1
    <3>3. out[i].what = out'[j].what
      BY <1>3, <1>6, <2>2
    <3>4. out[i].n < out'[j].n
      BY <1>5, <2>2, <3>2, <3>3
    <3> QED BY <1>3, <2>2, <3>4
  <2>3. CASE i \notin 1..L
    <3>1. i \in L+1..K /\ j \in i+1..K
      BY <1>1, <1>6, <2>3
    <3> QED BY <1>4, <1>6, <3>1
  <2> QED BY <2>1, <2>2, <2>3
<1>7. ASSUME NEW i \in 1..K, NEW t \in Tracks, out'[i].what = t
      PROVE  /\ out'[i].n <= last'[t]
             /\ \A m \in todo'[t] : out'[i].n < m
             /\ \A m \in 1..made' : <<t, m>> \in got' => out'[i].n < m
  <2>1. CASE i \in 1..L
    <3>1. out'[i] = out[i] /\ out[i].n \in Nat
      BY <1>2, <1>3, <2>1
    <3>2. /\ out[i].n <= last[t]
          /\ \A m \in todo[t] : out[i].n < m
          /\ \A m \in 1..made : <<t, m>> \in got => out[i].n < m
      BY <1>1, <1>7, <2>1, <3>1 DEF Behind
    <3>3. last[t] \in Nat /\ last'[t] \in Nat /\ last[t] <= last'[t]
      BY DEF Base
    <3>4. \A m \in todo'[t] : m \in Nat /\ (m \in todo[t] \/ last[t] < m)
      BY DEF Base
    <3>5. ASSUME NEW m \in 1..made', <<t, m>> \in got' PROVE out[i].n < m
      <4>1. <<t, m>> \in got \/ m \in todo[t]
        BY <3>5
      <4>2. <<t, m>> \in got => m \in 1..made
        BY DEF Base
      <4> QED BY <3>2, <4>1, <4>2
    <3> QED BY <3>1, <3>2, <3>3, <3>4, <3>5
  <2>2. CASE i \notin 1..L
    <3>1. i \in L+1..K /\ t # "init"
      BY <1>1, <2>2 DEF Tracks
    <3>2. <<t, out'[i].n>> \in S
      BY <1>4, <1>7, <3>1
    <3> QED BY <1>5, <3>2
  <2> QED BY <2>1, <2>2
<1> QED BY <1>1, <1>6, <1>7 DEF InOrder, Behind, Number

LEMMA OrderStart == ASSUME Init PROVE Order
<1>1. out = <<>> /\ todo = None /\ got = {} /\ pc = "poll"
  BY DEF Init
<1>2. InOrder /\ Behind
  BY <1>1 DEF InOrder, Behind
<1>3. TakenUp
  BY <1>1 DEF TakenUp, None
<1>4. Shifted
  BY <1>1 DEF Init, Shifted, None, Zero
<1> QED BY <1>2, <1>3, <1>4 DEF Order

\* Nothing is written: what is to be fetched, was, or comes after what was taken up.
LEMMA OrderQuiet ==
  ASSUME Base, Base', numbered, numbered', InOrder, Behind, Grows({}),
         \A t \in Tracks :
            /\ last[t] <= last'[t]
            /\ \A m \in todo'[t] : m \in todo[t] \/ last[t] < m
            /\ \A m \in 1..made' : <<t, m>> \in got' => <<t, m>> \in got \/ m \in todo[t]
  PROVE  InOrder' /\ Behind'
<1> DEFINE S == {}
<1>1. S \in SUBSET (Tracks \X (1..made)) /\ Grows(S)
  OBVIOUS
<1>2. \A t \in Tracks, n \in 1..made : <<t, n>> \in S =>
            /\ n \in todo[t] \/ <<t, n>> \in got
            /\ n <= last'[t]
            /\ \A m \in todo'[t] : n < m
            /\ \A m \in 1..made' : <<t, m>> \in got' => n < m
  OBVIOUS
<1> HIDE DEF S
<1> QED BY <1>1, <1>2, OrderGrown

LEMMA OrderSame ==
  ASSUME Base, Base', numbered, numbered', Order, UNCHANGED <<mode, numbered, todo, got, last, base, out>>,
         mode = "video" /\ pc' = "walk" => pc = "walk"
  PROVE  Order'
<1>1. Grows({})
  BY GrowsNot
<1>2. \A t \in Tracks :
            /\ last[t] <= last'[t]
            /\ \A m \in todo'[t] : m \in todo[t] \/ last[t] < m
            /\ \A m \in 1..made' : <<t, m>> \in got' => <<t, m>> \in got \/ m \in todo[t]
  <2>1. \A t \in Tracks : last[t] \in Nat
    BY DEF Base
  <2> QED BY <2>1
<1>3. InOrder' /\ Behind'
  BY <1>1, <1>2, OrderQuiet DEF Order
<1>4. TakenUp'
  <2>1. CASE mode = "video"
    BY <2>1 DEF Order, TakenUp
  <2>2. ASSUME mode # "video", NEW t \in Tracks, NEW m, <<t, m>> \in got
        PROVE  m <= last[t]
    <3>1. m \in 1..made
      BY <2>2 DEF Base
    <3> QED BY <2>2, <3>1 DEF Order, TakenUp
  <2> QED BY <2>1, <2>2 DEF Order, TakenUp
<1>5. Shifted'
  <2>1. \A m \in 1..made', t \in Tracks : <<t, m>> \in got => m \in 1..made
    BY DEF Base
  <2> QED BY <2>1 DEF Order, Shifted
<1> QED BY <1>3, <1>4, <1>5 DEF Order

LEMMA OrderPollVideo == ASSUME Base, Base', numbered, numbered', Order, PollVideo PROVE Order'
<1>1. /\ mode = "video" /\ UNCHANGED <<mode, numbered, made, got, last, out>>
      /\ todo' = [todo EXCEPT !["video"] = New("video", Listing)]
  BY DEF PollVideo, room, outside, history, files
<1>2. \A t \in Tracks : \A m \in todo'[t] : m \in todo[t] \/ last[t] < m
  <2>1. New("video", Listing) = {m \in Listing : m > last["video"]}
    BY ListingTyped, NewNumbered DEF Tracks
  <2> QED BY <1>1, <2>1 DEF Base, Tracks
<1>3. \A t \in Tracks : last[t] \in Nat
  BY DEF Base
<1>4. InOrder' /\ Behind'
  BY <1>1, <1>2, <1>3, GrowsNot, OrderQuiet DEF Order
<1>5. TakenUp'
  <2>1. New("video", Listing) = {m \in Listing : m > last["video"]}
    BY ListingTyped, NewNumbered DEF Tracks
  <2> QED BY <1>1, <2>1 DEF TakenUp, Base, Tracks
<1>6. Shifted'
  BY <1>1 DEF Shifted
<1> QED BY <1>4, <1>5, <1>6 DEF Order

LEMMA OrderVideoSegment == ASSUME Base, Base', numbered, numbered', Order, VideoSegment PROVE Order'
<1> DEFINE n == Min(todo["video"])
<1>1. pc = "walk" /\ mode = "video" /\ got = {} /\ todo["video"] # {}
  BY DEF Base, VideoSegment
<1>2. n \in todo["video"] /\ n \in 1..made /\ \A m \in todo["video"] : n <= m
  BY <1>1, LeastTodo DEF Tracks
<1>3. last' = [last EXCEPT !["video"] = n] /\ UNCHANGED <<mode, numbered, made, got>>
  <2>1. After("video", n) = n
    BY <1>2, AfterNumbered DEF Tracks
  <2> QED BY <2>1 DEF VideoSegment, Takes, room, outside, history
<1>4. \/ /\ WriteMedia(<<Media("video", n)>>)
         /\ todo' = [todo EXCEPT !["video"] = @ \ {n}] /\ Walks
      \/ /\ UNCHANGED out /\ Walks
         /\ todo' = [todo EXCEPT !["video"] = @ \ {n}] \/ todo' = [todo EXCEPT !["video"] = {}]
      \/ UNCHANGED <<out, todo>> /\ pc' = "ended"
  BY DEF VideoSegment, Leaves, Refused, Ends, files
<1> HIDE DEF n
<1>5. \A t \in Tracks : todo[t] \in SUBSET Nat /\ last[t] \in Nat
  BY DEF Base
<1>6. \A t \in Tracks : last[t] <= last'[t] /\ \A m \in todo'[t] : m \in todo[t]
  <2>1. last["video"] < n
    BY <1>1, <1>2 DEF Order, TakenUp
  <2>2. DOMAIN last = Tracks /\ DOMAIN todo = Tracks /\ n \in Nat
    BY <1>2 DEF Base
  <2>3. \A t \in Tracks : last[t] <= last'[t]
    BY <1>3, <1>5, <2>1, <2>2
  <2>4. \A t \in Tracks : todo'[t] \subseteq todo[t]
    BY <1>4, <2>2
  <2> QED BY <2>3, <2>4
<1>7. last'["video"] = n
  BY <1>3 DEF Base, Tracks
<1>8. InOrder' /\ Behind'
  <2>1. CASE WriteMedia(<<Media("video", n)>>) /\ todo' = [todo EXCEPT !["video"] = @ \ {n}]
    <3> DEFINE S == {<<"video", n>>}
    <3>1. S \in SUBSET (Tracks \X (1..made)) /\ Grows(S)
      BY <1>2, <2>1, OneWritten DEF Tracks
    <3>2. \A m \in todo'["video"] : n < m
      BY <1>2, <1>5, <2>1 DEF Base, Tracks
    <3>3. \A t \in Tracks, k \in 1..made : <<t, k>> \in S =>
            /\ k \in todo[t] \/ <<t, k>> \in got
            /\ k <= last'[t]
            /\ \A m \in todo'[t] : k < m
            /\ \A m \in 1..made' : <<t, m>> \in got' => k < m
      <4> SUFFICES ASSUME NEW t \in Tracks, NEW k \in 1..made, <<t, k>> \in S
                   PROVE  /\ k \in todo[t] \/ <<t, k>> \in got
                          /\ k <= last'[t]
                          /\ \A m \in todo'[t] : k < m
                          /\ \A m \in 1..made' : <<t, m>> \in got' => k < m
        OBVIOUS
      <4>1. t = "video" /\ k = n
        OBVIOUS
      <4>2. n \in Nat /\ got' = {}
        BY <1>1, <1>2, <1>3
      <4> HIDE DEF S
      <4> QED BY <4>1, <4>2, <1>2, <1>7, <3>2
    <3> HIDE DEF S
    <3> QED BY <1>3, <1>6, <3>1, <3>3, OrderGrown DEF Order
  <2>2. CASE out' = out
    BY <1>1, <1>3, <1>6, <2>2, GrowsNot, OrderQuiet DEF Order
  <2> QED BY <1>4, <2>1, <2>2
<1>9. TakenUp'
  <2>1. pc' = "walk" => \A m \in todo'["video"] : n < m
    <3>1. \A m \in todo["video"] \ {n} : n < m
      BY <1>2, <1>5 DEF Tracks
    <3>2. DOMAIN todo = Tracks /\ "video" \in Tracks
      BY DEF Base, Tracks
    <3>3. pc' = "walk" => todo'["video"] \subseteq todo["video"] \ {n}
      BY <1>4, <3>2
    <3> QED BY <3>1, <3>3
  <2> QED BY <1>1, <1>3, <1>7, <2>1 DEF TakenUp
<1> QED BY <1>1, <1>3, <1>8, <1>9 DEF Order, Shifted

LEMMA OrderVideoInit == ASSUME Base, Base', numbered, numbered', Order, VideoInit PROVE Order'
<1> DEFINE m == VideoMap(Min(todo["video"]))
<1>1. pc = "walk" /\ mode = "video" /\ todo["video"] # {}
  BY DEF Base, VideoInit
<1>2. Min(todo["video"]) \in Nat
  <2>1. Min(todo["video"]) \in 1..made
    BY <1>1, LeastTodo DEF Tracks
  <2> QED BY <2>1
<1>3. m \in [Tracks -> Nat]
  BY <1>2, VideoMapTyped
<1>4. WriteInit(m) \/ out' = out
  BY DEF VideoInit, VideoMap, Refused, files
<1>5. UNCHANGED <<mode, numbered, made, todo, got, last>>
  BY DEF VideoInit, room, outside, history
<1> HIDE DEF m
<1>6. Grows({})
  BY <1>3, <1>4, GrowsByInit, GrowsNot
<1>7. \A t \in Tracks : last[t] \in Nat
  BY DEF Base
<1>8. InOrder' /\ Behind'
  BY <1>5, <1>6, <1>7, OrderQuiet DEF Order
<1>9. TakenUp'
  BY <1>1, <1>5 DEF Order, TakenUp
<1> QED BY <1>1, <1>5, <1>8, <1>9 DEF Order, Shifted

LEMMA CombinedMoves ==
  ASSUME Base, numbered, CombinedInit
  PROVE  /\ pc = "inits" /\ mode # "video" /\ Grows({})
         /\ UNCHANGED <<mode, numbered, made, listed, got, base, failed>>
         /\ \/ UNCHANGED <<todo, last, seen>> /\ pc' \in {"poll", "ended"}
            \/ /\ todo' = [t \in Tracks |-> New(t, listed[t])]
               /\ seen' = [t \in Tracks |-> seen[t] \cup listed[t]]
               /\ \A t \in Tracks :
                    /\ last'[t] \in listed[t] \cup {last[t]} /\ last[t] <= last'[t]
                    /\ \A m \in todo'[t] : last[t] < m /\ m <= last'[t]
<1> DEFINE m == [t \in Tracks |-> FirstMap(t)]
           new == [t \in Tracks |-> New(t, listed[t])]
<1>1. m \in [Tracks -> Nat]
  BY FirstMapTyped
<1>2. UNCHANGED <<mode, numbered, made, listed, got, base, failed>> /\ pc = "inits"
  BY DEF CombinedInit, room, outside, history
<1>3. WriteInit(m) \/ out' = out
  BY DEF CombinedInit, Refused, files
<1>4. Grows({})
  <2> HIDE DEF m
  <2> QED BY <1>1, <1>3, GrowsByInit, GrowsNot
<1>5. CASE UNCHANGED <<todo, last, seen>> /\ pc' \in {"poll", "ended"}
  BY <1>2, <1>4, <1>5 DEF Base
<1>6. CASE /\ todo' = new /\ seen' = [t \in Tracks |-> seen[t] \cup listed[t]]
           /\ last' = [t \in Tracks |-> IF new[t] = {} THEN last[t] ELSE After(t, Max(new[t]))]
  <2>1. ASSUME NEW t \in Tracks
        PROVE  /\ last'[t] \in listed[t] \cup {last[t]} /\ last[t] <= last'[t]
               /\ \A k \in todo'[t] : last[t] < k /\ k <= last'[t]
    <3>1. todo'[t] = New(t, listed[t])
      BY <1>6
    <3>2. last'[t] = IF New(t, listed[t]) = {} THEN last[t] ELSE After(t, Max(New(t, listed[t])))
      BY <1>6
    <3>3. last[t] \in Nat /\ listed[t] \in SUBSET Nat
      BY DEF Base
    <3>4. New(t, listed[t]) \subseteq listed[t] /\ \A k \in New(t, listed[t]) : last[t] < k
      <4>1. listed[t] \in SUBSET (1..made)
        BY DEF Base
      <4> QED BY <3>3, <4>1, NewNumbered
    <3>5. CASE New(t, listed[t]) = {}
      BY <3>1, <3>2, <3>3, <3>5
    <3>6. CASE New(t, listed[t]) # {}
      <4> DEFINE x == Max(New(t, listed[t]))
      <4>1. x \in New(t, listed[t]) /\ \A k \in New(t, listed[t]) : k <= x
        BY <3>6, GreatestNew
      <4> HIDE DEF x
      <4>2. last'[t] = x
        <5>1. x \in 1..made
          BY <3>4, <4>1 DEF Base
        <5>2. After(t, x) = x
          BY <5>1, AfterNumbered
        <5> QED BY <3>2, <3>6, <5>2 DEF x
      <4>3. last[t] < x /\ x \in Nat /\ x \in listed[t]
        BY <3>3, <3>4, <4>1
      <4> QED BY <3>1, <3>3, <3>4, <4>1, <4>2, <4>3
    <3> QED BY <3>5, <3>6
  <2> QED BY <1>2, <1>4, <1>6, <2>1 DEF Base
<1>7. \/ UNCHANGED <<todo, last, seen>> /\ pc' \in {"poll", "ended"}
      \/ /\ todo' = new /\ seen' = [t \in Tracks |-> seen[t] \cup listed[t]]
         /\ last' = [t \in Tracks |-> IF new[t] = {} THEN last[t] ELSE After(t, Max(new[t]))]
  BY DEF CombinedInit, Stalls, Ends
<1> QED BY <1>5, <1>6, <1>7

LEMMA OrderCombinedInit == ASSUME Base, Base', numbered, numbered', Order, CombinedInit PROVE Order'
<1>1. /\ mode # "video" /\ Grows({}) /\ UNCHANGED <<mode, numbered, made, got, base>>
  BY CombinedMoves
<1>2. \A t \in Tracks : last[t] \in Nat /\ last'[t] \in Nat /\ last[t] <= last'[t]
  <2>1. \A t \in Tracks : last[t] \in Nat /\ last'[t] \in Nat
    BY DEF Base
  <2> QED BY <2>1, CombinedMoves
<1>3. \A t \in Tracks : \A m \in todo'[t] : m \in todo[t] \/ last[t] < m
  BY CombinedMoves
<1>4. InOrder' /\ Behind'
  BY <1>1, <1>2, <1>3, OrderQuiet DEF Order
<1>5. ASSUME NEW t \in Tracks, NEW m \in todo'[t] PROVE m <= last'[t]
  <2>1. CASE todo' = todo /\ last' = last
    BY <1>1, <1>5, <2>1 DEF Order, TakenUp
  <2>2. CASE \A k \in todo'[t] : k <= last'[t]
    BY <1>5, <2>2
  <2> QED BY <2>1, <2>2, CombinedMoves
<1>6. ASSUME NEW t \in Tracks, NEW m \in 1..made', <<t, m>> \in got' PROVE m <= last'[t]
  <2>1. m \in 1..made /\ <<t, m>> \in got
    BY <1>1, <1>6
  <2>2. m <= last[t]
    BY <1>1, <2>1 DEF Order, TakenUp
  <2> QED BY <1>2, <2>1, <2>2
<1>7. TakenUp'
  BY <1>1, <1>5, <1>6 DEF TakenUp
<1>8. Shifted'
  <2> SUFFICES ASSUME mode = "timed", NEW t \in Tracks
               PROVE  /\ base[t] <= last'[t]
                      /\ \A m \in todo'[t] : base[t] <= m
                      /\ \A m \in 1..made' : <<t, m>> \in got' => base[t] # 0 /\ base[t] <= m
    BY <1>1 DEF Shifted
  <2>1. /\ base[t] <= last[t] /\ base[t] \in Nat /\ \A m \in todo[t] : base[t] <= m
        /\ \A m \in 1..made : <<t, m>> \in got => base[t] # 0 /\ base[t] <= m
    BY DEF Order, Shifted, Base
  <2>2. \A m \in todo'[t] : m \in Nat /\ (m \in todo[t] \/ last[t] < m)
    BY <1>3 DEF Base
  <2> QED BY <1>1, <1>2, <2>1, <2>2
<1> QED BY <1>4, <1>7, <1>8 DEF Order

LEMMA OrderPairSegments == ASSUME Base, Base', numbered, numbered', Order, PairSegments PROVE Order'
<1>1. /\ pc = "walk" /\ mode = "paired" /\ UNCHANGED <<mode, numbered, made, got, last>> /\ got = {}
  BY PairMoves DEF Base
<1>2. CASE UNCHANGED <<files, todo, base, failed>> /\ pc' = "ended"
  BY <1>1, <1>2, OrderSame DEF files
<1>3. ASSUME NEW D \in SUBSET Tracks, NEW ok \in [D -> 1..made], Paired(D, ok)
      PROVE  Order'
  <2> DEFINE S == {<<t, ok[t]>> : t \in D}
  <2>1. Grows(S) /\ S \in SUBSET (Tracks \X (1..made))
    BY <1>3, PairFiles
  <2>2. ASSUME NEW t \in Tracks, NEW n, <<t, n>> \in S
        PROVE  n \in todo[t] /\ n \in Nat /\ todo'[t] = todo[t] \ {n} /\ \A m \in todo[t] : n <= m
    <3>1. t \in D /\ n = Min(todo[t]) /\ todo[t] # {}
      BY <1>3, <2>2 DEF Paired
    <3>2. n \in todo[t] /\ n \in 1..made /\ \A m \in todo[t] : n <= m
      BY <3>1, LeastTodo
    <3> QED BY <1>3, <3>1, <3>2 DEF Paired
  <2>3. \A t \in Tracks : todo'[t] \subseteq todo[t] /\ todo[t] \in SUBSET Nat /\ last[t] \in Nat
    BY <1>3 DEF Base, Paired
  <2>4. \A t \in Tracks : \A m \in todo[t] : m <= last[t]
    BY <1>1 DEF Order, TakenUp
  <2> HIDE DEF S
  <2>5. \A t \in Tracks, n \in 1..made : <<t, n>> \in S =>
            /\ n \in todo[t] \/ <<t, n>> \in got
            /\ n <= last'[t]
            /\ \A m \in todo'[t] : n < m
            /\ \A m \in 1..made' : <<t, m>> \in got' => n < m
    BY <1>1, <2>2, <2>3, <2>4
  <2>6. InOrder' /\ Behind'
    BY <1>1, <2>1, <2>3, <2>5, OrderGrown DEF Order
  <2>7. TakenUp'
    BY <1>1, <2>3, <2>4 DEF TakenUp
  <2> QED BY <1>1, <2>6, <2>7 DEF Order, Shifted
<1> QED BY <1>2, <1>3, PairMoves

LEMMA OrderFetchTimed == ASSUME Base, Base', numbered, numbered', Order, FetchTimed PROVE Order'
<1>1. /\ mode = "timed" /\ UNCHANGED <<mode, numbered, made, pc, last, files>>
  BY FetchMoves
<1>2. PICK t \in Tracks, n \in 1..made :
              /\ n \in todo[t] /\ (\A k \in todo[t] : n <= k) /\ todo' = [todo EXCEPT ![t] = @ \ {n}]
              /\ \/ got' = got \cup {<<t, n>>} /\ Based([u \in {t} |-> n])
                 \/ got' = got /\ base' = base
  BY FetchMoves
<1>3. \A u \in Tracks : todo'[u] \subseteq todo[u] /\ last[u] \in Nat
  BY <1>2 DEF Base
<1>4. \A u \in Tracks, m \in 1..made : <<u, m>> \in got' => <<u, m>> \in got \/ m \in todo[u]
  BY <1>2
<1>5. InOrder' /\ Behind'
  <2>1. out' = out
    BY <1>1 DEF files
  <2> QED BY <1>1, <1>3, <1>4, <2>1, GrowsNot, OrderQuiet DEF Order
<1>6. TakenUp'
  <2>1. \A u \in Tracks :
          /\ \A m \in todo[u] : m <= last[u]
          /\ \A m \in 1..made : <<u, m>> \in got => m <= last[u]
    BY <1>1 DEF Order, TakenUp
  <2> QED BY <1>1, <1>3, <1>4, <2>1 DEF TakenUp
<1>7. Shifted'
  <2> SUFFICES ASSUME NEW u \in Tracks
               PROVE  /\ base'[u] <= last[u]
                      /\ \A m \in todo'[u] : base'[u] <= m
                      /\ \A m \in 1..made : <<u, m>> \in got' => base'[u] # 0 /\ base'[u] <= m
    BY <1>1 DEF Shifted
  <2>1. /\ base[u] <= last[u] /\ base[u] \in Nat /\ \A m \in todo[u] : base[u] <= m
        /\ \A m \in 1..made : <<u, m>> \in got => base[u] # 0 /\ base[u] <= m
    BY <1>1 DEF Order, Shifted, Base
  <2>2. \A m \in todo[u] : m <= last[u] /\ m \in 1..made
    BY <1>1 DEF Order, TakenUp, Base
  <2>3. base'[u] = base[u] \/ (u = t /\ base[u] = 0 /\ base'[u] = n)
    BY <1>2 DEF Based
  <2>4. u = t /\ got' # got => base'[u] = IF base[u] = 0 THEN n ELSE base[u]
    BY <1>2 DEF Based
  <2>5. CASE u = t
    <3>1. \A m \in 1..made : <<u, m>> \in got' => <<u, m>> \in got \/ (m = n /\ got' # got)
      BY <1>2
    <3>2. n \in todo[u] /\ n # 0 /\ n \in Nat /\ \A k \in todo[u] : n <= k
      BY <1>2, <2>5
    <3> QED BY <1>3, <2>1, <2>2, <2>3, <2>4, <2>5, <3>1, <3>2
  <2>6. CASE u # t
    <3>1. \A m \in 1..made : <<u, m>> \in got' => <<u, m>> \in got
      BY <1>2, <2>6
    <3> QED BY <1>3, <2>1, <2>3, <2>6, <3>1
  <2> QED BY <2>5, <2>6
<1> QED BY <1>5, <1>6, <1>7 DEF Order

LEMMA OrderWriteTimed == ASSUME Base, Base', numbered, numbered', Order, WriteTimed PROVE Order'
<1>1. /\ mode = "timed" /\ todo = None /\ UNCHANGED <<mode, numbered, made, todo, last, base>>
  BY TimedMoves
<1>2. CASE UNCHANGED <<got, files>>
  BY <1>1, <1>2, OrderSame DEF files
<1>3. ASSUME NEW s \in got, \A u \in got \ {s} : Earlier(s, u),
             WriteMedia(<<Media(s[1], s[2])>>), got' = got \ {s}
      PROVE  Order'
  <2>1. s[1] \in Tracks /\ s[2] \in 1..made /\ s = <<s[1], s[2]>>
    BY DEF Base
  <2> DEFINE S == {<<s[1], s[2]>>}
  <2>2. Grows(S) /\ S \in SUBSET (Tracks \X (1..made))
    BY <1>3, <2>1, OneWritten
  <2>3. \A t \in Tracks : todo[t] = {} /\ last[t] \in Nat /\ base[t] \in Nat
    BY <1>1 DEF None, Base
  <2>4. \A t \in Tracks, m \in 1..made : <<t, m>> \in got => m <= last[t]
    BY <1>1 DEF Order, TakenUp
  <2>5. ASSUME NEW m \in 1..made, <<s[1], m>> \in got'
        PROVE  s[2] < m
    <3>1. <<s[1], m>> \in got /\ m # s[2]
      BY <1>3, <2>1, <2>5
    <3>2. Earlier(s, <<s[1], m>>)
      BY <1>3, <2>1, <2>5
    <3>3. Time(s) = s[2] - base[s[1]] /\ Time(<<s[1], m>>) = m - base[s[1]]
      <4>1. base[s[1]] <= s[2] /\ base[s[1]] <= m
        BY <1>1, <2>1, <3>1 DEF Order, Shifted
      <4>2. base[s[1]] \in Nat /\ s[2] \in Nat /\ m \in Nat
        BY <2>1, <2>3
      <4> QED BY <4>1, <4>2 DEF Time
    <3>4. s[2] - base[s[1]] <= m - base[s[1]]
      <4>1. s[2] \in Nat /\ m \in Nat /\ base[s[1]] \in Nat
        BY <2>1, <2>3
      <4> QED BY <3>2, <3>3, <4>1 DEF Earlier
    <3>5. s[2] <= m
      <4>1. s[2] \in Nat /\ m \in Nat /\ base[s[1]] \in Nat
        BY <2>1, <2>3
      <4> QED BY <3>4, <4>1
    <3> QED BY <2>1, <3>1, <3>5
  <2>6. \A t \in Tracks, n \in 1..made : <<t, n>> \in S =>
            /\ n \in todo[t] \/ <<t, n>> \in got
            /\ n <= last'[t]
            /\ \A m \in todo'[t] : n < m
            /\ \A m \in 1..made' : <<t, m>> \in got' => n < m
    <3> SUFFICES ASSUME NEW t \in Tracks, NEW n \in 1..made, <<t, n>> \in S
                 PROVE  /\ n \in todo[t] \/ <<t, n>> \in got
                        /\ n <= last'[t]
                        /\ \A m \in todo'[t] : n < m
                        /\ \A m \in 1..made' : <<t, m>> \in got' => n < m
      OBVIOUS
    <3>1. t = s[1] /\ n = s[2] /\ <<t, n>> \in got
      BY <2>1
    <3> HIDE DEF S
    <3> QED BY <1>1, <2>3, <2>4, <2>5, <3>1
  <2> HIDE DEF S
  <2>7. InOrder' /\ Behind'
    BY <1>1, <1>3, <2>2, <2>3, <2>6, OrderGrown DEF Order
  <2>8. TakenUp'
    BY <1>1, <1>3, <2>3, <2>4 DEF TakenUp
  <2>9. Shifted'
    BY <1>1, <1>3 DEF Order, Shifted
  <2> QED BY <2>7, <2>8, <2>9 DEF Order
<1> QED BY <1>2, <1>3, TimedMoves

LEMMA OrderOutside ==
  ASSUME Base, Base', numbered, numbered', Order, MakeSegment \/ GoesOffline \/ Cancel
  PROVE  Order'
<1>1. UNCHANGED <<mode, numbered, todo, got, last, base, out, pc>>
  BY DEF MakeSegment, GoesOffline, Cancel, room, tracks, files
<1> QED BY <1>1, OrderSame

LEMMA OrderPolls ==
  ASSUME Base, Base', numbered, numbered', Order, PollFails \/ RefreshURL \/ \E t \in Tracks : PollPair(t)
  PROVE  Order'
<1>1. UNCHANGED <<mode, numbered, todo, got, last, base, out>> /\ pc' # "walk"
  BY DEF PollFails, RefreshURL, PollPair, Ends, room, outside, history, tracks, files
<1> QED BY <1>1, OrderSame

LEMMA NumberedStays == ASSUME [Next]_vars PROVE numbered' = numbered
BY DEF Next, Watching, vars, room, MakeSegment, GoesOffline, Cancel, PollVideo, PollPair, PollFails,
       RefreshURL, VideoInit, VideoSegment, CombinedInit, PairSegments, FetchTimed, WriteTimed

LEMMA OrderKept == ASSUME Base, Base', numbered, numbered', Order, [Next]_vars PROVE Order'
<1>1. CASE UNCHANGED vars
  <2>1. UNCHANGED <<mode, numbered, todo, got, last, base, out, pc>>
    BY <1>1 DEF vars, room, tracks, files
  <2> QED BY <2>1, OrderSame
<1>2. CASE Next
  BY <1>2, OrderOutside, OrderPolls, OrderPollVideo, OrderVideoInit, OrderVideoSegment,
     OrderCombinedInit, OrderPairSegments, OrderFetchTimed, OrderWriteTimed DEF Next, Watching
<1> QED BY <1>1, <1>2

\* What VideoSegment does to the list, and what it writes or gives up.
LEMMA VideoMoves ==
  ASSUME Base, VideoSegment
  PROVE  LET n == Min(todo["video"]) IN
         /\ pc = "walk" /\ mode = "video" /\ got = {}
         /\ n \in todo["video"] /\ n \in 1..made /\ \A m \in todo["video"] : n <= m
         /\ last' = [last EXCEPT !["video"] = After("video", n)]
         /\ UNCHANGED <<mode, numbered, made, change, width, listed, got, map, seen, crossed>>
         /\ \/ /\ WriteMedia(<<Media("video", n)>>) /\ ~NeedsInit(n)
               /\ todo' = [todo EXCEPT !["video"] = @ \ {n}] /\ UNCHANGED failed /\ pc' # "ended"
            \/ /\ UNCHANGED files /\ failed' = failed \cup {<<"video", n>>} /\ pc' # "ended"
               /\ todo' = [todo EXCEPT !["video"] = @ \ {n}]
            \/ /\ UNCHANGED files /\ failed' = failed \cup {<<"video", n>>} /\ pc' = "poll"
               /\ todo' = [todo EXCEPT !["video"] = {}]
            \/ UNCHANGED <<files, todo, failed>> /\ pc' = "ended"
<1> DEFINE n == Min(todo["video"])
<1>1. pc = "walk" /\ mode = "video" /\ got = {} /\ todo["video"] # {}
  BY DEF Base, VideoSegment
<1>2. n \in todo["video"] /\ n \in 1..made /\ \A m \in todo["video"] : n <= m
  BY <1>1, LeastTodo DEF Tracks
<1>3. /\ last' = [last EXCEPT !["video"] = After("video", n)] /\ ~NeedsInit(n)
      /\ UNCHANGED <<mode, numbered, made, change, width, listed, got, map, seen, crossed>>
  BY DEF VideoSegment, Takes, room, outside, history
<1>4. Walks => pc' # "ended" /\ (todo'["video"] = {} => pc' = "poll")
  BY DEF Walks
<1>5. \/ /\ WriteMedia(<<Media("video", n)>>) /\ UNCHANGED failed
         /\ todo' = [todo EXCEPT !["video"] = @ \ {n}] /\ Walks
      \/ /\ UNCHANGED files /\ failed' = failed \cup {<<"video", n>>} /\ Walks
         /\ todo' = [todo EXCEPT !["video"] = @ \ {n}]
      \/ /\ UNCHANGED files /\ failed' = failed \cup {<<"video", n>>} /\ Walks
         /\ todo' = [todo EXCEPT !["video"] = {}]
      \/ UNCHANGED <<files, todo, failed>> /\ pc' = "ended"
  BY DEF VideoSegment, Leaves, Refused, Ends
<1>6. todo' = [todo EXCEPT !["video"] = {}] => todo'["video"] = {}
  BY DEF Base, Tracks
<1> HIDE DEF n
<1>7. \/ /\ WriteMedia(<<Media("video", n)>>) /\ ~NeedsInit(n)
         /\ todo' = [todo EXCEPT !["video"] = @ \ {n}] /\ UNCHANGED failed /\ pc' # "ended"
      \/ /\ UNCHANGED files /\ failed' = failed \cup {<<"video", n>>} /\ pc' # "ended"
         /\ todo' = [todo EXCEPT !["video"] = @ \ {n}]
      \/ /\ UNCHANGED files /\ failed' = failed \cup {<<"video", n>>} /\ pc' = "poll"
         /\ todo' = [todo EXCEPT !["video"] = {}]
      \/ UNCHANGED <<files, todo, failed>> /\ pc' = "ended"
  BY <1>3, <1>4, <1>5, <1>6
<1> QED BY <1>1, <1>2, <1>3, <1>7 DEF n

LEMMA ModeStays == ASSUME [Next]_vars PROVE mode' = mode
BY DEF Next, Watching, vars, room, MakeSegment, GoesOffline, Cancel, PollVideo, PollPair, PollFails,
       RefreshURL, VideoInit, VideoSegment, CombinedInit, PairSegments, FetchTimed, WriteTimed

\* Without numbers in the names those of a single playlist count from 0, which
\* is none: of all but its first segment the order is kept.
Counted ==
    mode = "video" /\ ~numbered =>
        /\ InOrder
        /\ \A i \in DOMAIN out : out[i].what # "audio"
        /\ \A i \in DOMAIN out : out[i].what = "video" => out[i].n <= last["video"] + 1
        /\ pc = "walk" => \A m \in todo["video"] : m = 1 \/ m > last["video"] + 1

LEMMA CountedStart == ASSUME Init PROVE Counted
BY DEF Init, Counted, InOrder

\* Nothing is written, or the next segment.
LEMMA CountedGrows ==
  ASSUME Base, Base', Counted, mode = "video", ~numbered, UNCHANGED <<mode, numbered>>,
         NEW S, Grows(S), NEW n \in Nat \ {0}, S \subseteq {<<"video", n>>},
         n = 1 \/ n > last["video"] + 1,
         \/ last' = [last EXCEPT !["video"] = After("video", n)]
         \/ last' = last /\ S = {}
  PROVE  /\ InOrder'
         /\ \A i \in DOMAIN out' : out'[i].what # "audio"
         /\ \A i \in DOMAIN out' : out'[i].what = "video" => out'[i].n <= last'["video"] + 1
<1>1. /\ DOMAIN out = 1..Len(out) /\ DOMAIN out' = 1..Len(out')
      /\ Len(out) \in Nat /\ Len(out') \in Nat /\ Len(out) <= Len(out')
  BY DEF Base, Grows
<1>2. last["video"] \in Nat /\ n \in Nat /\ last'["video"] = (IF n = 1 \/ (S = {} /\ last' = last) THEN last["video"] ELSE n - 1)
  <2>1. made \in Nat
    BY DEF Base
  <2>2. last["video"] \in 0..made /\ last \in [Tracks -> 0..made] /\ "video" \in Tracks
    BY DEF Base, Tracks
  <2>3. After("video", n) = (IF n = 1 THEN last["video"] ELSE n - 1)
    BY <2>1 DEF After, Number
  <2> QED BY <2>1, <2>2, <2>3
<1>3. \A i \in DOMAIN out : /\ out[i].what \in {"init", "video"} /\ out[i].n \in Nat
                            /\ out[i].what = "video" => out[i].n <= last["video"] + 1
  <2> TAKE i \in DOMAIN out
  <2>1. out[i] \in Rec
    BY DEF Base
  <2>2. out[i].what \in {"init", "video", "audio"} /\ out[i].n \in Nat
    BY <2>1 DEF Rec
  <2> QED BY <2>2 DEF Counted
<1>4. ASSUME NEW i \in 1..Len(out')
      PROVE  \/ i \in 1..Len(out) /\ out'[i] = out[i]
             \/ i > Len(out) /\ out'[i].what = "init"
             \/ /\ i > Len(out) /\ out'[i].what = "video" /\ out'[i].n = n /\ S # {}
                /\ \A j \in i+1..Len(out') : out'[j].what # "video"
  <2>1. CASE i \in 1..Len(out)
    BY <2>1 DEF Grows
  <2>2. CASE i \notin 1..Len(out)
    <3>1. i \in Len(out)+1..Len(out') /\ i > Len(out)
      BY <1>1, <2>2
    <3>2. /\ out'[i].what = "init" \/ <<out'[i].what, out'[i].n>> \in S
          /\ \A j \in i+1..Len(out') : out'[i].what = out'[j].what => out'[i].what = "init"
      BY <3>1 DEF Grows
    <3>3. <<out'[i].what, out'[i].n>> \in S => out'[i].what = "video" /\ out'[i].n = n /\ S # {}
      OBVIOUS
    <3> QED BY <3>1, <3>2, <3>3
  <2> QED BY <2>1, <2>2
<1>5. \A i \in DOMAIN out' : out'[i].what \in {"init", "video"}
  BY <1>1, <1>3, <1>4
<1>6. ASSUME NEW i \in DOMAIN out', out'[i].what = "video"
      PROVE  out'[i].n <= last'["video"] + 1
  <2>1. CASE i \in 1..Len(out) /\ out'[i] = out[i]
    BY <1>1, <1>2, <1>3, <1>6, <2>1
  <2>2. CASE out'[i].n = n /\ S # {}
    BY <1>2, <2>2
  <2> QED BY <1>1, <1>4, <1>6, <2>1, <2>2
<1>7. ASSUME NEW i \in DOMAIN out', NEW j \in DOMAIN out', i < j, out'[i].what = out'[j].what,
             out'[i].what # "init", Number(out[j].n)' # 0
      PROVE  out'[i].n < out'[j].n
  <2>1. out'[i].what = "video" /\ out'[j].what = "video"
    BY <1>5, <1>7
  <2>2. Number(out[j].n)' = out'[j].n - 1
    BY DEF Number
  <2>3. CASE j \in 1..Len(out) /\ out'[j] = out[j]
    <3>1. i \in 1..Len(out) /\ out'[i] = out[i]
      BY <1>1, <1>4, <1>7, <2>3
    <3>2. Number(out[j].n) = out[j].n - 1
      BY DEF Number
    <3> QED BY <1>1, <1>7, <2>1, <2>2, <2>3, <3>1, <3>2 DEF Counted, InOrder
  <2>4. CASE j > Len(out) /\ out'[j].n = n /\ S # {}
    <3>1. i \in 1..Len(out) /\ out'[i] = out[i]
      BY <1>1, <1>4, <1>7, <2>1
    <3>2. n # 1
      BY <1>2, <1>7, <2>2, <2>4
    <3> QED BY <1>1, <1>2, <1>3, <2>1, <2>4, <3>1, <3>2
  <2> QED BY <1>1, <1>4, <2>1, <2>3, <2>4
<1> QED BY <1>5, <1>6, <1>7 DEF InOrder

LEMMA CountedQuiet ==
  ASSUME Base, Base', Counted, UNCHANGED <<mode, numbered, todo, last>>, Grows({}), pc' = "walk" => pc = "walk"
  PROVE  Counted'
<1>1. CASE mode = "video" /\ ~numbered
  <2>1. /\ InOrder'
        /\ \A i \in DOMAIN out' : out'[i].what # "audio"
        /\ \A i \in DOMAIN out' : out'[i].what = "video" => out'[i].n <= last'["video"] + 1
    <3>1. 1 \in Nat \ {0} /\ {} \subseteq {<<"video", 1>>}
      OBVIOUS
    <3> QED BY <1>1, <3>1, CountedGrows
  <2> QED BY <2>1 DEF Counted
<1>2. CASE ~(mode = "video" /\ ~numbered)
  BY <1>2 DEF Counted
<1> QED BY <1>1, <1>2

LEMMA CountedOthers ==
  ASSUME Base, Base', Counted, mode = "video", ~numbered,
         \/ UNCHANGED vars
         \/ MakeSegment \/ GoesOffline \/ Cancel
         \/ PollFails \/ RefreshURL \/ VideoInit
  PROVE  Counted'
<1>1. UNCHANGED <<mode, numbered, todo, last>>
  BY DEF vars, room, outside, history, tracks, MakeSegment, GoesOffline, Cancel, PollFails, RefreshURL,
         VideoInit
<1>2. pc' = "walk" => pc = "walk"
  BY DEF vars, MakeSegment, GoesOffline, Cancel, PollFails, RefreshURL, VideoInit, Ends
<1>3. CASE VideoInit
  <2> DEFINE m == VideoMap(Min(todo["video"]))
  <2>1. todo["video"] # {}
    BY <1>3 DEF Base, VideoInit
  <2>2. Min(todo["video"]) \in 1..made
    BY <2>1, LeastTodo DEF Tracks
  <2>3. m \in [Tracks -> Nat]
    BY <2>2, VideoMapTyped
  <2>4. WriteInit(m) \/ out' = out
    BY <1>3 DEF VideoInit, VideoMap, Refused, files
  <2> HIDE DEF m
  <2> QED BY <1>1, <1>2, <2>3, <2>4, GrowsByInit, GrowsNot, CountedQuiet
<1>4. CASE ~VideoInit
  <2>1. out' = out
    BY <1>4 DEF vars, files, MakeSegment, GoesOffline, Cancel, PollFails, RefreshURL
  <2> QED BY <1>1, <1>2, <2>1, GrowsNot, CountedQuiet
<1> QED BY <1>3, <1>4

LEMMA CountedPollVideo ==
  ASSUME Base, Base', Counted, mode = "video", ~numbered, PollVideo
  PROVE  Counted'
<1>1. UNCHANGED <<mode, numbered, last, out>> /\ todo' = [todo EXCEPT !["video"] = New("video", Listing)]
  BY DEF PollVideo, room, files
<1>2. todo'["video"] = New("video", Listing)
  BY <1>1 DEF Base, Tracks
<1>3. \A m \in New("video", Listing) : m = 1 \/ m > last["video"] + 1
  <2> TAKE m \in New("video", Listing)
  <2>1. made \in Nat
    BY DEF Base
  <2>2. last["video"] \in 0..made /\ Listing \in SUBSET (1..made)
    BY ListingTyped DEF Base, Tracks
  <2>3. m \in Listing /\ ~Known("video", m, Listing) /\ Number(m) = m - 1
    BY DEF New, Number
  <2> QED BY <2>1, <2>2, <2>3 DEF Known
<1> QED BY <1>1, <1>2, <1>3 DEF Counted, InOrder, Number

LEMMA CountedVideoSegment ==
  ASSUME Base, Base', Counted, mode = "video", ~numbered, VideoSegment
  PROVE  Counted'
<1> DEFINE n == Min(todo["video"])
<1>1. /\ pc = "walk" /\ n \in todo["video"] /\ n \in 1..made /\ \A m \in todo["video"] : n <= m
      /\ last' = [last EXCEPT !["video"] = After("video", n)] /\ UNCHANGED <<mode, numbered>>
      /\ WriteMedia(<<Media("video", n)>>) \/ UNCHANGED files
      /\ \/ todo' = [todo EXCEPT !["video"] = @ \ {n}]
         \/ todo' = [todo EXCEPT !["video"] = {}]
         \/ pc' = "ended"
  BY VideoMoves
<1>2. todo["video"] \in SUBSET (1..made) /\ made \in Nat /\ last["video"] \in 0..made
  BY DEF Base, Tracks
<1>3. n = 1 \/ n > last["video"] + 1
  BY <1>1 DEF Counted
<1> HIDE DEF n
<1>4. PICK S : Grows(S) /\ S \subseteq {<<"video", n>>}
  <2>1. CASE WriteMedia(<<Media("video", n)>>)
    BY <1>1, <2>1, OneWritten DEF Tracks
  <2>2. CASE UNCHANGED files
    BY <2>2, GrowsNot DEF files
  <2> QED BY <1>1, <2>1, <2>2
<1>5. n \in Nat \ {0}
  BY <1>1, <1>2
<1>6. /\ InOrder'
      /\ \A i \in DOMAIN out' : out'[i].what # "audio"
      /\ \A i \in DOMAIN out' : out'[i].what = "video" => out'[i].n <= last'["video"] + 1
  BY <1>1, <1>3, <1>4, <1>5, CountedGrows
<1>7. ASSUME pc' = "walk", NEW m \in todo'["video"]
      PROVE  m = 1 \/ m > last'["video"] + 1
  <2>0. "video" \in DOMAIN todo
    BY DEF Base, Tracks
  <2>1. m \in todo["video"] /\ m # n /\ m \in Nat /\ n < m
    <3>1. m \in todo["video"] \ {n}
      BY <1>1, <1>7, <2>0
    <3> QED BY <1>1, <1>2, <3>1
  <2>2. last'["video"] = (IF n = 1 THEN last["video"] ELSE n - 1)
    BY <1>1, <1>5 DEF Base, Tracks, After, Number
  <2>3. m = 1 \/ m > last["video"] + 1
    BY <1>1, <2>1 DEF Counted
  <2> QED BY <1>2, <1>5, <2>1, <2>2, <2>3
<1> QED BY <1>6, <1>7 DEF Counted

LEMMA CountedKept == ASSUME Base, Base', Counted, [Next]_vars PROVE Counted'
<1>1. numbered' = numbered /\ mode' = mode
  BY NumberedStays, ModeStays
<1>2. CASE mode = "video" /\ ~numbered
  <2>1. ~((\E t \in Tracks : PollPair(t)) \/ CombinedInit \/ PairSegments \/ FetchTimed \/ WriteTimed)
    BY <1>2 DEF Base, PollPair, CombinedInit, PairSegments, FetchTimed, WriteTimed
  <2> QED BY <1>2, <2>1, CountedOthers, CountedPollVideo, CountedVideoSegment DEF Next, Watching
<1>3. CASE ~(mode = "video" /\ ~numbered)
  BY <1>1, <1>3 DEF Counted
<1> QED BY <1>2, <1>3

\* Each track is written in order and never twice, as far as its segments have
\* numbers, whatever fails and is refreshed (watchVideoOnlySegments,
\* watchMuxedSegments).
THEOREM WrittenInOrder == Spec => []InOrder
<1> DEFINE Inv == Base /\ (numbered => Order) /\ Counted
<1>1. Init => Inv
  BY BaseStart, OrderStart, CountedStart
<1>2. Inv /\ [Next]_vars => Inv'
  BY BaseKept, NumberedStays, OrderKept, CountedKept
<1>3. Inv => InOrder
  <2>1. ASSUME ~numbered, mode # "video" PROVE InOrder
    BY <2>1 DEF InOrder, Number
  <2> QED BY <2>1 DEF Order, Counted
<1> QED BY <1>1, <1>2, <1>3, PTL DEF Spec

LEMMA ExpiredIs ==
  ASSUME Base, NEW n \in 1..made
  PROVE  Expired(n) <=> n + Window <= made
<1>1. made \in Nat /\ Window \in Nat
  BY WatchAssumption DEF Base
<1> QED BY <1>1 DEF Expired, Listing

LEMMA ExpiredStays ==
  ASSUME Base, Base', made <= made', NEW n \in 1..made, Expired(n)
  PROVE  Expired(n)'
<1>1. made \in Nat /\ made' \in Nat /\ Window \in Nat /\ n \in Nat
  BY WatchAssumption DEF Base
<1>2. n + Window <= made
  BY ExpiredIs
<1>3. n + Window <= made'
  BY <1>1, <1>2
<1>4. \A m, w \in Nat : n + w <= m => n \notin {k \in 1..m : k > m - w}
  BY <1>1
<1>5. Expired(n)' <=> n \notin {k \in 1..made' : k > made' - Window}
  BY DEF Expired, Listing
<1> QED BY <1>1, <1>3, <1>4, <1>5, Zenon

LEMMA ExpiredSame ==
  ASSUME Base, Base', made' = made
  PROVE  \A n \in 1..made : Expired(n) => Expired(n)'
<1>1. made <= made'
  BY DEF Base
<1> QED BY <1>1, ExpiredStays

LEMMA CoveredStart == ASSUME Init PROVE Covered
<1>1. /\ \A t \in Tracks : listed[t] = {} /\ todo[t] = {} /\ seen[t] = {} /\ last[t] = 0
      /\ Of(mode) \subseteq Tracks
  BY DEF Init, None, Zero, Of, Tracks
<1> QED BY <1>1 DEF Covered, Settled, Scanned, Closed

\* No list is read: what was to come is dealt with in order.
LEMMA CoveredTaken ==
  ASSUME Base, Base', numbered, Covered, UNCHANGED <<mode, numbered, seen, listed>>, made <= made',
         \A t \in Of(mode) :
           /\ todo'[t] \subseteq todo[t]
           /\ last'[t] \in todo[t] \cup {last[t]}
           /\ IF mode = "video" THEN \A k \in todo'[t], n \in todo[t] : k < n => n \in todo'[t]
              ELSE last'[t] = last[t]
  PROVE  Covered'
<1> SUFFICES ASSUME NEW t \in Of(mode)
             PROVE  Settled(t)' /\ IF mode = "video" THEN Closed(t)' ELSE Scanned(t)'
  BY DEF Covered
<1>1. t \in Tracks /\ Settled(t)
  BY DEF Covered, Of, Tracks
<1>2. /\ made \in Nat /\ made' \in Nat /\ last[t] \in 0..made
      /\ todo[t] \in SUBSET (1..made) /\ seen[t] \in SUBSET (1..made)
      /\ listed[t] \in SUBSET (1..made)
  BY <1>1 DEF Base
<1>3. Settled(t)'
  <2> SUFFICES ASSUME NEW n \in 1..made', n <= last'[t] \/ \E k \in todo'[t] : n <= k
               PROVE  n \in seen'[t] \/ Expired(n)'
    BY DEF Settled
  <2>1. n <= last[t] \/ \E k \in todo[t] : n <= k
    OBVIOUS
  <2>2. n \in 1..made
    BY <1>2, <2>1
  <2>3. n \in seen[t] \/ Expired(n)
    BY <1>1, <2>1, <2>2 DEF Settled
  <2> QED BY <2>2, <2>3, ExpiredStays
<1>4. CASE mode = "video"
  BY <1>3, <1>4 DEF Covered, Closed
<1>5. CASE mode # "video"
  <2>1. Scanned(t)
    BY <1>5 DEF Covered
  <2>2. ASSUME NEW n \in 1..made', NEW k \in listed'[t], n <= k
        PROVE  n \in listed'[t] \/ Expired(n)'
    <3>1. n \in 1..made /\ k \in listed[t]
      BY <1>2, <2>2
    <3>2. n \in listed[t] \/ Expired(n)
      BY <2>1, <2>2, <3>1 DEF Scanned
    <3> QED BY <3>1, <3>2, ExpiredStays
  <2>3. ASSUME NEW n \in listed'[t], n <= last'[t]
        PROVE  n \in seen'[t]
    BY <1>2, <1>5, <2>1, <2>3 DEF Scanned
  <2> QED BY <1>3, <1>5, <2>2, <2>3 DEF Scanned
<1> QED BY <1>4, <1>5

LEMMA CoveredPollVideo == ASSUME Base, Base', numbered, Covered, PollVideo PROVE Covered'
<1>1. /\ mode = "video" /\ UNCHANGED <<mode, numbered, made, last>>
      /\ todo' = [todo EXCEPT !["video"] = New("video", Listing)]
      /\ seen' = [seen EXCEPT !["video"] = @ \cup Listing]
  BY DEF PollVideo, room, outside, history
<1> DEFINE t == "video"
<1>2. todo'[t] = {n \in Listing : n > last[t]} /\ seen'[t] = seen[t] \cup Listing
  BY <1>1, ListingTyped, NewNumbered DEF Base, Tracks
<1>3. made \in Nat /\ last[t] \in Nat /\ seen[t] \subseteq 1..made /\ Window \in Nat
  BY WatchAssumption DEF Base, Tracks
<1>4. Settled(t)'
  <2> SUFFICES ASSUME NEW n \in 1..made PROVE n \in seen'[t] \/ Expired(n)'
    BY <1>1 DEF Settled
  <2>1. n \in Listing \/ Expired(n)
    BY DEF Expired
  <2> QED BY <1>1, <1>2, <2>1, ExpiredStays, <1>3
<1>5. Closed(t)'
  <2> SUFFICES ASSUME NEW n \in seen'[t], NEW k \in todo'[t], k < n
               PROVE  n \in todo'[t]
    BY DEF Closed
  <2>1. n \in 1..made /\ k \in Listing /\ k > last[t]
    BY <1>2, <1>3 DEF Listing
  <2>2. n \in Listing /\ n > last[t]
    BY <1>3, <2>1 DEF Listing
  <2> QED BY <1>2, <2>2
<1> QED BY <1>1, <1>4, <1>5 DEF Covered, Of

LEMMA CoveredPollPair == ASSUME Base, Base', numbered, Covered, NEW u \in Tracks, PollPair(u) PROVE Covered'
<1>1. /\ mode # "video" /\ UNCHANGED <<mode, numbered, made, last, todo, seen>>
      /\ listed' = [listed EXCEPT ![u] = Listing]
  BY DEF PollPair, Lists, room, outside, history
<1> SUFFICES ASSUME NEW t \in Tracks PROVE Settled(t)' /\ Scanned(t)'
  BY <1>1 DEF Covered, Of
<1>2. Settled(t) /\ Scanned(t)
  BY <1>1 DEF Covered, Of
<1>3. \A n \in 1..made : Expired(n) => Expired(n)'
  BY <1>1, ExpiredSame
<1>4. Settled(t)'
  BY <1>1, <1>2, <1>3 DEF Settled
<1>5. CASE t = u
  <2>1. listed'[t] = Listing
    BY <1>1, <1>5 DEF Base
  <2>2. \A n \in 1..made : n \in Listing \/ Expired(n)
    BY DEF Expired
  <2>3. \A n \in Listing : ~ Expired(n) /\ n \in 1..made
    BY DEF Expired, Listing
  <2>4. \A n \in Listing : n <= last[t] => n \in seen[t]
    BY <1>2, <2>3 DEF Settled
  <2> QED BY <1>1, <1>3, <1>4, <2>1, <2>2, <2>4 DEF Scanned
<1>6. CASE t # u
  <2>1. listed'[t] = listed[t]
    BY <1>1, <1>6 DEF Base
  <2> QED BY <1>1, <1>2, <1>3, <1>4, <2>1 DEF Scanned
<1> QED BY <1>5, <1>6

LEMMA CoveredCombinedInit == ASSUME Base, Base', numbered, Covered, CombinedInit PROVE Covered'
<1>1. mode # "video" /\ UNCHANGED <<mode, numbered, made, listed>>
  BY CombinedMoves
<1>2. CASE UNCHANGED <<todo, last, seen>>
  <2>1. \A t \in Of(mode) :
           /\ todo'[t] \subseteq todo[t]
           /\ last'[t] \in todo[t] \cup {last[t]}
           /\ last'[t] = last[t]
    BY <1>2
  <2>2. made <= made'
    BY <1>1 DEF Base
  <2> QED BY <1>1, <1>2, <2>1, <2>2, CoveredTaken
<1>3. CASE /\ todo' = [t \in Tracks |-> New(t, listed[t])]
           /\ seen' = [t \in Tracks |-> seen[t] \cup listed[t]]
           /\ \A t \in Tracks : last'[t] \in listed[t] \cup {last[t]}
  <2> SUFFICES ASSUME NEW t \in Tracks PROVE Settled(t)' /\ Scanned(t)'
    BY <1>1 DEF Covered, Of
  <2>1. Settled(t) /\ Scanned(t)
    BY <1>1 DEF Covered, Of
  <2>2. \A n \in 1..made : Expired(n) => Expired(n)'
    BY <1>1, ExpiredSame
  <2>3. todo'[t] \subseteq listed[t] /\ seen'[t] = seen[t] \cup listed[t]
        /\ last'[t] \in listed[t] \cup {last[t]}
    BY <1>3 DEF New
  <2>4. Settled(t)'
    <3> SUFFICES ASSUME NEW n \in 1..made, n <= last'[t] \/ \E k \in todo'[t] : n <= k
                 PROVE  n \in seen'[t] \/ Expired(n)'
      BY <1>1 DEF Settled
    <3>1. CASE n <= last[t]
      BY <2>1, <2>2, <2>3, <3>1 DEF Settled
    <3>2. CASE \E k \in listed[t] : n <= k
      BY <2>1, <2>2, <2>3, <3>2 DEF Scanned
    <3> QED BY <2>3, <3>1, <3>2
  <2>5. Scanned(t)'
    BY <1>1, <2>1, <2>2, <2>3 DEF Scanned
  <2> QED BY <2>4, <2>5
<1> QED BY <1>2, <1>3, CombinedMoves

LEMMA CoveredSame ==
  ASSUME Base, Base', numbered, Covered, UNCHANGED <<mode, numbered, todo, last, seen, listed>>, made <= made'
  PROVE  Covered'
<1>1. \A t \in Of(mode) :
           /\ todo'[t] \subseteq todo[t]
           /\ last'[t] \in todo[t] \cup {last[t]}
           /\ last'[t] = last[t]
           /\ \A k \in todo'[t], n \in todo[t] : k < n => n \in todo'[t]
  OBVIOUS
<1> QED BY <1>1, CoveredTaken
LEMMA CoveredVideoSegment == ASSUME Base, Base', numbered, Covered, VideoSegment PROVE Covered'
<1> DEFINE n == Min(todo["video"])
<1>1. /\ mode = "video" /\ n \in todo["video"] /\ \A m \in todo["video"] : n <= m
      /\ last' = [last EXCEPT !["video"] = n] /\ UNCHANGED <<mode, numbered, made, listed, seen>>
      /\ \/ todo' = [todo EXCEPT !["video"] = @ \ {n}]
         \/ todo' = [todo EXCEPT !["video"] = {}]
         \/ todo' = todo
  <2>1. n \in 1..made /\ last' = [last EXCEPT !["video"] = After("video", n)]
    BY VideoMoves
  <2>2. After("video", n) = n
    BY <2>1, AfterNumbered DEF Tracks
  <2> HIDE DEF n
  <2> QED BY <2>1, <2>2, VideoMoves DEF n
<1> HIDE DEF n
<1>2. "video" \in DOMAIN last /\ "video" \in DOMAIN todo /\ made \in Nat
      /\ todo["video"] \in SUBSET Nat /\ Of(mode) = {"video"}
  <2>1. /\ DOMAIN last = Tracks /\ DOMAIN todo = Tracks /\ made \in Nat
        /\ \A t \in Tracks : todo[t] \in SUBSET (1..made)
    BY DEF Base
  <2>2. "video" \in Tracks /\ Of(mode) = {"video"}
    BY <1>1 DEF Tracks, Of
  <2>3. todo["video"] \in SUBSET (1..made)
    BY <2>1, <2>2
  <2> QED BY <2>1, <2>2, <2>3
<1>3. last'["video"] = n /\ made <= made'
  BY <1>1, <1>2
<1>4. todo'["video"] = todo["video"] \ {n} \/ todo'["video"] = {} \/ todo'["video"] = todo["video"]
  BY <1>1, <1>2
<1>5. \A k \in todo'["video"], m \in todo["video"] : k < m => m \in todo'["video"]
  BY <1>1, <1>2, <1>4
<1>6. \A t \in Of(mode) :
           /\ todo'[t] \subseteq todo[t]
           /\ last'[t] \in todo[t] \cup {last[t]}
           /\ \A k \in todo'[t], m \in todo[t] : k < m => m \in todo'[t]
  BY <1>1, <1>2, <1>3, <1>4, <1>5
<1> QED BY <1>1, <1>3, <1>6, CoveredTaken

LEMMA CoveredMuxed ==
  ASSUME Base, Base', numbered, Covered, PairSegments \/ FetchTimed \/ WriteTimed
  PROVE  Covered'
<1>1. /\ mode # "video" /\ UNCHANGED <<mode, numbered, made, last, seen, listed>>
  BY PairMoves, FetchMoves, TimedMoves
<1>2. made <= made'
  BY <1>1 DEF Base
<1>3. \A t \in Tracks : todo'[t] \subseteq todo[t]
  <2>1. CASE PairSegments
    BY <2>1, PairMoves DEF Paired
  <2>2. CASE FetchTimed
    BY <2>2, FetchMoves DEF Base
  <2>3. CASE WriteTimed
    BY <2>3, TimedMoves
  <2> QED BY <2>1, <2>2, <2>3
<1>4. \A t \in Of(mode) :
           /\ todo'[t] \subseteq todo[t]
           /\ last'[t] \in todo[t] \cup {last[t]}
           /\ last'[t] = last[t]
  BY <1>1, <1>3 DEF Of
<1> QED BY <1>1, <1>2, <1>4, CoveredTaken

LEMMA CoveredOthers ==
  ASSUME Base, Base', numbered, Covered, MakeSegment \/ GoesOffline \/ Cancel \/ PollFails \/ RefreshURL \/ VideoInit
  PROVE  Covered'
<1>1. UNCHANGED <<mode, numbered, todo, last, seen, listed>>
  BY DEF MakeSegment, GoesOffline, Cancel, PollFails, RefreshURL, VideoInit, room, outside, history, tracks
<1>2. made' = made \/ made' = made + 1
  <2>1. CASE VideoInit
    BY <2>1 DEF VideoInit, outside
  <2>2. CASE ~ VideoInit
    BY <2>2 DEF MakeSegment, GoesOffline, Cancel, PollFails, RefreshURL, outside
  <2> QED BY <2>1, <2>2
<1>3. made <= made'
  <2>1. made \in Nat
    BY DEF Base
  <2> QED BY <1>2, <2>1
<1> QED BY <1>1, <1>3, CoveredSame

LEMMA CoveredKept == ASSUME Base, Base', numbered, Covered, [Next]_vars PROVE Covered'
<1>1. CASE UNCHANGED vars
  <2>1. UNCHANGED <<mode, numbered, todo, last, seen, listed, made>>
    BY <1>1 DEF vars, room, outside, history, tracks
  <2>2. made <= made'
    BY <2>1 DEF Base
  <2> QED BY <2>1, <2>2, CoveredSame
<1>2. CASE Next
  BY <1>2, CoveredOthers, CoveredMuxed, CoveredPollVideo, CoveredPollPair, CoveredVideoSegment,
     CoveredCombinedInit DEF Next, Watching
<1> QED BY <1>1, <1>2

LEMMA KeptStart == ASSUME Init PROVE Kept
<1>1. \A t \in Tracks : seen[t] = {}
  BY DEF Init, None
<1>2. Of(mode) \subseteq Tracks
  BY DEF Of, Tracks
<1> QED BY <1>1, <1>2 DEF Kept

LEMMA LeftStays ==
  ASSUME Base, NEW t \in Tracks, NEW n \in 1..made, Left(t, n), failed \subseteq failed',
         NEW S, Grows(S), \A k \in 1..n : <<t, k>> \notin S
  PROVE  Left(t, n)'
<1>1. PICK m \in 1..n-1 : <<t, m>> \in failed /\ \A k \in m+1..n : <<t, k>> \notin Written
  BY DEF Left
<1>2. \A k \in m+1..n : k \in 1..n
  OBVIOUS
<1>3. \A k \in m+1..n : <<t, k>> \notin Written'
  BY <1>1, <1>2, WrittenGrows
<1> QED BY <1>1, <1>3 DEF Left

\* Nothing is written or dealt with.
LEMMA KeptSame ==
  ASSUME Base, Base', numbered, Kept, UNCHANGED <<mode, numbered, todo, got, last, seen, failed>>, made <= made',
         Grows({}), pc' # "ended" => pc # "ended" /\ (pc' = "walk" => pc = "walk")
  PROVE  Kept'
<1> SUFFICES ASSUME pc' # "ended", NEW t \in Of(mode), NEW n \in seen[t]
             PROVE  \/ <<t, n>> \in Written' \cup failed \cup got
                    \/ n \in todo[t]
                    \/ mode = "video" /\ Left(t, n)' /\ (pc' = "walk" \/ n <= last[t] => Expired(n)')
  BY DEF Kept
<1>1. t \in Tracks /\ n \in 1..made
  BY DEF Base, Of, Tracks
<1>2. \/ <<t, n>> \in Written \cup failed \cup got
      \/ n \in todo[t]
      \/ mode = "video" /\ Left(t, n) /\ (pc = "walk" \/ n <= last[t] => Expired(n))
  BY DEF Kept
<1>3. <<t, n>> \in Written => <<t, n>> \in Written'
  BY <1>1, WrittenGrows
<1>4. Left(t, n) => Left(t, n)'
  BY <1>1, LeftStays
<1>5. Expired(n) => Expired(n)'
  BY <1>1, ExpiredStays
<1> QED BY <1>2, <1>3, <1>4, <1>5

\* With two playlists what was to come is written, fetched or given up.
LEMMA KeptMuxed ==
  ASSUME Base, Base', numbered, Kept, mode # "video", pc # "ended", UNCHANGED <<mode, numbered, seen>>,
         NEW S, Grows(S), failed \subseteq failed',
         \A t \in Tracks, n \in 1..made : n \in todo[t] \/ <<t, n>> \in got =>
            n \in todo'[t] \/ <<t, n>> \in S \cup failed' \cup got'
  PROVE  Kept'
<1> SUFFICES ASSUME NEW t \in Tracks, NEW n \in seen[t]
             PROVE  <<t, n>> \in Written' \cup failed' \cup got' \/ n \in todo'[t]
  BY DEF Kept, Of
<1>1. n \in 1..made
  BY DEF Base
<1>2. <<t, n>> \in Written \cup failed \cup got \/ n \in todo[t]
  BY DEF Kept, Of
<1>3. <<t, n>> \in Written \cup S => <<t, n>> \in Written'
  BY WrittenGrows
<1> QED BY <1>1, <1>2, <1>3

LEMMA KeptOthers ==
  ASSUME Base, Base', numbered, Kept, MakeSegment \/ GoesOffline \/ Cancel \/ PollFails \/ RefreshURL
                            \/ \E t \in Tracks : PollPair(t)
  PROVE  Kept'
<1>1. UNCHANGED <<mode, numbered, todo, got, last, seen, failed, out>>
  BY DEF MakeSegment, GoesOffline, Cancel, PollFails, RefreshURL, PollPair, room, outside, history, tracks, files
<1>2. made' = made \/ made' = made + 1
  BY DEF MakeSegment, GoesOffline, Cancel, PollFails, RefreshURL, PollPair, room, outside, history
<1>3. made <= made'
  <2>1. made \in Nat
    BY DEF Base
  <2> QED BY <1>2, <2>1
<1>4. pc' # "ended" => pc # "ended" /\ (pc' = "walk" => pc = "walk")
  BY DEF MakeSegment, GoesOffline, Cancel, PollFails, RefreshURL, PollPair, Ends
<1> QED BY <1>1, <1>3, <1>4, GrowsNot, KeptSame

LEMMA KeptVideoInit == ASSUME Base, Base', numbered, Kept, VideoInit PROVE Kept'
<1> DEFINE m == VideoMap(Min(todo["video"]))
<1>1. pc = "walk" /\ mode = "video" /\ todo["video"] # {}
  BY DEF Base, VideoInit
<1>2. m \in [Tracks -> Nat]
  <2>1. Min(todo["video"]) \in 1..made
    BY <1>1, LeastTodo DEF Tracks
  <2>2. Min(todo["video"]) \in Nat
    BY <2>1
  <2> QED BY <2>2, VideoMapTyped
<1>3. WriteInit(m) \/ out' = out
  BY DEF VideoInit, VideoMap, Refused, files
<1>4. UNCHANGED <<mode, numbered, made, todo, got, last, seen, failed>>
  BY DEF VideoInit, room, outside, history
<1> HIDE DEF m
<1>5. Grows({})
  BY <1>2, <1>3, GrowsByInit, GrowsNot
<1>6. made <= made'
  BY <1>4 DEF Base
<1> QED BY <1>1, <1>4, <1>5, <1>6, KeptSame

LEMMA KeptCombinedInit == ASSUME Base, Base', numbered, Covered, Kept, CombinedInit PROVE Kept'
<1>1. /\ pc = "inits" /\ mode # "video" /\ Grows({})
      /\ UNCHANGED <<mode, numbered, made, got, failed>>
  BY CombinedMoves
<1>2. CASE UNCHANGED <<todo, last, seen>> /\ pc' \in {"poll", "ended"}
  <2>1. made <= made'
    BY <1>1 DEF Base
  <2> QED BY <1>1, <1>2, <2>1, KeptSame
<1>3. CASE /\ todo' = [t \in Tracks |-> New(t, listed[t])]
           /\ seen' = [t \in Tracks |-> seen[t] \cup listed[t]]
  <2> SUFFICES ASSUME NEW t \in Tracks, NEW n \in seen'[t]
               PROVE  <<t, n>> \in Written' \cup failed \cup got \/ n \in todo'[t]
    BY <1>1 DEF Kept, Of
  <2>1. n \in seen[t] \cup listed[t] /\ todo'[t] = New(t, listed[t])
    BY <1>3
  <2>2. /\ n \in 1..made /\ made \in Nat /\ last[t] \in Nat /\ t \in Of(mode)
    BY <1>1, <2>1 DEF Base, Of
  <2>3. CASE n \in seen[t]
    <3>1. todo[t] = {}
      BY <1>1, <2>2 DEF Base
    <3>2. <<t, n>> \in Written \cup failed \cup got
      BY <1>1, <2>2, <2>3, <3>1 DEF Kept
    <3> QED BY <1>1, <3>2, WrittenGrows
  <2>4. CASE n \in listed[t] /\ n \notin seen[t]
    <3>1. ~ (n <= last[t])
      BY <1>1, <2>2, <2>4 DEF Covered, Scanned
    <3>2. listed[t] \in SUBSET (1..made)
      BY DEF Base
    <3>3. New(t, listed[t]) = {k \in listed[t] : k > last[t]}
      BY <3>2, NewNumbered
    <3> QED BY <2>1, <2>2, <2>4, <3>1, <3>3
  <2> QED BY <2>1, <2>3, <2>4
<1> QED BY <1>2, <1>3, CombinedMoves

LEMMA KeptPollVideo == ASSUME Base, Base', numbered, Covered, Kept, PollVideo PROVE Kept'
<1> DEFINE t == "video"
<1>1. /\ pc = "poll" /\ mode = t /\ UNCHANGED <<mode, numbered, made, got, last, failed, out>>
      /\ todo' = [todo EXCEPT !["video"] = New("video", Listing)]
      /\ seen' = [seen EXCEPT !["video"] = @ \cup Listing]
  BY DEF PollVideo, room, outside, history, files
<1>2. todo'[t] = {n \in Listing : n > last[t]} /\ seen'[t] = seen[t] \cup Listing
  BY <1>1, ListingTyped, NewNumbered DEF Base, Tracks
<1>3. todo[t] = {} /\ Of(mode) = {t} /\ last[t] \in Nat /\ t \in Tracks
  BY <1>1 DEF Base, Of, Tracks
<1>4. Grows({})
  BY <1>1, GrowsNot
<1> SUFFICES ASSUME NEW n \in seen'[t]
             PROVE  \/ <<t, n>> \in Written' \cup failed \cup got
                    \/ n \in todo'[t]
                    \/ Left(t, n)' /\ (pc' = "walk" \/ n <= last[t] => Expired(n)')
  BY <1>1, <1>3 DEF Kept
<1>5. n \in 1..made
  BY <1>1, <1>3 DEF Base
<1>6. Expired(n) => Expired(n)'
  BY <1>1, <1>5, ExpiredSame
<1>7. CASE n \in seen[t]
  <2>1. \/ <<t, n>> \in Written \cup failed \cup got
        \/ Left(t, n) /\ (n <= last[t] => Expired(n))
    BY <1>1, <1>3, <1>7 DEF Kept
  <2>2. <<t, n>> \in Written => <<t, n>> \in Written'
    BY <1>3, <1>4, WrittenGrows
  <2>3. Left(t, n) => Left(t, n)'
    BY <1>1, <1>3, <1>4, <1>5, LeftStays
  <2>4. n \in todo'[t] \/ n <= last[t] \/ Expired(n)
    BY <1>2, <1>3, <1>5 DEF Expired
  <2> QED BY <1>6, <2>1, <2>2, <2>3, <2>4
<1>8. CASE n \notin seen[t]
  <2>1. n \in Listing /\ ~ Expired(n)
    BY <1>2, <1>8 DEF Expired
  <2>2. ~ (n <= last[t])
    BY <1>3, <1>5, <1>8, <2>1 DEF Covered, Settled
  <2> QED BY <1>2, <1>3, <1>5, <2>1, <2>2
<1> QED BY <1>7, <1>8

LEMMA KeptVideoSegment == ASSUME Base, Base', numbered, Order, Covered, Kept, VideoSegment PROVE Kept'
<1> DEFINE t == "video"
           x == Min(todo["video"])
<1>1. /\ pc = "walk" /\ mode = t /\ got = {} /\ Of(mode) = {t} /\ t \in Tracks
      /\ x \in todo[t] /\ x \in 1..made /\ \A m \in todo[t] : x <= m
      /\ last' = [last EXCEPT ![t] = x]
      /\ UNCHANGED <<mode, numbered, made, got, seen>>
  <2>1. x \in 1..made /\ last' = [last EXCEPT ![t] = After(t, x)]
    BY VideoMoves
  <2>2. After(t, x) = x
    BY <2>1, AfterNumbered DEF Tracks
  <2> HIDE DEF x
  <2> QED BY <2>1, <2>2, VideoMoves DEF Of, Tracks, x
<1>2. \/ WriteMedia(<<Media(t, x)>>) /\ UNCHANGED failed /\ todo' = [todo EXCEPT ![t] = @ \ {x}]
      \/ UNCHANGED files /\ failed' = failed \cup {<<t, x>>} /\ todo' = [todo EXCEPT ![t] = @ \ {x}]
      \/ /\ UNCHANGED files /\ failed' = failed \cup {<<t, x>>} /\ pc' = "poll"
         /\ todo' = [todo EXCEPT ![t] = {}]
      \/ pc' = "ended"
  BY VideoMoves
<1> HIDE DEF x
<1>3. last'[t] = x /\ made \in Nat /\ last[t] \in Nat /\ DOMAIN todo = Tracks
  BY <1>1 DEF Base
<1>4. PICK S \in {{}, {<<t, x>>}} :
        /\ Grows(S) \/ pc' = "ended"
        /\ <<t, x>> \in S \cup failed' \/ pc' = "ended"
        /\ failed \subseteq failed' \/ pc' = "ended"
        /\ \/ pc' = "ended"
           \/ pc' = "poll" /\ todo'[t] = {} /\ <<t, x>> \in failed' /\ S = {}
           \/ todo'[t] = todo[t] \ {x}
  <2>1. CASE WriteMedia(<<Media(t, x)>>) /\ UNCHANGED failed /\ todo' = [todo EXCEPT ![t] = @ \ {x}]
    <3>1. Grows({<<t, x>>})
      BY <1>1, <2>1, OneWritten
    <3>2. todo'[t] = todo[t] \ {x}
      BY <1>1, <1>3, <2>1
    <3> QED BY <2>1, <3>1, <3>2
  <2>2. CASE UNCHANGED files /\ failed' = failed \cup {<<t, x>>}
             /\ todo' = [todo EXCEPT ![t] = @ \ {x}]
    <3>1. Grows({})
      BY <2>2, GrowsNot DEF files
    <3>2. todo'[t] = todo[t] \ {x}
      BY <1>1, <1>3, <2>2
    <3> QED BY <2>2, <3>1, <3>2
  <2>3. CASE UNCHANGED files /\ failed' = failed \cup {<<t, x>>} /\ pc' = "poll"
             /\ todo' = [todo EXCEPT ![t] = {}]
    <3>1. Grows({})
      BY <2>3, GrowsNot DEF files
    <3>2. todo'[t] = {}
      BY <1>1, <1>3, <2>3
    <3> QED BY <2>3, <3>1, <3>2
  <2>4. CASE pc' = "ended"
    BY <2>4
  <2> QED BY <2>1, <2>2, <2>3, <1>2, <2>4
<1> SUFFICES ASSUME pc' # "ended", NEW n \in seen[t]
             PROVE  \/ <<t, n>> \in Written' \cup failed' \cup got
                    \/ n \in todo'[t]
                    \/ Left(t, n)' /\ (pc' = "walk" \/ n <= last'[t] => Expired(n)')
  BY <1>1 DEF Kept
<1>5. n \in 1..made /\ (Expired(n) => Expired(n)')
  <2>1. n \in 1..made
    BY <1>1 DEF Base
  <2> QED BY <1>1, <2>1, ExpiredSame
<1>6. <<t, n>> \in Written \/ <<t, n>> \in S => <<t, n>> \in Written'
  BY <1>1, <1>4, WrittenGrows
<1>7. CASE n = x
  BY <1>4, <1>6, <1>7
<1>8. CASE n # x /\ n \in todo[t] /\ n \notin todo'[t]
  <2>1. x < n /\ x \in 1..n-1
    BY <1>1, <1>5, <1>8
  <2>2. pc' = "poll" /\ <<t, x>> \in failed' /\ S = {}
    BY <1>4, <1>8
  <2>3. \A k \in x+1..n : <<t, k>> \notin Written'
    <3> SUFFICES ASSUME NEW k \in x+1..n, <<t, k>> \in Written' PROVE FALSE
      OBVIOUS
    <3>1. <<t, k>> \in Written
      BY <1>1, <1>4, <2>2, WrittenGrows
    <3>2. PICK i \in DOMAIN out : out[i].what = t /\ out[i].n = k
      BY <3>1 DEF Written
    <3>3. k < x
      BY <1>1, <3>2 DEF Order, Behind
    <3> QED BY <1>1, <3>3
  <2>4. Left(t, n)'
    BY <2>1, <2>2, <2>3 DEF Left
  <2>5. ~ (n <= last'[t])
    BY <1>1, <1>3, <1>5, <2>1
  <2> QED BY <2>2, <2>4, <2>5
<1>9. CASE n \notin todo[t]
  <2>1. \/ <<t, n>> \in Written \cup failed \cup got
        \/ Left(t, n) /\ Expired(n)
    BY <1>1, <1>9 DEF Kept
  <2>2. n < x
    <3>1. ~ (x < n)
      BY <1>1, <1>9 DEF Covered, Closed
    <3> QED BY <1>1, <1>5, <1>9, <3>1
  <2>3. \A k \in 1..n : <<t, k>> \notin S
    BY <1>1, <1>4, <1>5, <2>2
  <2>4. Left(t, n) => Left(t, n)'
    BY <1>1, <1>4, <1>5, <2>3, LeftStays
  <2> QED BY <1>4, <1>5, <1>6, <2>1, <2>4
<1> QED BY <1>7, <1>8, <1>9

LEMMA KeptPair ==
  ASSUME Base, Base', numbered, Kept, PairSegments
  PROVE  Kept'
<1>1. /\ pc = "walk" /\ mode = "paired" /\ UNCHANGED <<mode, numbered, made, got, seen>>
  BY PairMoves
<1>2. CASE pc' = "ended"
  BY <1>2 DEF Kept
<1>3. ASSUME NEW D \in SUBSET Tracks, NEW ok \in [D -> 1..made], Paired(D, ok)
      PROVE  Kept'
  <2> DEFINE S == {<<t, ok[t]>> : t \in D}
  <2>1. Grows(S)
    BY <1>3, PairFiles
  <2>2. failed \subseteq failed'
    BY <1>3 DEF Paired
  <2>3. ASSUME NEW t \in Tracks, NEW n \in todo[t]
        PROVE  n \in todo'[t] \/ <<t, n>> \in S \cup failed'
    <3>1. todo'[t] = todo[t] \ {Min(todo[t])} /\ todo[t] # {}
      BY <1>3, <2>3 DEF Paired
    <3>2. CASE n = Min(todo[t]) /\ t \in D
      BY <1>3, <3>2 DEF Paired
    <3>3. CASE n = Min(todo[t]) /\ t \notin D
      BY <1>3, <3>1, <3>3 DEF Paired
    <3> QED BY <3>1, <3>2, <3>3
  <2> HIDE DEF S
  <2> QED BY <1>1, <2>1, <2>2, <2>3, KeptMuxed
<1> QED BY <1>2, <1>3, PairMoves

LEMMA KeptFetch == ASSUME Base, Base', numbered, Kept, FetchTimed PROVE Kept'
<1>1. /\ pc = "walk" /\ mode = "timed" /\ UNCHANGED <<mode, numbered, seen, out>>
  BY FetchMoves DEF files
<1>2. PICK t \in Tracks, n \in 1..made :
              /\ n \in todo[t] /\ todo' = [todo EXCEPT ![t] = @ \ {n}]
              /\ \/ got' = got \cup {<<t, n>>} /\ failed' = failed
                 \/ failed' = failed \cup {<<t, n>>} /\ got' = got
  BY FetchMoves
<1>3. \A u \in Tracks : \A m \in todo[u] : m \in todo'[u] \/ (u = t /\ m = n)
  BY <1>2 DEF Base
<1>4. \A u \in Tracks, m \in 1..made : m \in todo[u] \/ <<u, m>> \in got =>
            m \in todo'[u] \/ <<u, m>> \in {} \cup failed' \cup got'
  BY <1>2, <1>3
<1>5. failed \subseteq failed'
  BY <1>2
<1> QED BY <1>1, <1>4, <1>5, GrowsNot, KeptMuxed

LEMMA KeptTimed == ASSUME Base, Base', numbered, Kept, WriteTimed PROVE Kept'
<1>1. /\ pc = "walk" /\ mode = "timed" /\ UNCHANGED <<mode, numbered, made, seen, todo, failed>>
  BY TimedMoves
<1>2. CASE UNCHANGED <<got, files>>
  <2>1. \A t \in Tracks, n \in 1..made : n \in todo[t] \/ <<t, n>> \in got =>
            n \in todo'[t] \/ <<t, n>> \in {} \cup failed' \cup got'
    BY <1>1, <1>2
  <2>2. Grows({})
    BY <1>2, GrowsNot DEF files
  <2> QED BY <1>1, <2>1, <2>2, KeptMuxed
<1>3. ASSUME NEW s \in got, WriteMedia(<<Media(s[1], s[2])>>), got' = got \ {s}
      PROVE  Kept'
  <2>1. s[1] \in Tracks /\ s[2] \in 1..made /\ s = <<s[1], s[2]>>
    BY DEF Base
  <2>2. Grows({<<s[1], s[2]>>})
    BY <1>3, <2>1, OneWritten
  <2>3. \A t \in Tracks, n \in 1..made : n \in todo[t] \/ <<t, n>> \in got =>
            n \in todo'[t] \/ <<t, n>> \in {<<s[1], s[2]>>} \cup failed' \cup got'
    BY <1>1, <1>3, <2>1
  <2> QED BY <1>1, <2>2, <2>3, KeptMuxed
<1> QED BY <1>2, <1>3, TimedMoves

LEMMA KeptKept == ASSUME Base, Base', numbered, Order, Covered, Kept, [Next]_vars PROVE Kept'
<1>1. CASE UNCHANGED vars
  <2>1. UNCHANGED <<mode, numbered, made, todo, got, last, seen, failed, out, pc>>
    BY <1>1 DEF vars, room, outside, history, tracks, files
  <2>2. made <= made'
    BY <2>1 DEF Base
  <2> QED BY <2>1, <2>2, GrowsNot, KeptSame
<1>2. CASE Next
  BY <1>2, KeptOthers, KeptPollVideo, KeptVideoInit, KeptVideoSegment, KeptCombinedInit, KeptPair,
     KeptFetch, KeptTimed DEF Next, Watching
<1> QED BY <1>1, <1>2

\* No segment with a number is lost but by its own download, or with the rest of
\* the list of a single playlist that rolled on (the break of the loop).
THEOREM NoneSkipped == Spec => [](numbered => NothingSkipped)
<1> DEFINE Inv == Base /\ (numbered => Order /\ Covered /\ Kept)
<1>1. Init => Inv
  BY BaseStart, OrderStart, CoveredStart, KeptStart
<1>2. Inv /\ [Next]_vars => Inv'
  BY BaseKept, NumberedStays, OrderKept, CoveredKept, KeptKept
<1>3. Inv => (numbered => NothingSkipped)
  <2> SUFFICES ASSUME Base, Kept, numbered, pc # "ended", NEW t \in Of(mode), NEW n \in seen[t]
               PROVE  \/ <<t, n>> \in Written \cup failed \cup got
                      \/ n \in todo[t]
                      \/ mode = "video" /\ Number(n) > last[t]
                      \/ LeftBehind(t, n)
    BY DEF NothingSkipped
  <2>1. \/ <<t, n>> \in Written \cup failed \cup got
        \/ n \in todo[t]
        \/ mode = "video" /\ Left(t, n) /\ (pc = "walk" \/ n <= last[t] => Expired(n))
    BY DEF Kept
  <2>2. (n <= last[t] \/ n > last[t]) /\ Number(n) = n
    BY DEF Base, Of, Tracks, Number
  <2> QED BY <2>1, <2>2 DEF LeftBehind, Left
<1> QED BY <1>1, <1>2, <1>3, PTL DEF Spec

\* An init segment is written: it is the last one of its file.
LEMMA PlaysInit ==
  ASSUME Base, Playable, UNCHANGED <<mode, numbered>>, crossed => crossed', NEW m \in [Tracks -> Nat], WriteInit(m)
  PROVE  Playable' /\ LastInit'
<1> DEFINE L == Len(out)
<1>1. L \in Nat /\ DOMAIN out = 1..L
  BY DEF Base
<1>2. /\ DOMAIN out' = 1..L+1 /\ \A i \in 1..L : out'[i] = out[i]
      /\ out'[L+1] = InitOf(m) /\ init' = m /\ file' = file /\ Len(out') = L + 1
  <2>1. /\ out' \in Seq(Rec) /\ Len(out') = L + 1
        /\ \A i \in 1..L : out'[i] = out[i]
        /\ out'[L+1] = InitOf(m) /\ init' = m /\ file' = file
    BY InitWritten
  <2>2. DOMAIN out' = 1..Len(out')
    BY <2>1
  <2> QED BY <2>1, <2>2
<1>3. InitOf(m).what = "init" /\ InitOf(m).file = file /\ InitOf(m).map = m
  BY InitRecord
<1> HIDE DEF L
<1>4. LastInit'
  <2>1. L + 1 \in DOMAIN out' /\ \A k \in L+2..Len(out') : FALSE
    BY <1>1, <1>2
  <2> QED BY <1>2, <1>3, <2>1 DEF LastInit
<1>5. ASSUME NEW i \in DOMAIN out', out'[i].what # "init"
      PROVE  \E j \in 1..i-1 :
                /\ out'[j].what = "init" /\ out'[j].file = out'[i].file
                /\ mode' = "video" /\ numbered' => SameStretch(out'[j].map, out'[i].map) /\ (crossed' \/ out'[j].map = out'[i].map)
                /\ \A k \in j+1..i-1 : out'[k].what # "init"
  <2>1. i \in 1..L
    BY <1>1, <1>2, <1>3, <1>5
  <2>2. out[i].what # "init"
    BY <1>2, <1>5, <2>1
  <2>3. PICK j \in 1..i-1 :
           /\ out[j].what = "init" /\ out[j].file = out[i].file
           /\ mode = "video" /\ numbered => SameStretch(out[j].map, out[i].map) /\ (crossed \/ out[j].map = out[i].map)
           /\ \A k \in j+1..i-1 : out[k].what # "init"
    BY <1>1, <2>1, <2>2 DEF Playable
  <2>4. \A k \in 1..i : out'[k] = out[k]
    BY <1>1, <1>2, <2>1
  <2>5. j \in 1..i /\ i \in 1..i /\ \A k \in j+1..i-1 : k \in 1..i
    BY <1>1, <2>1
  <2> QED BY <2>3, <2>4, <2>5
<1> QED BY <1>4, <1>5 DEF Playable

\* Media is written behind the init segment in use, which a new file begins with.
LEMMA PlaysMedia ==
  ASSUME Base, Playable, LastInit, UNCHANGED <<mode, numbered>>, crossed => crossed', init # Zero, NEW segs \in Seq(Rec), WriteMedia(segs),
         \A i \in 1..Len(segs) : segs[i].what # "init" /\ segs[i].file = file,
         mode = "video" /\ numbered =>
             \A i \in 1..Len(segs) : SameStretch(init, segs[i].map) /\ (crossed \/ init = segs[i].map)
  PROVE  Playable' /\ LastInit'
<1> DEFINE L == Len(out)
           M == Len(Opening)
           N == Len(segs)
<1>1. /\ Len(out') = L + M + N /\ DOMAIN out' = 1..L+M+N
      /\ \A i \in 1..L : out'[i] = out[i]
      /\ \A i \in 1..M : out'[L + i] = Opening[i]
      /\ \A i \in 1..N : out'[L + M + i] = segs[i]
      /\ init' = init /\ (~fresh' => file' = file)
  <2>1. /\ out' \in Seq(Rec) /\ Len(out') = L + M + N
        /\ \A i \in 1..L : out'[i] = out[i]
        /\ \A i \in 1..M : out'[L + i] = Opening[i]
        /\ \A i \in 1..N : out'[L + M + i] = segs[i]
        /\ init' = init /\ (~fresh' => file' = file)
    BY MediaWritten
  <2>2. DOMAIN out' = 1..Len(out')
    BY <2>1
  <2> QED BY <2>1, <2>2
<1>2. L \in Nat /\ N \in Nat /\ DOMAIN out = 1..L /\ fresh \in BOOLEAN
  BY DEF Base
<1>3. M = (IF fresh THEN 1 ELSE 0) /\ M \in 0..1 /\ (fresh => Opening[1] = InitOf(init))
  BY <1>2 DEF Opening
<1>4. InitOf(init).what = "init" /\ InitOf(init).file = file /\ InitOf(init).map = init
  BY InitRecord DEF Base
<1> HIDE DEF L, M, N
<1>5. \A k \in L+M+1..L+M+N : k - (L + M) \in 1..N /\ out'[k] = segs[k - (L + M)]
  <2> TAKE k \in L+M+1..L+M+N
  <2>0. L \in Nat /\ M \in Nat /\ N \in Nat
    BY <1>2, <1>3
  <2>1. k - (L + M) \in 1..N /\ L + M + (k - (L + M)) = k
    BY <2>0
  <2> QED BY <1>1, <2>1
<1>6. \E j \in 1..L+M :
         /\ out'[j].what = "init" /\ out'[j].file = file /\ out'[j].map = init
         /\ \A k \in j+1..L+M+N : out'[k].what # "init"
  <2>1. CASE fresh
    <3>1. M = 1 /\ L + 1 \in 1..L+M /\ 1 \in 1..M
      BY <1>2, <1>3, <2>1
    <3>2. out'[L+1] = InitOf(init)
      BY <1>1, <1>3, <2>1, <3>1
    <3>3. \A k \in L+1+1..L+M+N : out'[k].what # "init"
      <4> TAKE k \in L+1+1..L+M+N
      <4>1. k \in L+M+1..L+M+N
        BY <1>2, <3>1
      <4> QED BY <4>1, <1>5 DEF N
    <3> QED BY <1>4, <3>1, <3>2, <3>3
  <2>2. CASE ~fresh
    <3>1. PICK j \in 1..L :
             /\ out[j].what = "init" /\ out[j].file = file /\ out[j].map = init
             /\ \A k \in j+1..L : out[k].what # "init"
      BY <1>2, <2>2 DEF LastInit, L
    <3>2. M = 0 /\ j \in 1..L+M
      BY <1>2, <1>3, <2>2
    <3>3. \A k \in j+1..L+M+N : out'[k].what # "init"
      <4> TAKE k \in j+1..L+M+N
      <4>1. (k \in 1..L /\ k \in j+1..L) \/ k \in L+M+1..L+M+N
        BY <1>2, <3>2
      <4>2. ASSUME k \in 1..L, k \in j+1..L PROVE out'[k].what # "init"
        BY <1>1, <3>1, <4>2
      <4>3. ASSUME k \in L+M+1..L+M+N PROVE out'[k].what # "init"
        BY <1>5, <4>3 DEF N
      <4> QED BY <4>1, <4>2, <4>3
    <3> QED BY <1>1, <3>1, <3>2, <3>3
  <2> QED BY <1>2, <2>1, <2>2
<1>7. PICK j \in 1..L+M :
         /\ out'[j].what = "init" /\ out'[j].file = file /\ out'[j].map = init
         /\ \A k \in j+1..L+M+N : out'[k].what # "init"
  BY <1>6
<1>8. LastInit'
  <2>1. j \in DOMAIN out'
    BY <1>1, <1>2, <1>3
  <2> QED BY <1>1, <1>7, <2>1 DEF LastInit
<1>9. ASSUME NEW i \in DOMAIN out', out'[i].what # "init"
      PROVE  \E h \in 1..i-1 :
                /\ out'[h].what = "init" /\ out'[h].file = out'[i].file
                /\ mode' = "video" /\ numbered' => SameStretch(out'[h].map, out'[i].map) /\ (crossed' \/ out'[h].map = out'[i].map)
                /\ \A k \in h+1..i-1 : out'[k].what # "init"
  <2>1. CASE i \in 1..L
    <3>1. out[i].what # "init"
      BY <1>1, <1>9, <2>1
    <3>2. PICK h \in 1..i-1 :
             /\ out[h].what = "init" /\ out[h].file = out[i].file
             /\ mode = "video" /\ numbered => SameStretch(out[h].map, out[i].map) /\ (crossed \/ out[h].map = out[i].map)
             /\ \A k \in h+1..i-1 : out[k].what # "init"
      BY <1>2, <2>1, <3>1 DEF Playable
    <3>3. \A k \in 1..i : out'[k] = out[k]
      BY <1>1, <1>2, <2>1
    <3>4. h \in 1..i /\ i \in 1..i /\ \A k \in h+1..i-1 : k \in 1..i
      BY <1>2, <2>1
    <3> QED BY <3>2, <3>3, <3>4
  <2>2. CASE i \notin 1..L
    <3>1. i \in L+M+1..L+M+N
      <4>1. i \in L+1..L+M+N
        BY <1>1, <1>2, <1>3, <2>2
      <4>2. CASE i = L + 1 /\ M = 1
        <5>1. fresh /\ 1 \in 1..M
          BY <1>3, <4>2
        <5> QED BY <1>1, <1>3, <1>4, <1>9, <4>2, <5>1
      <4>3. CASE ~ (i = L + 1 /\ M = 1)
        BY <1>2, <1>3, <4>1, <4>3
      <4> QED BY <4>2, <4>3
    <3>2. j \in 1..i-1 /\ \A k \in j+1..i-1 : k \in j+1..L+M+N
      BY <1>2, <1>3, <3>1
    <3>3. out'[i].file = file /\ (mode = "video" /\ numbered => SameStretch(init, out'[i].map) /\ (crossed \/ init = out'[i].map))
      BY <1>5, <3>1 DEF N
    <3> QED BY <1>7, <3>2, <3>3
  <2> QED BY <2>1, <2>2
<1> QED BY <1>8, <1>9 DEF Playable

LEMMA PlaysSame ==
  ASSUME Playable, LastInit, UNCHANGED <<mode, numbered, files>>, crossed => crossed'
  PROVE  Playable' /\ LastInit'
BY DEF Playable, LastInit, files

\* The stretch of a segment.
Side(n) == IF n > change THEN 1 ELSE 0

LEMMA Parity ==
  ASSUME NEW x \in Nat
  PROVE  x % 2 \in 0..1 /\ x \div 2 \in Nat /\ x = 2 * (x \div 2) + (x % 2)
OBVIOUS

LEMMA MapParts ==
  ASSUME Base, NEW n \in Nat
  PROVE  MapOf(n) \in Nat \ {0} /\ MapOf(n) % 2 = Side(n) /\ MapOf(n) \div 2 = width
<1>1. width \in Nat \ {0} /\ change \in Nat
  BY DEF Base
<1>2. Side(n) \in 0..1 /\ MapOf(n) = 2 * width + Side(n)
  BY <1>1 DEF MapOf, Side
<1> QED BY <1>1, <1>2

\* Until its first init a single playlist takes nothing up.
Opened ==
    mode = "video" /\ map["video"] = 0 =>
        /\ last["video"] = 0 /\ (~numbered => uri["video"] = <<0, 0>>)
        /\ pc = "walk" => todo["video"] = listed["video"]

\* The init in use is of the stretch of what was taken up last, or of what is
\* next; of another variant only if the list began with what was known.
Follows ==
    mode = "video" /\ numbered =>
        /\ pc = "poll" /\ last["video"] # 0 => map["video"] % 2 = Side(last["video"])
        /\ pc = "walk" =>
             /\ todo["video"] = {k \in listed["video"] : k > last["video"]}
             /\ \A i, k \in listed["video"] : i..k \subseteq listed["video"]
             /\ \/ map["video"] = MapOf(Min(todo["video"]))
                \/ last["video"] # 0 => map["video"] % 2 = Side(last["video"])
             /\ Min(listed["video"]) <= last["video"] => crossed \/ map["video"] \div 2 = width

Fed == Opened /\ Follows

LEMMA FedStart == ASSUME Init PROVE Fed
BY DEF Init, Fed, Opened, Follows, Zero, NoName, Tracks

LEMMA FedSame ==
  ASSUME Base, Fed, UNCHANGED <<mode, numbered, change, listed, todo, last, uri, map, crossed>>,
         UNCHANGED width \/ pc = "poll", pc' \in {pc, "poll", "ended"},
         pc' = "poll" /\ mode = "video" => pc = "poll"
  PROVE  Fed'
<1>1. Opened'
  BY DEF Fed, Opened
<1>2. ASSUME mode = "video", numbered, pc' = "poll", last["video"] # 0
      PROVE  map["video"] % 2 = Side(last["video"])'
  <2>1. map["video"] % 2 = Side(last["video"])
    BY <1>2 DEF Fed, Follows
  <2> QED BY <2>1 DEF Side
<1>3. ASSUME mode = "video", numbered, pc' = "walk"
      PROVE  /\ todo["video"] = {k \in listed["video"] : k > last["video"]}
             /\ \A i, k \in listed["video"] : i..k \subseteq listed["video"]
             /\ \/ map["video"] = MapOf(Min(todo["video"]))'
                \/ last["video"] # 0 => map["video"] % 2 = Side(last["video"])'
             /\ Min(listed["video"]) <= last["video"] => crossed \/ map["video"] \div 2 = width'
  <2>1. pc = "walk" /\ width' = width
    BY <1>3
  <2>2. /\ MapOf(Min(todo["video"]))' = MapOf(Min(todo["video"]))
        /\ Side(last["video"])' = Side(last["video"])
    BY <2>1 DEF MapOf, Side
  <2> QED BY <1>3, <2>1, <2>2 DEF Fed, Follows
<1>4. Follows'
  BY <1>2, <1>3 DEF Follows
<1> QED BY <1>1, <1>4 DEF Fed

LEMMA FedOthers ==
  ASSUME Base, Fed,
         \/ UNCHANGED vars
         \/ MakeSegment \/ GoesOffline \/ Cancel
         \/ PollFails \/ RefreshURL
  PROVE  Fed'
<1>1. UNCHANGED <<mode, numbered, change, listed, todo, last, uri, map, crossed>>
  BY DEF vars, room, outside, history, tracks, MakeSegment, GoesOffline, Cancel, PollFails, RefreshURL
<1>2. pc' \in {pc, "poll", "ended"} /\ (UNCHANGED width \/ pc = "poll" \/ pc = "audio")
      /\ (pc' = "poll" /\ pc # "poll" => pc = "audio")
  BY DEF vars, room, MakeSegment, GoesOffline, Cancel, PollFails, RefreshURL, Ends
<1>3. mode = "video" => pc # "audio"
  BY DEF Base
<1>4. CASE mode = "video"
  BY <1>1, <1>2, <1>3, <1>4, FedSame
<1>5. CASE mode # "video"
  BY <1>1, <1>5 DEF Fed, Opened, Follows
<1> QED BY <1>4, <1>5

LEMMA FedMuxed ==
  ASSUME Base, (\E t \in Tracks : PollPair(t)) \/ CombinedInit \/ PairSegments \/ FetchTimed \/ WriteTimed
  PROVE  Fed'
<1>1. mode # "video" /\ mode' = mode
  BY DEF Base, PollPair, CombinedInit, PairSegments, FetchTimed, WriteTimed, room
<1> QED BY <1>1 DEF Fed, Opened, Follows

LEMMA FedPollVideo == ASSUME Base, Base', Fed, PollVideo PROVE Fed'
<1>1. /\ pc = "poll" /\ mode = "video" /\ UNCHANGED <<mode, numbered, change, width, last, uri, map>>
      /\ listed' = [listed EXCEPT !["video"] = Listing]
      /\ todo' = [todo EXCEPT !["video"] = New("video", Listing)]
      /\ crossed' = (crossed \/ (todo'["video"] \notin {{}, Listing} /\ map["video"] \div 2 # width))
  BY DEF PollVideo, Lists, room
<1>2. listed'["video"] = Listing /\ todo'["video"] = New("video", Listing)
  BY <1>1 DEF Base, Tracks
<1>3. pc' = "walk" => New("video", Listing) # {}
  BY <1>2 DEF PollVideo, Stalls, Ends
<1>4. Listing \in SUBSET (1..made) /\ made \in Nat /\ last["video"] \in Nat
  <2>1. made \in Nat
    BY DEF Base
  <2>2. last["video"] \in 0..made
    BY DEF Base, Tracks
  <2> QED BY <2>1, <2>2, ListingTyped
<1>5. Opened'
  <2> SUFFICES ASSUME map["video"] = 0
               PROVE  New("video", Listing) = Listing
    BY <1>1, <1>2 DEF Fed, Opened
  <2>1. last["video"] = 0 /\ (~numbered => uri["video"] = <<0, 0>>)
    BY <1>1 DEF Fed, Opened
  <2>2. ASSUME NEW n \in Listing PROVE ~Known("video", n, Listing)
    <3>0. n \in Nat /\ n # 0
      BY <1>4
    <3>1. CASE numbered
      BY <2>1, <3>0, <3>1 DEF Known, Number
    <3>2. CASE ~numbered
      <4>1. Number(n) \in Nat
        BY <1>1, <3>0, <3>2 DEF Number
      <4>2. Name(n) # uri["video"]
        BY <2>1, <3>0, <3>2 DEF Name
      <4> QED BY <2>1, <4>1, <4>2 DEF Known
    <3> QED BY <3>1, <3>2
  <2> QED BY <2>2 DEF New
<1>6. ASSUME numbered, pc' = "walk"
      PROVE  /\ todo'["video"] = {k \in listed'["video"] : k > last'["video"]}
             /\ \A i, k \in listed'["video"] : i..k \subseteq listed'["video"]
             /\ last'["video"] # 0 => map'["video"] % 2 = Side(last["video"])
             /\ Min(listed'["video"]) <= last'["video"] => crossed' \/ map'["video"] \div 2 = width'
  <2>1. New("video", Listing) = {k \in Listing : k > last["video"]}
    BY <1>4, <1>6, NewNumbered DEF Tracks
  <2>2. \A i, k \in Listing : i..k \subseteq Listing
    BY <1>4, WatchAssumption DEF Listing
  <2>3. last["video"] # 0 => map["video"] % 2 = Side(last["video"])
    BY <1>1, <1>6 DEF Fed, Follows
  <2>4. Min(Listing) <= last["video"] => crossed' \/ map["video"] \div 2 = width
    <3>1. Listing # {}
      BY <1>3, <1>6, <2>1
    <3>2. Min(Listing) \in Listing
      BY <1>4, <3>1, MinOK
    <3>3. last["video"] \in Nat /\ Min(Listing) \in Nat
      <4>1. Min(Listing) \in 1..made
        BY <1>4, <3>2, Zenon
      <4> QED BY <1>4, <4>1
    <3>4. Min(Listing) <= last["video"] => New("video", Listing) # Listing
      BY <2>1, <3>2, <3>3
    <3> QED BY <1>1, <1>2, <1>3, <1>6, <3>4
  <2> QED BY <1>1, <1>2, <2>1, <2>2, <2>3, <2>4
<1>7. Follows'
  <2>1. ASSUME numbered, pc' = "poll", last'["video"] # 0
        PROVE  map'["video"] % 2 = Side(last["video"])'
    BY <1>1, <2>1 DEF Fed, Follows, Side
  <2>2. Side(last["video"]) = Side(last["video"])'
    BY <1>1 DEF Side
  <2> QED BY <1>1, <1>6, <2>1, <2>2 DEF Follows
<1> QED BY <1>5, <1>7 DEF Fed

LEMMA FedVideoInit == ASSUME Base, Fed, VideoInit PROVE Fed'
<1> DEFINE n == Min(todo["video"])
<1>1. /\ pc = "walk" /\ mode = "video"
      /\ UNCHANGED <<mode, numbered, change, width, listed, todo, last, uri, crossed>>
  BY DEF VideoInit, room, history
<1>2. n \in Nat
  <2>1. todo["video"] # {}
    BY <1>1 DEF Base
  <2>2. n \in 1..made
    BY <2>1, LeastTodo DEF Tracks
  <2> QED BY <2>2
<1>3. \/ map' = VideoMap(n) /\ pc' = "walk"
      \/ map' = map /\ pc' = "ended"
  BY <1>1 DEF VideoInit, VideoMap, Ends
<1>4. VideoMap(n)["video"] = MapOf(n) /\ MapOf(n) # 0 /\ MapOf(n) \div 2 = width
  BY <1>2, VideoMapTyped, MapParts
<1>5. MapOf(n)' = MapOf(n) /\ n' = n
  BY <1>1 DEF MapOf
<1>6. Opened'
  BY <1>1, <1>3, <1>4 DEF Fed, Opened
<1>7. Follows'
  <2>1. CASE pc' = "ended"
    BY <2>1 DEF Follows
  <2>2. CASE map' = VideoMap(n) /\ pc' = "walk"
    <3>1. map'["video"] = MapOf(n)' /\ map'["video"] \div 2 = width'
      BY <1>1, <1>4, <1>5, <2>2
    <3> QED BY <1>1, <1>5, <2>2, <3>1 DEF Fed, Follows
  <2> QED BY <1>3, <2>1, <2>2
<1> QED BY <1>6, <1>7 DEF Fed

\* A segment that needs no other init than the one in use has the right one.
LEMMA Served ==
  ASSUME Base, Fed, mode = "video", pc = "walk", ~NeedsInit(Min(todo["video"]))
  PROVE  /\ map["video"] # 0
         /\ numbered => /\ map["video"] % 2 = Side(Min(todo["video"]))
                        /\ crossed \/ map["video"] = MapOf(Min(todo["video"]))
                        /\ crossed \/ map["video"] \div 2 = width
<1> DEFINE n == Min(todo["video"])
           l == Min(listed["video"])
<1>1. /\ n \in todo["video"] /\ n \in 1..made /\ made \in Nat /\ map["video"] \in Nat
      /\ last["video"] \in Nat /\ listed["video"] \in SUBSET (1..made)
      /\ \A m \in todo["video"] : n <= m
  BY LeastTodo DEF Base, Tracks
<1>2. MapOf(n) # 0 /\ MapOf(n) % 2 = Side(n) /\ MapOf(n) \div 2 = width
  BY <1>1, MapParts
<1>3. MapOf(n) = map["video"] \/ (n # l /\ n # change + 1)
  BY DEF NeedsInit, Brings
<1>4. map["video"] # 0
  BY <1>2, <1>3 DEF Fed, Opened
<1>5. ASSUME numbered, MapOf(n) # map["video"]
      PROVE  map["video"] % 2 = Side(n) /\ (crossed \/ map["video"] \div 2 = width)
  <2> HIDE DEF n, l
  <2>1. /\ todo["video"] = {k \in listed["video"] : k > last["video"]}
        /\ \A i, k \in listed["video"] : i..k \subseteq listed["video"]
        /\ last["video"] # 0 => map["video"] % 2 = Side(last["video"])
        /\ l <= last["video"] => crossed \/ map["video"] \div 2 = width
    BY <1>5 DEF Fed, Follows, n, l
  <2>2. l \in listed["video"] /\ \A k \in listed["video"] : l <= k
    BY <1>1, <2>1, MinOK DEF l
  <2>3. n \in listed["video"] /\ n > last["video"] /\ n # l /\ n # change + 1
    BY <1>1, <1>3, <1>5, <2>1
  <2>4. l <= last["video"] /\ l \in 1..made
    BY <1>1, <2>1, <2>2, <2>3
  <2>5. last["video"] + 1 \in l..n
    BY <1>1, <2>3, <2>4
  <2>6. last["video"] + 1 \in todo["video"]
    BY <1>1, <2>1, <2>2, <2>3, <2>5
  <2>7. n = last["video"] + 1 /\ last["video"] # 0
    BY <1>1, <2>3, <2>4, <2>6
  <2>8. Side(n) = Side(last["video"])
    <3>1. change \in Nat
      BY DEF Base
    <3> QED BY <1>1, <2>3, <2>7, <3>1 DEF Side
  <2> QED BY <2>1, <2>4, <2>7, <2>8
<1>6. ASSUME numbered PROVE map["video"] % 2 = Side(n) /\ (crossed \/ map["video"] = MapOf(n))
  <2>1. CASE MapOf(n) = map["video"]
    BY <1>2, <2>1
  <2>2. CASE MapOf(n) # map["video"]
    <3>1. map["video"] % 2 = MapOf(n) % 2 /\ (crossed \/ map["video"] \div 2 = MapOf(n) \div 2)
      BY <1>2, <1>5, <1>6, <2>2
    <3>2. MapOf(n) \in Nat
      BY <1>1, MapParts
    <3>3. ASSUME map["video"] \div 2 = MapOf(n) \div 2 PROVE map["video"] = MapOf(n)
      BY <1>1, <3>1, <3>2, <3>3, Parity
    <3> QED BY <1>2, <3>1, <3>3
  <2> QED BY <2>1, <2>2
<1>7. ASSUME numbered PROVE crossed \/ map["video"] \div 2 = width
  BY <1>2, <1>6, <1>7
<1> QED BY <1>4, <1>6, <1>7

LEMMA FedVideoSegment == ASSUME Base, Base', Fed, VideoSegment PROVE Fed'
<1> DEFINE n == Min(todo["video"])
<1>1. /\ pc = "walk" /\ mode = "video" /\ ~NeedsInit(n)
      /\ n \in todo["video"] /\ n \in 1..made /\ \A m \in todo["video"] : n <= m
      /\ last' = [last EXCEPT !["video"] = After("video", n)]
      /\ UNCHANGED <<mode, numbered, change, width, listed, map, crossed>>
  BY VideoMoves DEF VideoSegment
<1>2. map["video"] # 0
  BY <1>1, Served
<1>3. Opened'
  BY <1>1, <1>2 DEF Opened
<1>4. \/ pc' \in {"walk", "poll"} /\ todo' = [todo EXCEPT !["video"] = @ \ {n}]
      \/ pc' = "poll"
      \/ pc' = "ended"
  BY VideoMoves, <1>1 DEF Base
<1>5. CASE numbered
  <2>1. /\ map["video"] % 2 = Side(n) /\ (crossed \/ map["video"] \div 2 = width)
    BY <1>1, <1>5, Served
  <2>2. last'["video"] = n
    BY <1>1, <1>5, AfterNumbered DEF Base, Tracks
  <2>3. /\ todo["video"] = {k \in listed["video"] : k > last["video"]}
        /\ \A i, k \in listed["video"] : i..k \subseteq listed["video"]
    BY <1>1, <1>5 DEF Fed, Follows
  <2>4. map'["video"] % 2 = Side(last["video"])'
    BY <1>1, <2>1, <2>2 DEF Side
  <2>5. ASSUME todo' = [todo EXCEPT !["video"] = @ \ {n}]
        PROVE  todo'["video"] = {k \in listed'["video"] : k > last'["video"]}
    <3>1. todo'["video"] = todo["video"] \ {n}
      BY <2>5 DEF Base, Tracks
    <3>2. last["video"] \in Nat /\ listed["video"] \in SUBSET Nat /\ n \in Nat
      <4>1. made \in Nat
        BY DEF Base
      <4>2. last["video"] \in 0..made /\ listed["video"] \in SUBSET (1..made)
        BY DEF Base, Tracks
      <4> HIDE DEF n
      <4> QED BY <1>1, <4>1, <4>2
    <3> HIDE DEF n
    <3> QED BY <1>1, <2>2, <2>3, <3>1, <3>2
  <2> HIDE DEF n
  <2>6. crossed' \/ map'["video"] \div 2 = width'
    BY <1>1, <2>1
  <2>7. \A i, k \in listed'["video"] : i..k \subseteq listed'["video"]
    BY <1>1, <2>3
  <2>8. Follows'
    BY <1>4, <2>4, <2>5, <2>6, <2>7 DEF Follows
  <2> QED BY <1>3, <2>8 DEF Fed
<1>6. CASE ~numbered
  BY <1>1, <1>3, <1>6 DEF Fed, Follows
<1> QED BY <1>5, <1>6

LEMMA FedKept == ASSUME Base, Base', Fed, [Next]_vars PROVE Fed'
BY FedOthers, FedMuxed, FedPollVideo, FedVideoInit, FedVideoSegment DEF Next, Watching

LEMMA PlaysStart == ASSUME Init PROVE Playable /\ Inits
BY DEF Init, Playable, Inits, LastInit, Zero, Tracks

LEMMA PlaysOthers ==
  ASSUME Base, Playable, Inits, UNCHANGED <<mode, numbered, map, files>>, crossed => crossed',
         pc' = "walk" => pc = "walk" \/ mode = "video"
  PROVE  Playable' /\ Inits'
<1>1. Playable' /\ LastInit'
  BY PlaysSame DEF Inits
<1>2. UNCHANGED <<mode, numbered, map, init>>
  BY DEF files
<1> QED BY <1>1, <1>2 DEF Inits

LEMMA PlaysVideoInit == ASSUME Base, Playable, Inits, VideoInit PROVE Playable' /\ Inits'
<1> DEFINE m == VideoMap(Min(todo["video"]))
<1>1. pc = "walk" /\ mode = "video" /\ todo["video"] # {} /\ UNCHANGED <<mode, numbered, crossed>>
  BY DEF Base, VideoInit, room, history
<1>2. Min(todo["video"]) \in Nat
  <2>1. Min(todo["video"]) \in 1..made
    BY <1>1, LeastTodo DEF Tracks
  <2> QED BY <2>1
<1>3. m \in [Tracks -> Nat] /\ m["audio"] = 0
  BY <1>2, VideoMapTyped
<1>4. \/ WriteInit(m) /\ map' = m
      \/ UNCHANGED <<files, map>>
  BY DEF VideoInit, VideoMap, Refused
<1> HIDE DEF m
<1>5. CASE WriteInit(m) /\ map' = m
  <2>1. Playable' /\ LastInit'
    BY <1>1, <1>3, <1>5, PlaysInit
  <2>2. init' = m
    BY <1>3, <1>5, InitWritten
  <2> QED BY <1>1, <1>3, <1>5, <2>1, <2>2 DEF Inits
<1>6. CASE UNCHANGED <<files, map>>
  BY <1>1, <1>6, PlaysOthers
<1> QED BY <1>4, <1>5, <1>6

LEMMA PlaysVideoSegment == ASSUME Base, Fed, Playable, Inits, VideoSegment PROVE Playable' /\ Inits'
<1>1. PICK n \in 1..made :
         /\ pc = "walk" /\ mode = "video" /\ UNCHANGED <<mode, numbered, map, crossed>>
         /\ \/ WriteMedia(<<Media("video", n)>>) /\ n = Min(todo["video"]) /\ ~NeedsInit(n)
            \/ UNCHANGED files
  BY VideoMoves
<1>2. CASE UNCHANGED files
  BY <1>1, <1>2, PlaysOthers
<1>3. CASE WriteMedia(<<Media("video", n)>>) /\ n = Min(todo["video"]) /\ ~NeedsInit(n)
  <2> DEFINE segs == <<Media("video", n)>>
  <2>1. n \in Nat /\ "video" \in Tracks
    BY DEF Base, Tracks
  <2>2. /\ Media("video", n) \in Rec
        /\ Media("video", n).what = "video" /\ Media("video", n).file = file
        /\ Media("video", n).map = VideoMap(n)
    BY <2>1, MediaRecord DEF VideoMap
  <2>3. /\ init["video"] # 0
        /\ numbered => SameStretch(init, VideoMap(n)) /\ (crossed \/ init = VideoMap(n))
    <3>1. map = init /\ map["audio"] = 0 /\ map \in [Tracks -> Nat]
      BY <1>1 DEF Inits, Base
    <3>2. VideoMap(n) \in [Tracks -> Nat] /\ VideoMap(n)["video"] = MapOf(n) /\ VideoMap(n)["audio"] = 0
      BY <2>1, VideoMapTyped
    <3>3. /\ map["video"] # 0
          /\ numbered => map["video"] % 2 = Side(n) /\ (crossed \/ map["video"] = MapOf(n))
      BY <1>1, <1>3, Served
    <3>4. MapOf(n) % 2 = Side(n)
      BY <2>1, MapParts
    <3>5. map["video"] = MapOf(n) => \A t \in Tracks : map[t] = VideoMap(n)[t]
      BY <3>1, <3>2 DEF Tracks
    <3>6. map["video"] = MapOf(n) => map = VideoMap(n)
      BY <3>1, <3>2, <3>5
    <3> QED BY <3>1, <3>2, <3>3, <3>4, <3>6 DEF SameStretch
  <2>4. init # Zero
    BY <2>1, <2>3 DEF Zero
  <2>5. segs \in Seq(Rec) /\ \A i \in 1..Len(segs) : segs[i] = Media("video", n)
    BY <2>2
  <2>6. WriteMedia(segs)
    BY <1>3
  <2> HIDE DEF segs
  <2>7. /\ \A i \in 1..Len(segs) : segs[i].what # "init" /\ segs[i].file = file
        /\ numbered => \A i \in 1..Len(segs) : SameStretch(init, segs[i].map) /\ (crossed \/ init = segs[i].map)
    BY <2>2, <2>3, <2>5
  <2>8. Playable' /\ LastInit'
    BY <1>1, <2>4, <2>5, <2>6, <2>7, PlaysMedia DEF Inits
  <2>9. init' = init
    BY <2>6 DEF WriteMedia
  <2> QED BY <1>1, <2>8, <2>9 DEF Inits
<1> QED BY <1>1, <1>2, <1>3

\* What is written of two playlists, once both inits are known.
LEMMA PlaysMuxed ==
  ASSUME Base, Playable, Inits, UNCHANGED <<mode, numbered, map, crossed>>, mode # "video", pc = "walk",
         NEW segs \in Seq(Rec), WriteMedia(segs),
         \A i \in 1..Len(segs) : segs[i].what # "init" /\ segs[i].file = file
  PROVE  Playable' /\ Inits'
<1>1. init = map /\ \A t \in Tracks : map[t] # 0
  BY DEF Inits
<1>2. init # Zero
  BY <1>1 DEF Zero, Tracks
<1>3. Playable' /\ LastInit'
  BY <1>2, PlaysMedia DEF Inits
<1>4. init' = init
  BY DEF WriteMedia
<1> QED BY <1>1, <1>3, <1>4 DEF Inits

LEMMA PlaysPair == ASSUME Base, Playable, Inits, PairSegments PROVE Playable' /\ Inits'
<1>1. pc = "walk" /\ mode = "paired" /\ UNCHANGED <<mode, numbered, map, crossed>>
  BY PairMoves
<1>2. CASE UNCHANGED files
  BY <1>1, <1>2, PlaysOthers
<1>3. ASSUME NEW D \in SUBSET Tracks, NEW ok \in [D -> 1..made], D # {}, WriteMedia(Both(ok))
      PROVE  Playable' /\ Inits'
  <2>1. Both(ok) \in Seq(Rec) /\ \A i \in 1..Len(Both(ok)) : \E t \in D : Both(ok)[i] = Media(t, ok[t])
    BY Chunk
  <2>2. ASSUME NEW t \in D PROVE Media(t, ok[t]).what # "init" /\ Media(t, ok[t]).file = file
    <3>1. t \in Tracks /\ ok[t] \in Nat
      BY DEF Base
    <3>2. t # "init"
      BY <3>1 DEF Tracks
    <3>3. \A n \in Nat : Media(t, n).what = t /\ Media(t, n).file = file
      BY <3>1, MediaRecord
    <3> QED BY <3>1, <3>2, <3>3
  <2> DEFINE segs == Both(ok)
  <2>3. \A i \in 1..Len(segs) : segs[i].what # "init" /\ segs[i].file = file
    <3> TAKE i \in 1..Len(segs)
    <3>1. PICK t \in D : segs[i] = Media(t, ok[t])
      BY <2>1
    <3> QED BY <2>2, <3>1
  <2>4. segs \in Seq(Rec) /\ WriteMedia(segs)
    BY <1>3, <2>1
  <2> HIDE DEF segs
  <2> QED BY <1>1, <2>3, <2>4, PlaysMuxed
<1>4. \/ UNCHANGED files
      \/ \E D \in SUBSET Tracks : \E ok \in [D -> 1..made] : D # {} /\ WriteMedia(Both(ok))
  BY PairMoves DEF Paired
<1> QED BY <1>2, <1>3, <1>4

LEMMA PlaysTimed == ASSUME Base, Playable, Inits, WriteTimed PROVE Playable' /\ Inits'
<1>1. /\ pc = "walk" /\ mode = "timed" /\ UNCHANGED <<mode, numbered, map, crossed>>
      /\ UNCHANGED files \/ \E s \in got : WriteMedia(<<Media(s[1], s[2])>>)
  BY TimedMoves
<1>2. \A s \in got : s[1] \in Tracks /\ s[2] \in Nat
  BY DEF Base
<1>3. UNCHANGED files \/ \E t \in Tracks : \E n \in Nat : WriteMedia(<<Media(t, n)>>)
  BY <1>1, <1>2
<1>4. CASE UNCHANGED files
  BY <1>1, <1>4, PlaysOthers
<1>5. ASSUME NEW t \in Tracks, NEW n \in Nat, WriteMedia(<<Media(t, n)>>)
      PROVE  Playable' /\ Inits'
  <2> DEFINE r == Media(t, n)
             segs == <<r>>
  <2>1. r \in Rec /\ r.what = t /\ r.file = file
    BY MediaRecord
  <2>2. t # "init"
    BY DEF Tracks
  <2>3. WriteMedia(segs)
    BY <1>5
  <2> HIDE DEF r
  <2>4. segs \in Seq(Rec) /\ \A i \in 1..Len(segs) : segs[i] = r
    BY <2>1
  <2> HIDE DEF segs
  <2>5. \A i \in 1..Len(segs) : segs[i].what # "init" /\ segs[i].file = file
    BY <2>1, <2>2, <2>4
  <2> QED BY <1>1, <2>3, <2>4, <2>5, PlaysMuxed
<1> QED BY <1>3, <1>4, <1>5

LEMMA PlaysCombinedInit == ASSUME Base, Playable, Inits, CombinedInit PROVE Playable' /\ Inits'
<1> DEFINE m == [t \in Tracks |-> FirstMap(t)]
<1>1. m \in [Tracks -> Nat]
  BY FirstMapTyped
<1>2. UNCHANGED <<mode, numbered, crossed>> /\ mode # "video" /\ pc = "inits"
  BY DEF CombinedInit, room, Base
<1>3. \/ /\ \A t \in Tracks : m[t] # 0
         /\ map' = m /\ IF m # map THEN WriteInit(m) ELSE UNCHANGED files
      \/ /\ \E t \in Tracks : m[t] = 0
         /\ map' = m /\ UNCHANGED files /\ pc' # "walk"
      \/ UNCHANGED <<map, files>> /\ pc' # "walk"
  BY DEF CombinedInit, Stalls, Ends, Refused
<1> HIDE DEF m
<1>4. CASE (\A t \in Tracks : m[t] # 0) /\ map' = m /\ m # map /\ WriteInit(m)
  <2>1. Playable' /\ LastInit'
    BY <1>1, <1>2, <1>4, PlaysInit
  <2>2. init' = m
    BY <1>1, <1>4, InitWritten
  <2> QED BY <1>2, <1>4, <2>1, <2>2 DEF Inits
<1>5. CASE (\A t \in Tracks : m[t] # 0) /\ map' = m /\ m = map /\ UNCHANGED files
  <2>1. Playable' /\ LastInit'
    BY <1>2, <1>5, PlaysSame DEF Inits
  <2>2. init' = init
    BY <1>5 DEF files
  <2> QED BY <1>2, <1>5, <2>1, <2>2 DEF Inits
<1>6. CASE (\E t \in Tracks : m[t] = 0) /\ map' = m /\ UNCHANGED files /\ pc' # "walk"
  <2>1. Playable' /\ LastInit'
    BY <1>2, <1>6, PlaysSame DEF Inits
  <2> QED BY <1>2, <1>6, <2>1 DEF Inits
<1>7. CASE UNCHANGED <<map, files>> /\ pc' # "walk"
  BY <1>2, <1>7, PlaysOthers
<1> QED BY <1>3, <1>4, <1>5, <1>6, <1>7

LEMMA PlaysQuiet ==
  ASSUME Base, Playable, Inits,
         \/ UNCHANGED vars
         \/ MakeSegment \/ GoesOffline \/ Cancel
         \/ PollVideo \/ PollFails \/ RefreshURL \/ FetchTimed
         \/ \E t \in Tracks : PollPair(t)
  PROVE  Playable' /\ Inits'
<1>1. UNCHANGED <<mode, numbered, map, files>>
  BY DEF vars, room, outside, history, tracks, MakeSegment, GoesOffline, Cancel, PollVideo, PollFails,
         RefreshURL, FetchTimed, PollPair
<1>2. pc' = "walk" => pc = "walk" \/ mode = "video"
  BY DEF vars, MakeSegment, GoesOffline, Cancel, PollVideo, PollFails, RefreshURL, FetchTimed,
         PollPair, Ends
<1>3. crossed => crossed'
  BY DEF vars, history, MakeSegment, GoesOffline, Cancel, PollVideo, PollFails, RefreshURL, FetchTimed, PollPair
<1> QED BY <1>1, <1>2, <1>3, PlaysOthers

LEMMA PlaysKept == ASSUME Base, Fed, Playable, Inits, [Next]_vars PROVE Playable' /\ Inits'
BY PlaysQuiet, PlaysVideoInit, PlaysVideoSegment, PlaysCombinedInit, PlaysPair, PlaysTimed
   DEF Next, Watching

\* Every file can be played: media comes after an init segment of its own file,
\* with one playlist that of its own encoding (mp4InitSegment, lastMapURI), but
\* for the variant once a list of another began with what was known.
THEOREM FilesPlayable == Spec => []Playable
<1> DEFINE Inv == Base /\ Fed /\ Playable /\ Inits
<1>1. Init => Inv
  BY BaseStart, FedStart, PlaysStart
<1>2. Inv /\ [Next]_vars => Inv'
  BY BaseKept, FedKept, PlaysKept
<1>3. Inv => Playable
  OBVIOUS
<1> QED BY <1>1, <1>2, <1>3, PTL DEF Spec
====
