--------------------------- MODULE DiscoveryProofs ---------------------------
(***************************************************************************)
(* Theorems about Discovery, for every set of files, every reading of names*)
(* and every number of edits.  The first part is about paths: what the     *)
(* order and the id of a file of the course tell.  The second is about     *)
(* scans that run while files come and go: what has been on disk all the   *)
(* time is found, and what an earlier listing promised is still there.     *)
(* The third is about a verdict that a change of language must not lose.   *)
(***************************************************************************)
EXTENDS Discovery, FiniteSetTheorems, SequenceTheorems, TLAPS

\* The sort keeps every exercise and orders them.
LEMMA SortsOrder ==
    ASSUME NEW S, IsFiniteSet(S), NEW s \in Sorts(S)
    PROVE  /\ s \in Seq(S)
           /\ DOMAIN s = 1..Len(s)
           /\ \A f \in S : \E i \in DOMAIN s : s[i] = f
           /\ \A i, j \in DOMAIN s : i < j => Order(s[i]) <= Order(s[j])
  <1>1. Cardinality(S) \in Nat  BY FS_CardinalityType
  <1>2. /\ s \in [1..Cardinality(S) -> S]
        /\ \A i, j \in 1..Cardinality(S) : i # j => s[i] # s[j]
        /\ \A i, j \in DOMAIN s : i < j => Order(s[i]) <= Order(s[j])
    BY DEF Sorts, SetToSeqs
  <1>3. s \in Seq(S) /\ DOMAIN s = 1..Len(s)  BY <1>1, <1>2
  <1>4. s \in Injection(1..Cardinality(S), S)
    BY <1>2 DEF Injection, IsInjective
  <1>5. IsFiniteSet(1..Cardinality(S)) /\ Cardinality(1..Cardinality(S)) = Cardinality(S)
    BY <1>1, FS_Interval
  <1>6. s \in Surjection(1..Cardinality(S), S)
    BY <1>4, <1>5, FS_Injection
  <1>7. QED  BY <1>2, <1>3, <1>6 DEF Surjection

\* Chapter numbers and indices that fit their place in the order.
Fits(c, i) == c \in Nat /\ c < 1000 /\ i \in Nat /\ i < 100

\* Numbers that fit are ordered as (standard, chapter, index).
LEMMA WeighIsLexicographic ==
    ASSUME NEW r \in Nat, NEW c, NEW i, Fits(c, i),
           NEW q \in Nat, NEW d, NEW k, Fits(d, k),
           Weigh(r, c, i) <= Weigh(q, d, k)
    PROVE  ~ \/ q < r
             \/ q = r /\ d < c
             \/ q = r /\ d = c /\ k < i
  BY DEF Weigh, Fits

\* No exercise of a standard comes before those of intro.
LEMMA WeighIsPositive ==
    ASSUME NEW r \in Nat, NEW c, NEW i, Fits(c, i)
    PROVE  Weigh(r, c, i) > -100000
  BY DEF Weigh, Fits

\* A name is a sequence of words and not empty.
LEMMA NameIsSequence ==
    ASSUME NEW n \in Names
    PROVE  n \in Seq(Words) /\ n # <<>>
  BY DEF Names

\* A leading number is a number or none.
LEMMA LeadingType ==
    ASSUME NEW n \in Names
    PROVE  Leading(n) \in Nat \cup {NaN}
  <1>1. Head(n) \in Words  BY DEF Names
  <1>2. QED  BY <1>1, NamesAssumption DEF Leading

\* A file is what its four parts are.
LEMMA FileType ==
    ASSUME NEW f \in Files
    PROVE  /\ f.lang \in Languages
           /\ f.std # NoStd => f.std \in Stds
           /\ f.dirs \in Seq(Names)
           /\ f.stem \in Names
           /\ f = [lang |-> f.lang, std |-> f.std, dirs |-> f.dirs, stem |-> f.stem]
  BY FilesAssumption DEF Paths

\* The shape of a path of the course below a standard.
LEMMA CourseShape ==
    ASSUME NEW f \in Files, InCourse(f), f.std # NoStd
    PROVE  /\ f.std \in Stds
           /\ IsChapter(f)
           /\ Len(f.dirs) = 1 /\ f.dirs[1] = Chapter(f)
           /\ Chapter(f) \in Names
           /\ f.stem \in Names /\ Len(f.stem) = 1
  <1>1. f.std \in Stds /\ f.dirs \in Seq(Names) /\ f.stem \in Names
    BY FileType
  <1>2. Len(f.dirs) = 1 /\ Len(f.stem) = 1 /\ IsChapter(f)
    BY DEF InCourse
  <1>3. f.dirs[1] = Chapter(f)  BY <1>2 DEF Last, Chapter
  <1>4. Chapter(f) \in Names  BY <1>1, <1>2, <1>3
  <1>5. QED  BY <1>1, <1>2, <1>3, <1>4

\* std_rank is a number or none.
LEMMA RankType ==
    ASSUME NEW d \in Stds
    PROVE  std_rank(d) \in Nat \cup {NaN}
  <1>1. Version[d] \in Nat \cup {NaN}  BY NamesAssumption
  <1>2. QED  BY <1>1 DEF std_rank

\* The order of a file of the course is weighed from numbers that fit.
LEMMA CourseOrder ==
    ASSUME NEW f \in Files, InCourse(f), f.std # NoStd
    PROVE  /\ std_rank(f.std) \in Nat
           /\ Fits(Leading(Chapter(f)), Index(f))
           /\ Order(f) = Weigh(std_rank(f.std), Leading(Chapter(f)), Index(f))
  <1>1. std_rank(f.std) \in Nat
    <2>1. std_rank(f.std) \in Nat \cup {NaN}  BY CourseShape, RankType
    <2>2. std_rank(f.std) # NaN  BY DEF InCourse
    <2>3. QED  BY <2>1, <2>2
  <1>2. IsChapter(f) /\ Chapter(f) \in Names  BY CourseShape
  <1>3. Leading(Chapter(f)) # NaN  BY <1>2 DEF IsChapter, IsChapterName
  <1>4. Leading(Chapter(f)) \in Nat  BY <1>2, <1>3, LeadingType
  <1>5. Leading(Chapter(f)) < 1000  BY DEF InCourse
  <1>6. Leading(f.stem) \in 0..99  BY DEF InCourse
  <1>7. Index(f) = Leading(f.stem)  BY <1>6 DEF Index, NaN
  <1>8. Fits(Leading(Chapter(f)), Index(f))
    BY <1>4, <1>5, <1>6, <1>7 DEF Fits
  <1>9. Order(f) = Weigh(std_rank(f.std), Leading(Chapter(f)), Index(f))
    BY <1>2 DEF Order
  <1>10. QED  BY <1>1, <1>8, <1>9

\* A smaller or equal order never means a later place in the course.
LEMMA OrderIsCourseOrder ==
    ASSUME NEW f \in Files, NEW g \in Files, InCourse(f), InCourse(g),
           Order(f) <= Order(g)
    PROVE  ~Precedes(g, f)
  <1>1. CASE f.std = NoStd
    BY <1>1 DEF Precedes
  <1>2. CASE f.std # NoStd /\ g.std = NoStd
    <2>1. ~IsChapter(g)  BY <1>2 DEF InCourse, IsChapter
    <2>2. Order(g) = -100000  BY <2>1 DEF Order
    <2>3. Order(f) > -100000  BY <1>2, CourseOrder, WeighIsPositive
    <2>4. Order(f) \in Int
      BY <1>2, CourseOrder DEF Fits, Weigh
    <2>5. QED  BY <2>2, <2>3, <2>4
  <1>3. CASE f.std # NoStd /\ g.std # NoStd
    BY <1>3, CourseOrder, WeighIsLexicographic DEF Precedes
  <1>4. QED  BY <1>1, <1>2, <1>3

\* A word, a sequence and one more word, joined as Id joins them.
Join(a, s, t) == <<a>> \o s \o t

\* What a join holds, and where.
LEMMA JoinParts ==
    ASSUME NEW S, NEW a \in S, NEW s \in Seq(S), NEW t \in Seq(S), Len(t) = 1
    PROVE  /\ Len(Join(a, s, t)) = Len(s) + 2
           /\ Join(a, s, t)[1] = a
           /\ Head(Join(a, s, t)) = a
           /\ \A i \in 1..Len(s) : Join(a, s, t)[i + 1] = s[i]
           /\ Join(a, s, t)[Len(s) + 2] = t[1]
  <1> DEFINE h == <<a>>
             u == h \o s
  <1>1. h \in Seq(S) /\ Len(h) = 1 /\ h[1] = a  OBVIOUS
  <1>2. Len(s) \in Nat  OBVIOUS
  <1> HIDE DEF h
  <1>3. /\ u \in Seq(S) /\ Len(u) = Len(s) + 1
        /\ u[1] = a
        /\ \A i \in 1..Len(s) : u[i + 1] = s[i]
    BY <1>1, <1>2, ConcatProperties
  <1> HIDE DEF u
  <1>4. /\ u \o t \in Seq(S) /\ Len(u \o t) = Len(s) + 2
        /\ \A i \in 1..(Len(s) + 1) : (u \o t)[i] = u[i]
        /\ (u \o t)[Len(s) + 2] = t[1]
    <2>1. /\ u \o t \in Seq(S)
          /\ Len(u \o t) = Len(u) + Len(t)
          /\ \A i \in 1..(Len(u) + Len(t)) :
                (u \o t)[i] = IF i <= Len(u) THEN u[i] ELSE t[i - Len(u)]
      BY <1>3, ConcatProperties
    <2>2. QED  BY <1>2, <1>3, <2>1
  <1>5. \A i \in 1..Len(s) : (u \o t)[i + 1] = s[i]
    BY <1>2, <1>3, <1>4
  <1>6. (u \o t)[1] = a  BY <1>2, <1>3, <1>4
  <1>7. Head(u \o t) = a  BY <1>2, <1>4, <1>6
  <1>8. QED  BY <1>4, <1>5, <1>6, <1>7 DEF u, h, Join

\* With one word at the end, a join tells its parts.
LEMMA JoinIsInjective ==
    ASSUME NEW S, NEW a \in S, NEW s \in Seq(S), NEW t \in Seq(S), Len(t) = 1,
           NEW b \in S, NEW u \in Seq(S), NEW v \in Seq(S), Len(v) = 1,
           Join(a, s, t) = Join(b, u, v)
    PROVE  a = b /\ s = u /\ t = v
  <1> DEFINE j == Join(a, s, t)
             k == Join(b, u, v)
  <1>1. /\ Len(j) = Len(s) + 2 /\ j[1] = a
        /\ \A i \in 1..Len(s) : j[i + 1] = s[i]
        /\ j[Len(s) + 2] = t[1]
    BY JoinParts
  <1>2. /\ Len(k) = Len(u) + 2 /\ k[1] = b
        /\ \A i \in 1..Len(u) : k[i + 1] = u[i]
        /\ k[Len(u) + 2] = v[1]
    BY JoinParts
  <1>3. Len(s) \in Nat /\ Len(u) \in Nat /\ j = k  OBVIOUS
  <1> HIDE DEF j, k
  <1>4. Len(s) = Len(u)  BY <1>1, <1>2, <1>3
  <1>5. s = u  BY <1>1, <1>2, <1>3, <1>4, SeqEqual
  <1>6. t = v  BY <1>1, <1>2, <1>3, <1>4, SeqEqual
  <1>7. QED  BY <1>1, <1>2, <1>3, <1>5, <1>6

\* The words of ids.
Joined == Words \cup Stds

\* The id of a file of the course is such a join.
LEMMA IdOfCourseFile ==
    ASSUME NEW f \in Files, InCourse(f), f.std # NoStd
    PROVE  /\ Id(f) = Join(f.std, Chapter(f), f.stem)
           /\ Chapter(f) \in Seq(Joined)
           /\ f.stem \in Seq(Joined) /\ Len(f.stem) = 1
           /\ f.std \in Joined
  <1>1. Id(f) = Join(f.std, Chapter(f), f.stem)  BY CourseShape DEF Id, Join
  <1>2. Chapter(f) \in Seq(Words) /\ f.stem \in Seq(Words)
    BY CourseShape, NameIsSequence
  <1>3. Words \subseteq Joined /\ Stds \subseteq Joined  BY DEF Joined
  <1>4. Chapter(f) \in Seq(Joined) /\ f.stem \in Seq(Joined)
    BY <1>2, <1>3, SeqMonotonic
  <1>5. Len(f.stem) = 1 /\ f.std \in Joined  BY <1>3, CourseShape
  <1>6. QED  BY <1>1, <1>4, <1>5

\* In the course an id names one file of a language.
LEMMA IdsAreUnique ==
    ASSUME NEW f \in Files, NEW g \in Files, InCourse(f), InCourse(g),
           f.lang = g.lang, Id(f) = Id(g)
    PROVE  f = g
  <1>1. /\ f = [lang |-> f.lang, std |-> f.std, dirs |-> f.dirs, stem |-> f.stem]
        /\ g = [lang |-> g.lang, std |-> g.std, dirs |-> g.dirs, stem |-> g.stem]
    BY FileType
  <1>2. ASSUME NEW h \in Files, InCourse(h), h.std = NoStd
        PROVE  Id(h) = h.stem /\ Head(Id(h)) \notin Stds /\ h.dirs = <<>>
    <2>1. h.dirs = <<>> /\ Head(h.stem) \notin Stds  BY <1>2 DEF InCourse
    <2>2. Id(h) = h.stem  BY <2>1 DEF IsChapter, Id
    <2>3. QED  BY <2>1, <2>2
  <1>3. ASSUME NEW h \in Files, InCourse(h), h.std # NoStd
        PROVE  Head(Id(h)) \in Stds
    <2>1. /\ Id(h) = Join(h.std, Chapter(h), h.stem)
          /\ Chapter(h) \in Seq(Joined)
          /\ h.stem \in Seq(Joined) /\ Len(h.stem) = 1
          /\ h.std \in Joined
      BY <1>3, IdOfCourseFile
    <2>2. Head(Join(h.std, Chapter(h), h.stem)) = h.std
      <3> DEFINE a == h.std  c == Chapter(h)  t == h.stem
      <3>1. a \in Joined /\ c \in Seq(Joined) /\ t \in Seq(Joined) /\ Len(t) = 1
        BY <2>1
      <3> HIDE DEF a, c, t
      <3>2. Head(Join(a, c, t)) = a  BY <3>1, JoinParts
      <3>3. QED  BY <3>2 DEF a, c, t
    <2>3. QED  BY <1>3, <2>1, <2>2, CourseShape
  <1>4. CASE f.std = NoStd /\ g.std = NoStd
    BY <1>1, <1>2, <1>4
  <1>5. CASE (f.std = NoStd) # (g.std = NoStd)
    BY <1>2, <1>3, <1>5
  <1>6. CASE f.std # NoStd /\ g.std # NoStd
    <2>1. /\ Id(f) = Join(f.std, Chapter(f), f.stem)
          /\ Chapter(f) \in Seq(Joined)
          /\ f.stem \in Seq(Joined) /\ Len(f.stem) = 1
          /\ f.std \in Joined
      BY <1>6, IdOfCourseFile
    <2>2. /\ Id(g) = Join(g.std, Chapter(g), g.stem)
          /\ Chapter(g) \in Seq(Joined)
          /\ g.stem \in Seq(Joined) /\ Len(g.stem) = 1
          /\ g.std \in Joined
      BY <1>6, IdOfCourseFile
    <2>3. f.std = g.std /\ Chapter(f) = Chapter(g) /\ f.stem = g.stem
      <3> DEFINE a == f.std  c == Chapter(f)  t == f.stem
                 b == g.std  d == Chapter(g)  v == g.stem
      <3>1. /\ a \in Joined /\ c \in Seq(Joined) /\ t \in Seq(Joined) /\ Len(t) = 1
            /\ b \in Joined /\ d \in Seq(Joined) /\ v \in Seq(Joined) /\ Len(v) = 1
            /\ Join(a, c, t) = Join(b, d, v)
        BY <2>1, <2>2
      <3> HIDE DEF a, b, c, d, t, v
      <3>2. a = b /\ c = d /\ t = v  BY <3>1, JoinIsInjective
      <3>3. QED  BY <3>2 DEF a, b, c, d, t, v
    <2>4. /\ f.dirs \in Seq(Names) /\ Len(f.dirs) = 1 /\ f.dirs[1] = Chapter(f)
          /\ g.dirs \in Seq(Names) /\ Len(g.dirs) = 1 /\ g.dirs[1] = Chapter(g)
      BY <1>6, CourseShape, FileType
    <2>5. f.dirs = g.dirs
      <3> DEFINE x == f.dirs  y == g.dirs
      <3>1. /\ x \in Seq(Names) /\ y \in Seq(Names)
            /\ Len(x) = 1 /\ Len(y) = 1 /\ x[1] = y[1]
        BY <2>3, <2>4
      <3> HIDE DEF x, y
      <3>2. x = y  BY <3>1, SeqEqual
      <3>3. QED  BY <3>2 DEF x, y
    <2>6. QED  BY <1>1, <2>3, <2>5
  <1>7. QED  BY <1>4, <1>5, <1>6

-----------------------------------------------------------------------------
(* The inductive invariant.                                                *)

\* Between calls nothing of a scan is left.
Resting == ~busy => at = 0 /\ found = {}

\* What is kept has been there during the whole of a call under way.
Staying ==
    /\ kept \subseteq disk
    /\ busy => kept \subseteq stayed /\ stayed \subseteq disk

\* The scan has taken only what it looks for.
Taken == \A f \in found : f.lang = language /\ Valid(f)

\* The directories walked so far have given what has been there all the time,
\* and the standards' directories that have been there are known.
Swept ==
    busy =>
        /\ \A f \in stayed :
            f.lang = language /\ Valid(f)
            /\ (\E k \in 0..(at - 1) : f.std = Member(k)) => f \in found
        /\ at > 0 => \A f \in stayed :
            f.lang = language => f.std \in std_dirs \cup {NoStd}

\* The listing is sorted and of its language.
Listed ==
    /\ \A i \in DOMAIN listing : listing[i].lang = listedLang /\ Valid(listing[i])
    /\ \A i, j \in DOMAIN listing : i < j => Order(listing[i]) <= Order(listing[j])

Inv == TypeOK /\ Resting /\ Staying /\ Taken /\ Swept /\ Listed

\* The invariant holds at the start, and each of its parts is kept.
LEMMA InitInv == Init => Inv
  <1> SUFFICES ASSUME Init PROVE Inv  OBVIOUS
  <1>1. TypeOK
    <2>1. 0 \in 0..(Len(StdNames) + 1) /\ 0 \in 0..MaxEdits
      BY NamesAssumption, FilesAssumption
    <2>2. <<>> \in Seq(Files)  BY EmptySeq
    <2>3. QED
      BY <2>1, <2>2, FilesAssumption DEF Init, TypeOK, Languages
  <1>2. Resting /\ Staying /\ Taken /\ Swept
    BY DEF Init, Resting, Staying, Taken, Swept
  <1>3. Listed  BY DEF Init, Listed
  <1>4. QED  BY <1>1, <1>2, <1>3 DEF Inv

\* The types are kept by every step.
LEMMA TypeStep == TypeOK /\ [Next]_vars => TypeOK'
  <1> SUFFICES ASSUME TypeOK, [Next]_vars PROVE TypeOK'  OBVIOUS
  <1> USE DEF TypeOK
  <1>1. ASSUME NEW f \in Files, AddFile(f) PROVE TypeOK'
    BY <1>1, FilesAssumption DEF AddFile, provider, d2x
  <1>2. ASSUME NEW f \in Files, RemoveFile(f) PROVE TypeOK'
    BY <1>2, FilesAssumption DEF RemoveFile, provider, d2x
  <1>3. ASSUME NEW l \in Languages \cup {"none"}, SetLanguage(l) PROVE TypeOK'
    BY <1>3, FilesAssumption DEF SetLanguage, provider, d2x
  <1>4. ASSUME NEW f \in Files, Begin("check", Id(f)) PROVE TypeOK'
    BY <1>4 DEF Begin, d2x, read_lang, Languages
  <1>5. CASE Begin("exercises", <<>>)
    BY <1>5 DEF Begin, d2x, read_lang, Languages
  <1>6. ASSUME NEW f \in Files, Visit(f) PROVE TypeOK'
    BY <1>6 DEF Visit, d2x
  <1>7. CASE Leave
    <2>1. at' \in 0..(Len(StdNames) + 1)
      BY <1>7, NamesAssumption DEF Leave
    <2>2. std_dirs' \subseteq {f.std : f \in Files} \ {NoStd}
      BY <1>7 DEF Leave
    <2>3. QED  BY <1>7, <2>1, <2>2 DEF Leave, d2x
  <1>8. CASE List
    <2>1. listing' \in Sorts(found)  BY <1>8 DEF List
    <2>2. IsFiniteSet(found)  BY FilesAssumption, FS_Subset
    <2>3. listing' \in Seq(found)  BY <2>1, <2>2, SortsOrder
    <2>4. listing' \in Seq(Files)  BY <2>3, SeqMonotonic
    <2>5. 0 \in 0..(Len(StdNames) + 1)  BY NamesAssumption
    <2>6. QED  BY <1>8, <2>4, <2>5 DEF List, Return
  <1>9. CASE Check
    <2>1. 0 \in 0..(Len(StdNames) + 1)  BY NamesAssumption
    <2>2. QED  BY <1>9, <2>1 DEF Check, Return
  <1>10. CASE CheckUnknown \/ Kill
    <2>1. 0 \in 0..(Len(StdNames) + 1)  BY NamesAssumption
    <2>2. QED  BY <1>10, <2>1 DEF CheckUnknown, Kill, Return, d2x
  <1>11. CASE UNCHANGED vars
    BY <1>11 DEF vars, provider, d2x
  <1>12. QED
    BY <1>1, <1>2, <1>3, <1>4, <1>5, <1>6, <1>7, <1>8, <1>9, <1>10, <1>11
       DEF Next

\* At the end of a scan all that has been there is found.
LEMMA ScanIsComplete ==
    ASSUME TypeOK, Swept, Scanned, NEW f \in stayed, f.lang = language, Valid(f)
    PROVE  f \in found
  <1>1. f \in Files  BY DEF TypeOK
  <1>2. busy /\ at = Len(StdNames) + 1 /\ Len(StdNames) \in Nat
    BY NamesAssumption DEF Scanned
  <1>3. \E k \in 0..(at - 1) : f.std = Member(k)
    <2>1. CASE f.std = NoStd
      <3>1. 0 \in 0..(at - 1) /\ Member(0) = NoStd  BY <1>2 DEF Member
      <3>2. QED  BY <2>1, <3>1
    <2>2. CASE f.std # NoStd
      <3>1. PICK k \in 1..Len(StdNames) : StdNames[k] = f.std
        BY <1>1, <2>2, FileType, NamesAssumption
      <3>2. k \in 0..(at - 1) /\ Member(k) = f.std
        BY <1>2, <3>1 DEF Member
      <3>3. QED  BY <3>2
    <2>3. QED  BY <2>1, <2>2
  <1>4. QED  BY <1>2, <1>3 DEF Swept

\* Edits shrink what stayed and what is kept alike; a visit takes its kind.
LEMMA RestStep == Inv /\ [Next]_vars => Resting' /\ Staying' /\ Taken'
  <1> SUFFICES ASSUME Inv, [Next]_vars PROVE Resting' /\ Staying' /\ Taken'
    OBVIOUS
  <1> USE DEF Inv, Resting, Staying, Taken
  <1>1. ASSUME NEW f \in Files, AddFile(f) PROVE Resting' /\ Staying' /\ Taken'
    BY <1>1 DEF AddFile, provider, d2x, Valid
  <1>2. ASSUME NEW f \in Files, RemoveFile(f) PROVE Resting' /\ Staying' /\ Taken'
    BY <1>2 DEF RemoveFile, provider, d2x, Valid
  <1>3. ASSUME NEW l, SetLanguage(l) PROVE Resting' /\ Staying' /\ Taken'
    BY <1>3 DEF SetLanguage, provider, d2x
  <1>4. ASSUME NEW c, NEW id, Begin(c, id) PROVE Resting' /\ Staying' /\ Taken'
    BY <1>4 DEF Begin, d2x
  <1>5. ASSUME NEW f \in Files, Visit(f) PROVE Resting' /\ Staying' /\ Taken'
    BY <1>5 DEF Visit, InMirror, d2x
  <1>6. CASE Leave
    BY <1>6 DEF Leave, d2x
  <1>7. CASE List \/ Check \/ CheckUnknown \/ Kill
    BY <1>7 DEF List, Check, CheckUnknown, Kill, Scanned, Return, d2x
  <1>8. CASE UNCHANGED vars
    BY <1>8 DEF vars, provider, d2x
  <1>9. QED
    BY <1>1, <1>2, <1>3, <1>4, <1>5, <1>6, <1>7, <1>8 DEF Next

\* Leaving a directory moves it to those swept; nothing is forgotten.
LEMMA SweptStep == Inv /\ [Next]_vars => Swept'
  <1> SUFFICES ASSUME Inv, [Next]_vars PROVE Swept'  OBVIOUS
  <1>1. CASE \E f \in Files : AddFile(f) \/ RemoveFile(f)
    BY <1>1 DEF Inv, AddFile, RemoveFile, provider, d2x, Swept, Member
  <1>2. CASE \E l \in Languages \cup {"none"} : SetLanguage(l)
    BY <1>2 DEF Inv, SetLanguage, provider, d2x, Swept, Member
  <1>3. ASSUME NEW c, NEW id, Begin(c, id) PROVE Swept'
    <2>1. at' = 0  BY <1>3 DEF Begin, Inv, Resting
    <2>2. 0..(0 - 1) = {} /\ ~(0 > 0)  OBVIOUS
    <2>3. QED  BY <2>1, <2>2 DEF Swept
  <1>4. ASSUME NEW f \in Files, Visit(f) PROVE Swept'
    BY <1>4 DEF Inv, Visit, d2x, Swept, Member
  <1>5. CASE Leave
    <2>1. /\ busy /\ at' = at + 1 /\ at \in Nat /\ at <= Len(StdNames)
          /\ UNCHANGED <<stayed, found, language, busy>>
      BY <1>5, NamesAssumption DEF Leave, Inv, TypeOK
    <2>2. stayed \subseteq disk /\ stayed \subseteq Files
      BY <2>1 DEF Inv, Staying, TypeOK
    <2>3. ASSUME NEW f \in stayed, f.lang = language
          PROVE  f.std \in std_dirs' \cup {NoStd}
      <3>1. CASE at = 0
        BY <1>5, <2>2, <2>3, <3>1 DEF Leave, InMirror
      <3>2. CASE at # 0
        BY <1>5, <2>1, <2>3, <3>2 DEF Leave, Inv, Swept
      <3>3. QED  BY <3>1, <3>2
    <2>4. ASSUME NEW f \in stayed, f.lang = language, Valid(f),
                 NEW k \in 0..at, f.std = Member(k)
          PROVE  f \in found
      <3>1. CASE k # at
        <4>1. k \in 0..(at - 1)  BY <2>1, <2>4, <3>1
        <4>2. QED  BY <2>1, <2>4, <4>1 DEF Inv, Swept
      <3>2. CASE k = at /\ (at = 0 \/ Member(at) \in std_dirs)
        BY <1>5, <2>4, <3>2 DEF Leave, InMirror
      <3>3. CASE k = at /\ at # 0 /\ Member(at) \notin std_dirs
        <4>1. Member(at) \in Stds
          BY <2>1, <3>3, NamesAssumption DEF Member
        <4>2. f.std \in std_dirs \cup {NoStd}
          BY <2>1, <2>4, <3>3 DEF Inv, Swept
        <4>3. QED  BY <2>4, <3>3, <4>1, <4>2, NamesAssumption
      <3>4. QED  BY <3>1, <3>2, <3>3
    <2>5. at' - 1 = at  BY <2>1
    <2>6. Swept' <=> \/ ~busy
                     \/ /\ \A f \in stayed :
                            f.lang = language /\ Valid(f)
                            /\ (\E k \in 0..at : f.std = Member(k)) => f \in found
                        /\ at + 1 > 0 => \A f \in stayed :
                            f.lang = language => f.std \in std_dirs' \cup {NoStd}
      BY <2>1, <2>5 DEF Swept, Member
    <2>7. QED  BY <2>3, <2>4, <2>6
  <1>6. CASE List \/ Check \/ CheckUnknown \/ Kill
    BY <1>6 DEF List, Check, CheckUnknown, Kill, Return, Swept
  <1>7. CASE UNCHANGED vars
    BY <1>7 DEF Inv, vars, provider, d2x, Swept, Member
  <1>8. QED
    BY <1>1, <1>2, <1>3, <1>4, <1>5, <1>6, <1>7 DEF Next

\* Only List changes the listing.
LEMMA ListedStep == Inv /\ [Next]_vars => Listed'
  <1> SUFFICES ASSUME Inv, [Next]_vars PROVE Listed'  OBVIOUS
  <1>1. CASE List
    <2>1. listing' \in Sorts(found) /\ listedLang' = language
      BY <1>1 DEF List
    <2>2. IsFiniteSet(found)
      BY FilesAssumption, FS_Subset DEF Inv, TypeOK
    <2>3. /\ \A i \in DOMAIN listing' : listing'[i] \in found
          /\ \A i, j \in DOMAIN listing' :
                i < j => Order(listing'[i]) <= Order(listing'[j])
      BY <2>1, <2>2, SortsOrder
    <2>4. QED  BY <2>1, <2>3 DEF Inv, Taken, Listed
  <1>2. CASE UNCHANGED <<listing, listedLang>>
    BY <1>2 DEF Inv, Listed
  <1>3. QED
    BY <1>1, <1>2 DEF Next, vars, d2x, AddFile, RemoveFile, SetLanguage, Begin,
       Visit, Leave, Check, CheckUnknown, Kill

\* Inv is inductive.
THEOREM Invariance == Spec => []Inv
  <1>1. Inv /\ [Next]_vars => Inv'
    BY TypeStep, RestStep, SweptStep, ListedStep DEF Inv
  <1>2. QED  BY InitInv, <1>1, PTL DEF Spec

\* The state stays within its types.
THEOREM TypeCorrect == Spec => []TypeOK
  <1>1. Inv => TypeOK  BY DEF Inv
  <1>2. QED  BY <1>1, Invariance, PTL

\* Every listing is of one language, for every set of files and every edit.
THEOREM OneLanguage == Spec => []ListedInOneLanguage
  <1>1. Inv => ListedInOneLanguage  BY DEF Inv, Listed, ListedInOneLanguage
  <1>2. QED  BY <1>1, Invariance, PTL

\* Every listing has the exercises of the course in the order of the course,
\* for every course below 1000 chapters of below 100 exercises.
THEOREM CourseOrderKept == Spec => []ListedInCourseOrder
  <1>1. Inv => ListedInCourseOrder
    <2> SUFFICES ASSUME Inv, NEW i \in DOMAIN listing, NEW j \in DOMAIN listing,
                        i < j, InCourse(listing[i]), InCourse(listing[j])
                 PROVE  ~Precedes(listing[j], listing[i])
      BY DEF ListedInCourseOrder
    <2>1. listing[i] \in Files /\ listing[j] \in Files  BY DEF Inv, TypeOK
    <2>2. Order(listing[i]) <= Order(listing[j])  BY DEF Inv, Listed
    <2>3. QED  BY <2>1, <2>2, OrderIsCourseOrder
  <1>2. QED  BY <1>1, Invariance, PTL

\* In a course that follows its convention a listed id leads every later check
\* to the listed file, whatever else is edited between and during the calls.
THEOREM CheckCorrect ==
    ASSUME \A f \in Files : InCourse(f)
    PROVE  Spec => []CheckFindsListedFile
  <1>1. Init => CheckFindsListedFile  BY DEF Init, CheckFindsListedFile
  <1>2. Inv /\ CheckFindsListedFile /\ [Next]_vars => CheckFindsListedFile'
    <2> SUFFICES ASSUME Inv, CheckFindsListedFile, [Next]_vars
                 PROVE  CheckFindsListedFile'
      OBVIOUS
    <2>1. CASE Check \/ CheckUnknown
      <3> SUFFICES ASSUME language = listedLang, NEW i \in DOMAIN listing,
                          listing[i] \in kept, Id(listing[i]) = asked
                   PROVE  checked' = listing[i]
        BY <2>1 DEF Check, CheckUnknown, d2x, CheckFindsListedFile
      <3> DEFINE f == listing[i]
      <3>1. Scanned  BY <2>1 DEF Check, CheckUnknown
      <3>2. f \in stayed /\ f.lang = language /\ Valid(f)
        BY <3>1 DEF Inv, Staying, Listed, Scanned
      <3>3. f \in found  BY <3>1, <3>2, ScanIsComplete DEF Inv
      <3>4. Check  BY <2>1, <3>3 DEF CheckUnknown
      <3>5. PICK g \in found : Id(g) = asked /\ checked' = g
        BY <3>4 DEF Check, FindsIn
      <3>6. f \in Files /\ g \in Files /\ f.lang = g.lang /\ Id(f) = Id(g)
        BY <3>2, <3>3, <3>5 DEF Inv, TypeOK, Taken
      <3>7. f = g  BY <3>6, IdsAreUnique
      <3>8. QED  BY <3>5, <3>7
    <2>2. CASE List
      BY <2>2 DEF List, CheckFindsListedFile
    <2>3. CASE Kill
      BY <2>3 DEF Kill, CheckFindsListedFile
    <2>4. CASE \E f \in Files : AddFile(f) \/ RemoveFile(f) \/ Visit(f)
      BY <2>4 DEF AddFile, RemoveFile, Visit, provider, d2x, CheckFindsListedFile
    <2>5. CASE \E l \in Languages \cup {"none"} : SetLanguage(l)
      BY <2>5 DEF SetLanguage, provider, d2x, CheckFindsListedFile
    <2>6. ASSUME NEW c, NEW id, Begin(c, id) PROVE CheckFindsListedFile'
      BY <2>6 DEF Begin, CheckFindsListedFile
    <2>7. CASE Leave
      BY <2>7 DEF Leave, d2x, CheckFindsListedFile
    <2>8. CASE UNCHANGED vars
      BY <2>8 DEF vars, provider, d2x, CheckFindsListedFile
    <2>9. QED
      BY <2>1, <2>2, <2>3, <2>4, <2>5, <2>6, <2>7, <2>8 DEF Next
  <1>3. QED  BY <1>1, <1>2, Invariance, PTL DEF Spec

-----------------------------------------------------------------------------
(* A verdict and its mirror.                                               *)

\* The listing leaves out nothing that it had to find, and a verdict is about
\* a file whose name the scan accepts.
Complete ==
    /\ \A f \in kept : f.lang = listedLang /\ Valid(f) =>
           \E i \in DOMAIN listing : listing[i] = f
    /\ judged # NoFile => judged \in Files /\ Valid(judged)

LEMMA CompleteStep == Inv /\ Complete /\ [Next]_vars => Complete'
  <1> SUFFICES ASSUME Inv, Complete, [Next]_vars PROVE Complete'  OBVIOUS
  <1>1. CASE List
    <2>1. /\ Scanned /\ listing' \in Sorts(found) /\ listedLang' = language
          /\ kept' = stayed /\ judged' = judged
      BY <1>1 DEF List
    <2>2. IsFiniteSet(found)
      BY FilesAssumption, FS_Subset DEF Inv, TypeOK
    <2>3. \A f \in found : \E i \in DOMAIN listing' : listing'[i] = f
      BY <2>1, <2>2, SortsOrder
    <2>4. \A f \in stayed : f.lang = language /\ Valid(f) => f \in found
      BY <2>1, ScanIsComplete DEF Inv
    <2>5. QED  BY <2>1, <2>3, <2>4 DEF Complete
  <1>2. CASE Check
    <2>1. judged' \in found /\ UNCHANGED <<kept, listing, listedLang>>
      BY <1>2 DEF Check
    <2>2. judged' \in Files /\ Valid(judged')
      BY <2>1 DEF Inv, TypeOK, Taken
    <2>3. QED  BY <2>1, <2>2 DEF Complete
  <1>3. CASE kept' \subseteq kept /\ UNCHANGED <<listing, listedLang, judged>>
    BY <1>3 DEF Complete
  <1>4. QED
    BY <1>1, <1>2, <1>3 DEF Next, vars, d2x, AddFile, RemoveFile, SetLanguage, Begin,
       Visit, Leave, CheckUnknown, Kill

\* Of two mirrors the scan accepts both or none, and gives them one id: neither
\* depends on the language.
LEMMA MirrorsAlike ==
    ASSUME NEW f \in Files, NEW g \in Files, Mirrors(f, g)
    PROVE  Id(f) = Id(g) /\ (Valid(g) => Valid(f))
  <1>1. f.std = g.std /\ f.dirs = g.dirs /\ f.stem = g.stem
    <2> DEFINE l == f.lang
    <2>1. f = [g EXCEPT !.lang = l]  BY DEF Mirrors
    <2> HIDE DEF l
    <2>2. g = [lang |-> g.lang, std |-> g.std, dirs |-> g.dirs, stem |-> g.stem]
      BY FileType
    <2>3. QED  BY <2>1, <2>2
  <1>2. Id(f) = Id(g)  BY <1>1 DEF Id, IsChapter, Chapter
  <1>3. QED  BY <1>1, <1>2 DEF Valid

\* Whatever is edited meanwhile, a listing that is made after the switch of
\* language has the exercise under the id that the verdict was saved with
\* (discovery.cppm:24).
THEOREM ProgressKept == Spec => []ProgressSurvivesLanguage
  <1>1. Init => Complete  BY DEF Init, Complete
  <1>2. Inv /\ Complete => ProgressSurvivesLanguage
    <2> SUFFICES ASSUME Inv, Complete, NEW f \in kept, f.lang = listedLang,
                        Mirrors(f, judged)
                 PROVE  \E i \in DOMAIN listing : Id(listing[i]) = Id(judged)
      BY DEF ProgressSurvivesLanguage
    <2>1. f \in Files  BY DEF Inv, TypeOK
    <2>2. judged # NoFile
      <3> SUFFICES ASSUME judged = NoFile PROVE FALSE  OBVIOUS
      <3>1. f.stem = <<>>  BY DEF Mirrors, NoFile
      <3>2. QED  BY <2>1, <3>1, FileType DEF Names
    <2>3. judged \in Files /\ Valid(judged)  BY <2>2 DEF Complete
    <2>4. Id(f) = Id(judged) /\ Valid(f)  BY <2>1, <2>3, MirrorsAlike
    <2>5. QED  BY <2>4 DEF Complete
  <1>3. QED  BY <1>1, <1>2, CompleteStep, Invariance, PTL DEF Spec
=============================================================================
