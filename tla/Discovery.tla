------------------------------ MODULE Discovery ------------------------------
(***************************************************************************)
(* How the Provider finds exercises (d2x/buildtools/src/discovery.cppm).   *)
(* Each call of `exercises` and of `check <id>` scans the directories anew;*)
(* between the calls, and while one is under way, the learner edits files  *)
(* and switches the language.  d2x keeps the last listing and the ids that *)
(* were judged, and asks for an id long after it was listed.               *)
(*                                                                         *)
(* A name is the sequence of its words between dashes, because a dash is   *)
(* also what joins the parts of an id: "cpp11-00-auto-0" does not say where*)
(* its parts end.  Files are the regular .cpp files that may exist; those  *)
(* of other kinds are skipped by the scan whatever they are.               *)
(***************************************************************************)
EXTENDS Integers, Sequences, FiniteSets, SequencesExt

CONSTANTS
    Files,     \* [lang, std, dirs, stem] records: the files that may exist
    Number,    \* what from_chars reads at the start of a word, or NaN
    StdNames,  \* the standards' directories in the order of their names
    Version,   \* the number after "cpp" in such a name, or NaN
    BadWords,  \* words with a character outside the white list
    Present,   \* files that exist at the start
    MaxEdits   \* bound: files added or removed, and switches of language

NaN       == -1
NoStd     == ""     \* std_dir of intro
Languages == {"zh", "en"}
Words     == DOMAIN Number
Names     == Seq(Words) \ {<<>>}
Stds      == DOMAIN Version
Paths     == [lang : Languages, std : Stds \cup {NoStd},
              dirs : Seq(Names), stem : Names]
NoFile    == [lang |-> "none", std |-> NoStd, dirs |-> <<>>, stem |-> <<>>]

ASSUME NamesAssumption ==
    /\ Number \in [Words -> Nat \cup {NaN}]
    /\ Version \in [Stds -> Nat \cup {NaN}]
    /\ NoStd \notin Stds
    /\ StdNames \in Seq(Stds)
    /\ \A d \in Stds : \E k \in 1..Len(StdNames) : StdNames[k] = d
ASSUME FilesAssumption ==
    /\ IsFiniteSet(Files)
    /\ Files \subseteq Paths
    /\ Present \subseteq Files
    /\ MaxEdits \in Nat

VARIABLES
    disk,        \* the files that exist
    setting,     \* the language in .d2x.json ("zh": any but "en"), or "none"
    edits,       \* edits made, for the bound
    call,        \* the command: the one under way, or the last that ended
    busy,        \* the call is scanning
    asked,       \* the id of the check
    language,    \* what read_lang returned to the call
    at,          \* directory of the walk: 0 is intro, k the k-th standard
    std_dirs,    \* the standards' directories found
    found,       \* the exercises found so far
    stayed,      \* history: files on disk since the call began
    checked,     \* the file the last check is about, or NoFile
    listing,     \* d2x: the last listing
    listedLang,  \* d2x: the language of that listing
    kept,        \* history: files on disk since the listing's call began
    judged       \* d2x: the file whose verdict was saved last, or NoFile

provider == <<call, busy, asked, language, at, std_dirs, found, checked>>
d2x      == <<listing, listedLang, judged>>
vars     == <<disk, setting, edits, stayed, kept, provider, d2x>>

-----------------------------------------------------------------------------
(* What a path means.                                                      *)

\* The first number of a name: std::from_chars on its head.
Leading(name) == Number[Head(name)]

\* parse_chapter: a dash, and a number before it.
IsChapterName(name) == Len(name) > 1 /\ Leading(name) # NaN

\* Only the last directory of the path is looked at.
Chapter(f)   == Last(f.dirs)
IsChapter(f) == f.dirs # <<>> /\ IsChapterName(Chapter(f))

std_rank(std) == IF std \in Stds THEN Version[std] ELSE NaN

\* from_chars leaves the 0 in place when there is no number.
Index(f) == IF Leading(f.stem) = NaN THEN 0 ELSE Leading(f.stem)

(* Mutated forms of definitions below, for the sensitivity of the checks.  *)

\* The language is read again for each directory.
InMirror_Now(f) == f.lang = IF setting = "none" THEN "en" ELSE setting

\* The weight of a chapter is too small for the indices in it.
Weigh_Narrow(rank, chapter, index) == rank * 100000 + chapter * 10 + index

\* The id leaves the standard out.
Id_NoStandard(f) == IF IsChapter(f) THEN Chapter(f) \o f.stem ELSE f.stem

\* The id is made of the member, mirror included, not of the standard.
Id_OfMember(f) ==
    <<f.lang>> \o
    IF IsChapter(f) THEN <<f.std>> \o Chapter(f) \o f.stem ELSE f.stem

-----------------------------------------------------------------------------
Weigh(rank, chapter, index) == rank * 100000 + chapter * 100 + index

Order(f) ==
    IF IsChapter(f)
    THEN Weigh(std_rank(f.std), Leading(Chapter(f)), Index(f))
    ELSE -100000

\* ex.id: std_dir, chapter directory and stem joined by dashes.
Id(f) == IF IsChapter(f) THEN <<f.std>> \o Chapter(f) \o f.stem ELSE f.stem

\* valid_id, and valid_test_name of the whole path below tests/.
Valid(f) ==
    /\ \A w \in Range(Id(f)) : w \notin BadWords
    /\ \A d \in Range(f.dirs) : \A w \in Range(d) : w \notin BadWords
    /\ \A w \in Range(f.stem) : w \notin BadWords

\* The order the sort leaves: it is not stable, and neither is the walk.
Sorts(S) ==
    {s \in SetToSeqs(S) :
        \A i, j \in DOMAIN s : i < j => Order(s[i]) <= Order(s[j])}

\* std::ranges::find takes the first exercise with the id.
FindsIn(s, id, f) ==
    \E i \in DOMAIN s :
        /\ s[i] = f
        /\ Id(f) = id
        /\ \A j \in 1..(i - 1) : Id(s[j]) # id

read_lang == IF setting = "none" THEN "en" ELSE setting

\* The mirror that scan walks: src/en/ or src/.
InMirror(f) == f.lang = language

Member(k) == IF k = 0 THEN NoStd ELSE StdNames[k]

-----------------------------------------------------------------------------
Init ==
    /\ disk = Present /\ setting \in Languages \cup {"none"} /\ edits = 0
    /\ call = "none" /\ busy = FALSE /\ asked = <<>> /\ language = "en"
    /\ at = 0 /\ std_dirs = {} /\ found = {} /\ checked = NoFile
    /\ stayed = {} /\ kept = {}
    /\ listing = <<>> /\ listedLang = "en" /\ judged = NoFile

(* The learner, at any time.                                               *)

AddFile(f) ==
    /\ f \notin disk /\ edits < MaxEdits
    /\ disk' = disk \cup {f} /\ edits' = edits + 1
    /\ UNCHANGED <<setting, stayed, kept, provider, d2x>>

RemoveFile(f) ==
    /\ f \in disk /\ edits < MaxEdits
    /\ disk' = disk \ {f} /\ edits' = edits + 1
    /\ stayed' = stayed \ {f} /\ kept' = kept \ {f}
    /\ UNCHANGED <<setting, provider, d2x>>

SetLanguage(l) ==
    /\ setting # l /\ edits < MaxEdits
    /\ setting' = l /\ edits' = edits + 1
    /\ UNCHANGED <<disk, stayed, kept, provider, d2x>>

(* A call of the Provider.                                                 *)

\* cmd_exercises and cmd_check begin alike: read_lang, then scan.
Begin(command, id) ==
    /\ ~busy
    /\ call' = command /\ asked' = id /\ busy' = TRUE
    /\ language' = read_lang
    /\ checked' = NoFile
    /\ stayed' = disk
    /\ UNCHANGED <<at, std_dirs, found, disk, setting, edits, kept, d2x>>

\* scan_member meets a file of the directory it walks.
Visit(f) ==
    /\ busy /\ at <= Len(StdNames)
    /\ f \in disk /\ InMirror(f) /\ f.std = Member(at)
    /\ at > 0 => f.std \in std_dirs
    /\ Valid(f)
    /\ f \notin found
    /\ found' = found \cup {f}
    /\ UNCHANGED <<call, busy, asked, language, at, std_dirs, checked>>
    /\ UNCHANGED <<disk, setting, edits, stayed, kept, d2x>>

\* The walk of a directory is over: what was there all the time was met.
\* After intro, scan lists the standards' directories.
Leave ==
    /\ busy /\ at <= Len(StdNames)
    /\ at = 0 \/ Member(at) \in std_dirs =>
        \A f \in stayed :
            InMirror(f) /\ f.std = Member(at) /\ Valid(f) => f \in found
    /\ at' = at + 1
    /\ std_dirs' = IF at = 0
                   THEN {f.std : f \in {g \in disk : InMirror(g)}} \ {NoStd}
                   ELSE std_dirs
    /\ UNCHANGED <<call, busy, asked, language, found, checked>>
    /\ UNCHANGED <<disk, setting, edits, stayed, kept, d2x>>

\* The end of the process: what the scan had found is gone.
Return ==
    /\ busy' = FALSE
    /\ at' = 0 /\ std_dirs' = {} /\ found' = {} /\ stayed' = {}

Scanned == busy /\ at = Len(StdNames) + 1

\* cmd_exercises: the sorted list, or an error when it is empty.
List ==
    /\ Scanned /\ call = "exercises"
    /\ listing' \in Sorts(found)
    /\ listedLang' = language /\ kept' = stayed
    /\ Return
    /\ UNCHANGED <<call, asked, language, checked>>
    /\ UNCHANGED <<disk, setting, edits, judged>>

\* cmd_check: the first with that id is judged, and d2x saves the verdict.
Check ==
    /\ Scanned /\ call = "check"
    /\ \E s \in Sorts(found), f \in found :
        /\ FindsIn(s, asked, f)
        /\ checked' = f
        /\ judged' = f
    /\ Return
    /\ UNCHANGED <<call, asked, language>>
    /\ UNCHANGED <<disk, setting, edits, kept, listing, listedLang>>

\* cmd_check: "unknown exercise".
CheckUnknown ==
    /\ Scanned /\ call = "check"
    /\ \A f \in found : Id(f) # asked
    /\ Return
    /\ UNCHANGED <<call, asked, language, checked>>
    /\ UNCHANGED <<disk, setting, edits, kept, d2x>>

\* d2x ends the process during the scan.
Kill ==
    /\ busy
    /\ Return
    /\ call' = "none"
    /\ UNCHANGED <<asked, language, checked>>
    /\ UNCHANGED <<disk, setting, edits, kept, d2x>>

Next ==
    \/ \E f \in Files : AddFile(f) \/ RemoveFile(f) \/ Visit(f)
    \/ \E l \in Languages \cup {"none"} : SetLanguage(l)
    \/ Begin("exercises", <<>>)
    \/ \E f \in Files : Begin("check", Id(f))
    \/ Leave \/ List \/ Check \/ CheckUnknown \/ Kill

Spec == Init /\ [][Next]_vars

-----------------------------------------------------------------------------
(* Properties.                                                             *)

TypeOK ==
    /\ disk \subseteq Files /\ found \subseteq Files
    /\ stayed \subseteq Files /\ kept \subseteq Files
    /\ judged \in Files \cup {NoFile}
    /\ setting \in Languages \cup {"none"} /\ edits \in 0..MaxEdits
    /\ call \in {"none", "exercises", "check"} /\ busy \in BOOLEAN
    /\ asked \in {Id(f) : f \in Files} \cup {<<>>}
    /\ language \in Languages /\ listedLang \in Languages
    /\ at \in 0..(Len(StdNames) + 1)
    /\ std_dirs \subseteq {f.std : f \in Files} \ {NoStd}
    /\ checked \in Files \cup {NoFile}
    /\ listing \in Seq(Files)

\* The course's convention for a path (docs and the authoring guide): intro
\* holds files without a chapter, a numbered standard holds chapters one
\* directory deep with numbered files, below 1000 chapters of below 100 exercises.
InCourse(f) ==
    IF f.std = NoStd
    THEN f.dirs = <<>> /\ Head(f.stem) \notin Stds
    ELSE /\ std_rank(f.std) # NaN
         /\ Len(f.dirs) = 1 /\ IsChapter(f)
         /\ Leading(Chapter(f)) < 1000
         /\ Len(f.stem) = 1 /\ Leading(f.stem) \in 0..99

\* f comes before g in the course: intro first, then by standard, chapter
\* and number.
Precedes(f, g) ==
    IF f.std = NoStd \/ g.std = NoStd THEN f.std = NoStd /\ g.std # NoStd
    ELSE LET r == std_rank(f.std)        q == std_rank(g.std)
             c == Leading(Chapter(f))     d == Leading(Chapter(g))
         IN  \/ r < q
             \/ r = q /\ c < d
             \/ r = q /\ c = d /\ Index(f) < Index(g)

\* However the directories are walked and whatever is edited meanwhile, the
\* exercises of the course come in the order of the course, also with files
\* among them that do not follow the convention.
ListedInCourseOrder ==
    \A i, j \in DOMAIN listing :
        i < j /\ InCourse(listing[i]) /\ InCourse(listing[j])
            => ~Precedes(listing[j], listing[i])

\* A listing is of one language, although the setting may be switched while
\* the scan is under way.
ListedInOneLanguage == \A i \in DOMAIN listing : listing[i].lang = listedLang

\* An id that d2x took from a listing leads a later check to the very file
\* that was listed, as long as that file stays and the language does: never
\* to another one, and never to "unknown exercise".
CheckFindsListedFile ==
    (call = "check" /\ ~busy /\ language = listedLang) =>
        \A i \in DOMAIN listing :
            listing[i] \in kept /\ Id(listing[i]) = asked => checked = listing[i]

Mirrors(f, g) == f = [g EXCEPT !.lang = f.lang]

\* The verdict saved for an exercise in one language counts for its mirror in
\* the other: the listing has it under the saved id (discovery.cppm:24).
ProgressSurvivesLanguage ==
    \A f \in kept :
        f.lang = listedLang /\ Mirrors(f, judged) =>
            \E i \in DOMAIN listing : Id(listing[i]) = Id(judged)

=============================================================================
