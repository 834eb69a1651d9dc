----------------------------- MODULE MCDiscovery -----------------------------
(* Instance of Discovery: a course in two languages, and files among it    *)
(* that do not follow its convention.                                      *)
EXTENDS Discovery, TLC

MCNumber   == [w \in {"00", "01", "0", "1", "12"} |->
                  CASE w \in {"00", "0"} -> 0 [] w \in {"01", "1"} -> 1
                    [] OTHER -> 12]
              @@ [w \in {"hello", "mcpp", "auto", "lambdas", "extra", "b+d"} |-> NaN]
MCStdNames == <<"cpp11", "cpp14">>
MCVersion  == [s \in {"cpp11", "cpp14"} |-> IF s = "cpp11" THEN 11 ELSE 14]
MCBadWords == {"b+d"}

File(l, s, d, n) == [lang |-> l, std |-> s, dirs |-> d, stem |-> n]

\* Two chapters share the number of their exercise, two standards a chapter;
\* one exercise is in both languages.
Course ==
    {File("zh", "cpp11", <<<<"00", "auto">>>>, <<"12">>),
     File("zh", "cpp11", <<<<"01", "auto">>>>, <<"0">>),
     File("en", "cpp11", <<<<"01", "auto">>>>, <<"0">>),
     File("zh", "cpp14", <<<<"01", "auto">>>>, <<"0">>),
     File("en", "", <<>>, <<"hello", "mcpp">>)}

\* Files off the convention: no chapter, nested chapters, and a name that is
\* refused.
Strays ==
    {File("en", "cpp14", <<>>, <<"extra">>),
     File("zh", "cpp11", <<<<"01", "auto">>, <<"00", "lambdas">>>>, <<"1">>),
     File("zh", "cpp11", <<<<"00", "b+d">>>>, <<"0">>)}

MCFiles == Course \cup Strays
=============================================================================
