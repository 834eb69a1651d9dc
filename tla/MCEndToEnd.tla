----------------------------- MODULE MCEndToEnd -----------------------------
(***************************************************************************)
(* Instances of EndToEnd for TLC.                                          *)
(***************************************************************************)
EXTENDS EndToEnd

CONSTANTS hello, other, stray, zh, en

MCExercises == {hello, other}

\* A good course, and one with each fault that the scripts are there to find, in
\* a course of two languages in the first or in the second of them.
All(set)    == [l \in {zh, en} |-> set]
Good(langs) == [langs |-> langs, easy |-> All({}), answered |-> MCExercises,
                right |-> MCExercises, fit |-> All(MCExercises)]

MCLangs   == {zh, en}
MCModes   == {<< >>, <<zh>>, <<en>>, <<zh, en>>}
MCCourses ==
    LET one == Good({zh})  both == Good(MCLangs)
    IN  {one,
         [one EXCEPT !.answered = {hello}, !.right = {hello}, !.fit = All({hello})],
         [one EXCEPT !.answered = @ \cup {stray}, !.right = @ \cup {stray}],
         [one EXCEPT !.right = {hello}, !.fit = All({hello})],
         [one EXCEPT !.easy[zh] = {other}, !.fit[zh] = {hello}],
         both,
         [both EXCEPT !.fit[zh] = {hello}],
         [both EXCEPT !.easy[en] = {other}]}
=============================================================================
