-------------------------------- MODULE Judge --------------------------------
(***************************************************************************)
(* How the Provider merges its two sources into an outcome: the exit code  *)
(* in mcpp's record and the lines of the side channel (judge_run in        *)
(* d2x/buildtools/src/runner.cppm).  A file is [exists, fails, waits]: the *)
(* judge tells its lines apart no further, passed checks count for nothing,*)
(* and one that it cannot open is to it one that does not exist.           *)
(***************************************************************************)
EXTENDS Integers

Outcomes == {"pass", "fail", "blocked"}

\* By the file alone.
judge_run_FileOnly(code, file) ==
    [outcome |-> IF file.fails > 0 THEN "fail"
                 ELSE IF file.waits > 0 THEN "blocked" ELSE "pass",
     failures |-> file.fails]

\* The exit code before the wait: the order the comment warns of.
judge_run_ExitBeforeWait(code, file) ==
    [outcome |-> IF file.fails > 0 \/ code # 0 THEN "fail"
                 ELSE IF file.waits > 0 THEN "blocked" ELSE "pass",
     failures |-> file.fails]

\* One diagnostic for each failed check; the order of the tests matters.
judge_run(code, file) ==
    LET ByCode == IF code = 0 THEN "pass" ELSE "fail"
    IN  [outcome  |-> IF ~file.exists          THEN ByCode
                      ELSE IF file.fails > 0   THEN "fail"
                      ELSE IF file.waits > 0   THEN "blocked"
                      ELSE ByCode,
         failures |-> IF file.exists THEN file.fails ELSE 0]
=============================================================================
