------------------------------- MODULE Codec -------------------------------
(***************************************************************************)
(* How a text travels in a line of JSON: escape of d2x/src/d2x.cppm into   *)
(* the side channel and field of runner.cppm out of it; escape of          *)
(* emit.cppm into an event and d2x's JSON parser (external) out of it.     *)
(*                                                                         *)
(* A text is any sequence over Alphabet, typed one character at a time.    *)
(* "BS" and "ESC" are the control characters 0x08 and 0x1b, "hi" a byte    *)
(* above 0x7f, "w" and "m" the keys of the line.                           *)
(***************************************************************************)
EXTENDS Naturals, Sequences, SequencesExt

\* The characters that a line of JSON is laid out with.
Quote      == "\""
Comma      == ","
LeftBrace  == "{"
RightBrace == "}"

CONSTANTS
    Alphabet,            \* the characters that texts are made of
    MaxFirst, MaxSecond  \* bounds: lengths of the two texts

ASSUME CodecAssumption ==
    /\ Alphabet \subseteq {Quote, "\\", "\n", "\r", "\t", "BS", "ESC", "hi",
                           ":", "w", "m", "u", "b", "n"}
    /\ MaxFirst \in Nat /\ MaxSecond \in Nat

VARIABLES what, file    \* two texts of one line

texts == <<what, file>>

NoText == what = << >> /\ file = << >>

TypeWhat(c) == Len(what) < MaxFirst /\ what' = Append(what, c) /\ UNCHANGED file
TypeFile(c) == Len(file) < MaxSecond /\ file' = Append(file, c) /\ UNCHANGED what

TypeText == \E c \in Alphabet : TypeWhat(c) \/ TypeFile(c)
Texts    == NoText /\ [][TypeText]_texts

-----------------------------------------------------------------------------
(* Writing.                                                                *)

Controls == {"\n", "\r", "\t", "BS", "ESC"}

\* {:04x} of a control character.
Hex(c) == CASE c = "BS"  -> <<"0", "0", "0", "8">>
            [] c = "ESC" -> <<"0", "0", "1", "b">>
            [] c = "\t"  -> <<"0", "0", "0", "9">>
            [] c = "\n"  -> <<"0", "0", "0", "a">>
            [] c = "\r"  -> <<"0", "0", "0", "d">>

\* Mutated forms of the next: a backslash is left alone; control characters are.
Escaped_NoBackslash(c) ==
    IF c = Quote THEN <<"\\", c>> ELSE IF c = "\n" THEN <<"\\", "n">> ELSE <<c>>
Escaped_NoControls(c) == IF c \in {Quote, "\\"} THEN <<"\\", c>> ELSE <<c>>

\* The library's switch, character by character.
Escaped(c) ==
    CASE c \in {Quote, "\\"} -> <<"\\", c>>
      [] c = "\n" -> <<"\\", "n">>
      [] c = "\r" -> <<"\\", "r">>
      [] c = "\t" -> <<"\\", "t">>
      [] c \in Controls \ {"\n", "\r", "\t"} -> <<"\\", "u">> \o Hex(c)
      [] OTHER -> <<c>>

escape(s) == FlattenSeq([i \in 1..Len(s) |-> Escaped(s[i])])

\* Mutated form of the next: {:x} for {:04x}.
EscapedEvent_Unpadded(c) ==
    IF c = "ESC" THEN <<"\\", "u", "1", "b">> ELSE Escaped(c)

\* The Provider's escape has two cases more.
EscapedEvent(c) == IF c = "BS" THEN <<"\\", "b">> ELSE Escaped(c)
escape_event(s) == FlattenSeq([i \in 1..Len(s) |-> EscapedEvent(s[i])])

Quoted(s)     == <<Quote>> \o s \o <<Quote>>
Member(k, v)  == Quoted(<<k>>) \o <<":">> \o v

\* A line of the side channel: two texts, and a bare number at the end.
report_assert ==
    <<LeftBrace>> \o Member("w", Quoted(escape(what))) \o <<Comma>>
            \o Member("m", Quoted(escape(file))) \o <<Comma>>
            \o Member("n", <<"7">>) \o <<RightBrace>>

\* An event with one text.
event == <<LeftBrace>> \o Member("w", Quoted(escape_event(what))) \o <<RightBrace>>

-----------------------------------------------------------------------------
(* Reading.                                                                *)

\* The control character of four hexadecimal digits.
FromHex(digits) ==
    IF \E c \in Controls : Hex(c) = digits
    THEN CHOOSE c \in Controls : Hex(c) = digits ELSE "other"

\* One turn of the loop: the text so far, and where in an escape the reader is.
Step(s, c) ==
    CASE s.mode = "end"  -> s
      [] s.mode = "text" ->
           IF c = Quote THEN [s EXCEPT !.mode = "end"]
           ELSE IF c = "\\" THEN [s EXCEPT !.mode = "escape"]
           ELSE [s EXCEPT !.out = Append(@, c)]
      [] s.mode = "escape" /\ c = "u" -> [s EXCEPT !.mode = "hex", !.digits = << >>]
      [] s.mode = "escape" /\ c # "u" ->
           [s EXCEPT !.mode = "text",
                     !.out = Append(@, CASE c = "n" -> "\n" [] c = "t" -> "\t"
                                         [] c = "r" -> "\r" [] OTHER -> c)]
      [] s.mode = "hex" ->
           IF Len(s.digits) < 3 THEN [s EXCEPT !.digits = Append(@, c)]
           ELSE [s EXCEPT !.mode = "text",
                          !.out = Append(@, FromHex(Append(s.digits, c)))]

\* d2x reads JSON whole: the two short escapes too.
JsonStep(s, c) ==
    IF s.mode = "escape" /\ c = "b"
    THEN [s EXCEPT !.mode = "text", !.out = Append(@, "BS")]
    ELSE Step(s, c)

Blank == [mode |-> "text", out |-> << >>, digits |-> << >>]

\* The places right after the key and its colon.
Found(line, key) ==
    {i \in 5..(Len(line) + 1) : SubSeq(line, i - 4, i - 1) = Quoted(<<key>>) \o <<":">>}

From(line, i) == SubSeq(line, i, Len(line))

\* The value of the first place: a string, or what comes before a comma or the
\* end of the object.
field(line, key) ==
    LET i == CHOOSE j \in Found(line, key) : \A k \in Found(line, key) : j <= k
        bare == CHOOSE j \in i..Len(line) :
                    /\ line[j] \in {Comma, RightBrace}
                    /\ \A k \in i..(j - 1) : line[k] \notin {Comma, RightBrace}
    IN  IF Found(line, key) = {} THEN << >>
        ELSE IF line[i] = Quote THEN FoldLeft(Step, Blank, From(line, i + 1)).out
        ELSE SubSeq(line, i, bare - 1)

\* d2x's parser, on the one text of an event.
Parsed(line) == FoldLeft(JsonStep, Blank, From(line, 7)).out

-----------------------------------------------------------------------------
(* Properties.                                                             *)

\* What an exercise reports is what the judge reads, whatever the text holds:
\* quotes, escapes typed by hand, keys, control characters (d2x.cppm:56-72
\* against runner.cppm:127-165).
RoundTrip ==
    /\ field(report_assert, "w") = what
    /\ field(report_assert, "m") = file
    /\ field(report_assert, "n") = <<"7">>

\* The one hard demand in the header of emit.cppm (lines 5-6), and what getline
\* in the judge rests on: no line is broken by the text in it.
OneLine == "\n" \notin Range(report_assert) \cup Range(event)

\* d2x shows the text that the Provider was given.
EventRoundTrip == Parsed(event) = what
=============================================================================
