---------------------------- MODULE SplitStatements ----------------------------
(***************************************************************************)
(* How migrations/runner.go cuts a migration file into the statements it   *)
(* executes one by one, and what SQL means by a statement: a character is  *)
(* one string, and a file is put together of lexemes.                      *)
(***************************************************************************)
EXTENDS Integers, SequencesExt

CONSTANTS MaxLexemes  \* bound on the length of a file

ASSUME SplitAssumption == MaxLexemes \in Nat

Quotes == {"quote", "tick"}
Spaces == {"space", "nl"}
Refused == <<<<"error">>>>

-----------------------------------------------------------------------------
(* splitStatements                                                         *)

\* mode: "text", "line", "block", or the quote it is inside of; the coming character is
\* "new", "escaped", or "taken" with the one before (index++).
NewScanner == [mode |-> "text", coming |-> "new", current |-> <<>>, out |-> <<>>]

TrimSpace(text) ==
  LET solid == {i \in DOMAIN text : text[i] \notin Spaces}
  IN  IF solid = {} THEN <<>> ELSE SubSeq(text, Min(solid), Max(solid))

Keep(s, char) == [s EXCEPT !.current = Append(@, char)]

FlushStatement(s) ==
  [s EXCEPT !.current = <<>>,
            !.out = IF TrimSpace(s.current) = <<>> THEN @ ELSE Append(@, TrimSpace(s.current))]

\* Fault: a quote ends the literal although it is escaped.
InQuoteUnescaped(s, char, next) ==
  LET kept == Keep(s, char)
  IN  CASE char # s.mode -> kept
        [] next = char -> [Keep(kept, next) EXCEPT !.coming = "taken"]
        [] OTHER -> [kept EXCEPT !.mode = "text"]

InQuote(s, char, next) ==
  LET kept == Keep(s, char)
  IN  CASE s.coming = "escaped" -> [kept EXCEPT !.coming = "new"]
        [] s.coming = "new" /\ char = "back" -> [kept EXCEPT !.coming = "escaped"]
        [] s.coming = "new" /\ char \notin {"back", s.mode} -> kept
        [] s.coming = "new" /\ char = s.mode /\ next = char -> [Keep(kept, next) EXCEPT !.coming = "taken"]
        [] OTHER -> [kept EXCEPT !.mode = "text"]

Comment(s, mode) == [Keep(s, "space") EXCEPT !.mode = mode, !.coming = "taken"]

InText(s, char, next) ==
  CASE <<char, next>> = <<"-", "-">> -> Comment(s, "line")
    [] <<char, next>> = <<"/", "*">> -> Comment(s, "block")
    [] char \in Quotes -> [Keep(s, char) EXCEPT !.mode = char]
    [] char = "semi" -> FlushStatement(s)
    [] OTHER -> Keep(s, char)

Scan(s, char, next) ==
  CASE s.coming = "taken" -> [s EXCEPT !.coming = "new"]
    [] s.coming # "taken" /\ s.mode = "line" -> IF char = "nl" THEN [Keep(s, char) EXCEPT !.mode = "text"] ELSE s
    [] s.coming # "taken" /\ s.mode = "block" ->
         IF <<char, next>> = <<"*", "/">> THEN [s EXCEPT !.mode = "text", !.coming = "taken"] ELSE s
    [] s.coming # "taken" /\ s.mode \in Quotes -> InQuote(s, char, next)
    [] OTHER -> InText(s, char, next)

Following(input, i) == IF i < Len(input) THEN input[i + 1] ELSE "eof"

\* The scanner after each character of its input, and before the first.
Scanned(input) ==
  LET after[i \in 0..Len(input)] ==
        IF i = 0 THEN NewScanner ELSE Scan(after[i - 1], input[i], Following(input, i))
  IN  after

Split(input) ==
  LET last == Scanned(input)[Len(input)]
  IN  IF last.mode \in Quotes \cup {"block"} THEN Refused ELSE FlushStatement(last).out

-----------------------------------------------------------------------------
(* SQL                                                                     *)

Semicolon == <<"semi">>
LineComment == <<"-", "-", "semi", "quote", "nl">>
BlockComments == {<<"/", "*", "/", "semi", "quote", "*", "/">>, <<"/", "*", "*", "/">>}
Literals ==
  {<<"quote", "semi", "tick", "quote">>, <<"quote", "back", "quote", "semi", "quote">>,
   <<"tick", "-", "-", "tick">>, <<"quote", "quote">>}
Lexemes == Literals \cup BlockComments \cup {Semicolon, LineComment, <<"x">>, <<"nl">>, <<"-", "x">>}

\* What is left of a lexeme in a statement.
Meaning(lexeme) ==
  CASE lexeme = LineComment -> <<"space", "nl">>
    [] lexeme \in BlockComments -> <<"space">>
    [] OTHER -> lexeme

\* The statements that have ended, and the text of the one that has not.
Close(r) ==
  [text |-> <<>>,
   ended |-> IF TrimSpace(r.text) = <<>> THEN r.ended ELSE Append(r.ended, TrimSpace(r.text))]

NothingRead == [text |-> <<>>, ended |-> <<>>]

Read(r, lexeme) ==
  IF lexeme = Semicolon THEN Close(r) ELSE [r EXCEPT !.text = @ \o Meaning(lexeme)]

\* A file as SQL reads it, lexeme by lexeme.
Reading(file) ==
  LET after[n \in 0..Len(file)] == IF n = 0 THEN NothingRead ELSE Read(after[n - 1], file[n])
  IN  after

StatementsOf(file) == Close(Reading(file)[Len(file)]).ended

\* The runner executes the statements SQL sees in a file, whatever stands in literals
\* and comments, and no part of a file that ends inside one (runner.go:125-204).
SplitsAtStatements ==
  \A file \in BoundedSeq(Lexemes, MaxLexemes) :
    LET text == FlattenSeq(file)
    IN  /\ Split(text) = StatementsOf(file)
        /\ \A open \in {<<"quote">>, <<"tick", "back", "tick">>, <<"/", "*", "/">>} :
             Split(text \o open) = Refused
=============================================================================
