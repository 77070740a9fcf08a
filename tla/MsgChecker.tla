----------------------------- MODULE MsgChecker -----------------------------
(***************************************************************************)
(* How words are read (utility/msg_checker.h, utility/extend_option.h).  A   *)
(* message is the sequence of its words; a reader is the message and the     *)
(* place of its next word, which every checker moves on, whether it accepts  *)
(* what it finds there or not.  A checker is a record with its kind; what it *)
(* reads is a sequence, of one value if it is a checker of one word.         *)
(***************************************************************************)
EXTENDS Integers, Sequences, SequencesExt, TLC

\* What from_chars makes of a whole word.
Numbers == ("-999" :> -999) @@ ("-1" :> -1) @@ ("0" :> 0) @@ ("1" :> 1) @@ ("3" :> 3)
           @@ ("6" :> 6) @@ ("33" :> 33)

\* example: the words that ExampleInfo shows.
AnyArg(example) == [kind |-> "any", example |-> example]
VoidChecker(word) == [kind |-> "void", word |-> word]
ArithChecker(min, max) == [kind |-> "arith", min |-> min, max |-> max]
\* A table from words to values: AlterChecker, EnumChecker.
AlterChecker(table, example) == [kind |-> "alter", table |-> table, example |-> <<example>>]
BoolChecker(yes, no) == AlterChecker((yes :> TRUE) @@ (no :> FALSE), yes)
\* operator>> of the type; what it leaves of the word is not looked at.
BasicChecker(reads, example) == AlterChecker(reads, example)
RepeatableChecker(of) == [kind |-> "repeat", of |-> of]
FixedSizeRepeatableChecker(size, of) == [kind |-> "fixed", of |-> of, size |-> size]
\* OptionalChecker and OptionalDefaultChecker: default is <<>> or <<value>>.
OptionalChecker(default, of) == [kind |-> "optional", of |-> of, default |-> default]
BatchChecker(all) == [kind |-> "batch", all |-> all]
FlagsChecker(members) == [kind |-> "flags", members |-> members]

-----------------------------------------------------------------------------

\* Checkers of one word: which they accept, and what it means to them.
Accepts(c, word) ==
    CASE c.kind = "any" -> TRUE
      [] c.kind = "void" -> word = c.word
      [] c.kind = "alter" -> word \in DOMAIN c.table
      [] c.kind = "arith" -> word \in DOMAIN Numbers /\ Numbers[word] \in c.min .. c.max

Meaning(c, word) ==
    CASE c.kind = "any" -> <<word>>
      [] c.kind = "void" -> <<>>
      [] c.kind = "alter" -> <<c.table[word]>>
      [] c.kind = "arith" -> <<Numbers[word]>>

\* MsgReader::HasNext
HasNext(words, next) == next <= Len(words)

Nothing(next) == [ok |-> FALSE, value |-> <<>>, next |-> next, count |-> 0]
Something(value, next, count) == [ok |-> TRUE, value |-> value, next |-> next, count |-> count]

CheckWord(c, words, next) ==
    IF ~HasNext(words, next) THEN Nothing(next)
    ELSE IF Accepts(c, words[next]) THEN Something(Meaning(c, words[next]), next + 1, 1)
    ELSE Nothing(next + 1)

\* All the words that are left are members, or there are no flags; the value has a
\* member once, whatever the number and the order of the words.
CheckFlags(c, words, next) ==
    LET rest == SubSeq(words, next, Len(words))
        given == {rest[i] : i \in DOMAIN rest}
    IN  IF \A i \in DOMAIN rest : rest[i] \in Range(c.members)
          THEN Something(<<given>>, Len(words) + 1, 1)
          ELSE Nothing(next)

RECURSIVE Check(_, _, _), CheckRepeat(_, _, _), CheckBatch(_, _, _)

Check(c, words, next) ==
    CASE c.kind = "repeat" -> CheckRepeat(c.of, words, Something(<<>>, next, 0))
      [] c.kind = "fixed" ->
            LET r == CheckRepeat(c.of, words, Something(<<>>, next, 0))
            IN  IF r.count = c.size THEN r ELSE Nothing(r.next)
      [] c.kind = "optional" ->
            IF HasNext(words, next) THEN Check(c.of, words, next)
            ELSE Something(c.default, next, 1)
      [] c.kind = "batch" -> CheckBatch(c.all, words, Something(<<>>, next, 0))
      [] c.kind = "flags" -> CheckFlags(c, words, next)
      [] OTHER -> CheckWord(c, words, next)

\* As often as the checker accepts what comes; the reader goes back to where the first
\* refusal began.
CheckRepeat(c, words, read) ==
    LET r == Check(c, words, read.next)
    IN  IF HasNext(words, read.next) /\ r.ok
          THEN CheckRepeat(c, words,
                           Something(read.value \o r.value, r.next, read.count + 1))
          ELSE read

\* BatchChecker::Check_ and Impl_::CallIfValidParseArgs: one checker after the other.
CheckBatch(all, words, read) ==
    IF all = <<>> THEN [read EXCEPT !.count = 1]
    ELSE LET r == Check(Head(all), words, read.next)
         IN  IF r.ok THEN CheckBatch(Tail(all), words,
                                     Something(read.value \o r.value, r.next, 0))
             ELSE Nothing(r.next)

\* Slip: the words that are left are not looked at.
CallIfValidLoose(checkers, words) == CheckBatch(checkers, words, Something(<<>>, 1, 0))
\* Impl_::CallIfValid: from the first word, and no word may be left.
CallIfValid(checkers, words) ==
    LET r == CheckBatch(checkers, words, Something(<<>>, 1, 0))
    IN  IF r.ok /\ HasNext(words, r.next) THEN Nothing(r.next) ELSE r

\* SetOption: the first word is the name, the option's checker reads all that follows.
SetOption(checkers, words) ==
    IF words[1] \in DOMAIN checkers
      THEN LET r == Check(checkers[words[1]], words, 2)
           IN  IF r.ok /\ HasNext(words, r.next) THEN Nothing(r.next) ELSE r
      ELSE Nothing(2)

\* ExampleInfo, word by word.
RECURSIVE Example(_)
Example(c) ==
    CASE c.kind \in {"any", "alter"} -> c.example
      [] c.kind = "void" -> <<c.word>>
      [] c.kind = "arith" ->
            LET n == IF c.min = c.max THEN c.min ELSE c.min + 1
            IN  <<CHOOSE w \in DOMAIN Numbers : Numbers[w] = n>>
      [] c.kind \in {"repeat", "optional"} -> Example(c.of)
      [] c.kind = "fixed" -> FlattenSeq([i \in 1 .. c.size |-> Example(c.of)])
      [] c.kind = "batch" -> FlattenSeq([i \in DOMAIN c.all |-> Example(c.all[i])])
      [] c.kind = "flags" -> SubSeq(c.members, 1, 2)

-----------------------------------------------------------------------------
(* What the formats say, without a reader: a message is cut into pieces, one *)
(* for each checker, and every piece is what its checker stands for.         *)

\* The number of words of a piece, for checkers that stand for the same number always.
RECURSIVE Width(_)
Width(c) ==
    CASE c.kind = "batch" ->
            LET RECURSIVE Sum(_)
                Sum(i) == IF i = 0 THEN 0 ELSE Width(c.all[i]) + Sum(i - 1)
            IN  Sum(Len(c.all))
      [] OTHER -> 1

Slice(piece, width, i) == SubSeq(piece, (i - 1) * width + 1, i * width)

RECURSIVE StandsFor(_, _)
StandsFor(c, piece) ==
    CASE c.kind \in {"repeat", "fixed"} ->
            /\ Len(piece) % Width(c.of) = 0
            /\ \A i \in 1 .. Len(piece) \div Width(c.of) :
                  StandsFor(c.of, Slice(piece, Width(c.of), i))
            /\ c.kind = "fixed" => Len(piece) = c.size * Width(c.of)
      [] c.kind = "optional" -> piece = <<>> \/ StandsFor(c.of, piece)
      [] c.kind = "batch" ->
            /\ Len(piece) = Width(c)
            /\ \A i \in DOMAIN c.all : StandsFor(c.all[i], <<piece[i]>>)
      [] c.kind = "flags" -> \A i \in DOMAIN piece : piece[i] \in Range(c.members)
      [] OTHER -> Len(piece) = 1 /\ Accepts(c, piece[1])

\* What a piece means to its checker.
RECURSIVE Denotes(_, _)
Denotes(c, piece) ==
    CASE c.kind \in {"repeat", "fixed"} ->
            FlattenSeq([i \in 1 .. Len(piece) \div Width(c.of) |->
                           Denotes(c.of, Slice(piece, Width(c.of), i))])
      [] c.kind = "optional" -> IF piece = <<>> THEN c.default ELSE Denotes(c.of, piece)
      [] c.kind = "batch" ->
            FlattenSeq([i \in DOMAIN c.all |-> Denotes(c.all[i], <<piece[i]>>)])
      [] c.kind = "flags" -> <<Range(piece)>>
      [] OTHER -> Meaning(c, piece[1])

Piece(words, cut, i) == SubSeq(words, cut[i] + 1, cut[i + 1])

\* The ways to cut a message for the checkers: what is optional is left out only where
\* nothing follows.
Cuts(checkers, words) ==
    {cut \in {<<0>> \o inner \o <<Len(words)>> :
                  inner \in [1 .. Len(checkers) - 1 -> 0 .. Len(words)]} :
        \A i \in DOMAIN checkers :
            /\ cut[i] <= cut[i + 1]
            /\ StandsFor(checkers[i], Piece(words, cut, i))
            /\ checkers[i].kind = "optional" /\ cut[i] = cut[i + 1]
                  => cut[i] = Len(words)}

\* What the message says under one of them.
Says(checkers, words, cut) ==
    FlattenSeq([i \in DOMAIN checkers |-> Denotes(checkers[i], Piece(words, cut, i))])

=============================================================================
