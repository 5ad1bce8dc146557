------------------------------ MODULE WshParse ------------------------------
(***************************************************************************)
(* What the shell p3-custom-shell/wsh.c makes of a line it reads:        *)
(* parseLine splits it at '|', parseCommand splits a command at ' ', and *)
(* the interactive loop and the exec functions look at the words.        *)
(*                                                                         *)
(* A line is a sequence of symbols: " ", "|", or a piece of a word.  The *)
(* names the shell compares words with ("exit", "cd", "jobs", "fg",     *)
(* "bg", "&") and digits are single symbols, so a word equals one of    *)
(* those names exactly when it is that one symbol.                        *)
(***************************************************************************)
EXTENDS Integers, Sequences, SequencesExt

(* The pieces of s between the occurrences of sep, empty ones included:  *)
(* what successive strsep(&s, sep) calls return.                          *)
RECURSIVE Split(_, _)
Split(s, sep) ==
    IF ~Contains(s, sep) THEN <<s>>
    ELSE LET i == SelectInSeq(s, LAMBDA x : x = sep)
         IN  <<SubSeq(s, 1, i - 1)>> \o Split(SubSeq(s, i + 1, Len(s)), sep)

(* The strsep loop of parseLine and parseCommand: tokens of length 0 are *)
(* dropped.                                                               *)
Tokens(s, sep) == SelectSeq(Split(s, sep), LAMBDA t : t # <<>>)

ParseLine(l) == Tokens(l, "|")
ParseCommand(c) == Tokens(c, " ")

(***************************************************************************)
(* With at most one command, runInteractiveMode parses inputLine itself, *)
(* which parseLine's strsep has cut at its first '|' (written over with  *)
(* a NUL): the words of the line up to its first '|'.                    *)
(***************************************************************************)
Argv(l) == ParseCommand(Head(Split(l, "|")))
IsPipeline(l) == Len(ParseLine(l)) > 1

(* execExternalJob: the words of the last command. *)
FinalArgs(l) == ParseCommand(Last(ParseLine(l)))

Amp == <<"&">>
Builtins == {<<"exit">>, <<"cd">>, <<"jobs">>, <<"fg">>, <<"bg">>}

(* atoi on a word: an optional '-', then the leading digits. *)
Digits == <<"0", "1", "2", "3", "4", "5", "6", "7", "8", "9">>
IsDigit(x) == Contains(Digits, x)
DigitVal(x) == CHOOSE v \in 0..9 : Digits[v + 1] = x

RECURSIVE AtoiFrom(_, _)
AtoiFrom(w, acc) ==
    IF w # <<>> /\ IsDigit(Head(w)) THEN AtoiFrom(Tail(w), 10 * acc + DigitVal(Head(w)))
    ELSE acc

Atoi(w) == IF w # <<>> /\ Head(w) = "-" THEN -AtoiFrom(Tail(w), 0) ELSE AtoiFrom(w, 0)
=============================================================================
