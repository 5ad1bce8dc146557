------------------------------ MODULE ManPages ------------------------------
(***************************************************************************)
(* The manual-page utilities of p1-unix-utilities: wgroff turns a source  *)
(* page into a formatted page, the user installs it as                    *)
(* man_pages/man<section>/<command>.<section>, and wapropos and wman read *)
(* the installed pages.  The tree of installed pages is the state; each  *)
(* run of a program is one step, its loops over lines, files and          *)
(* directories are operators.                                             *)
(*                                                                         *)
(* A line is a sequence of tokens: one character of text each, "SP7" for *)
(* a run of seven or more spaces (what strstr(line, "       ") looks for) *)
(* and the escape codes wgroff writes.  Keywords are texts without        *)
(* spaces.  A section title's case is a flag, as toupper removes it.      *)
(***************************************************************************)
EXTENDS Integers, Sequences, SequencesExt, FiniteSets

CONSTANTS
    Cmds,       \* command names of .TH headers
    NSec,       \* sections 1..NSec (1..9 in the code)
    Dirs,       \* the directories man_pages/manN that exist
    Words,      \* section titles of .SH lines, upper-cased
    Texts,      \* text lines of source pages
    Keywords,   \* arguments of wapropos
    SecArgs,    \* section arguments of wman: [n: atoi, dot: has '.', len: strlen]
    MaxLines    \* lines of a source page after its .TH line

Sections == 1..NSec
SP7 == "SP7"
Date == <<"2", "-", "1">>       \* YYYY-MM-DD of the .TH line

VARIABLES
    man,        \* man[s][c]: the page man<s>/<c>.<s>, or None
    out         \* what the last program run printed and returned

vars == <<man, out>>

None == [src |-> "none"]

(***************************************************************************)
(* wgroff's input.  The first line is a .TH header matching the regular *)
(* expression of convertFile, or not (Bad).  Then, per line: "#word"    *)
(* (sscanf "#%s" succeeds), ".SH title", ".SH" alone, or text.           *)
(***************************************************************************)
Bad == [cmd |-> "bad"]
Headers == [cmd : Cmds, sec : Sections] \cup {Bad}
BodyLines ==
    {[k |-> "comment"], [k |-> "shnl"]}
    \cup [k : {"sh"}, w : Words, lower : BOOLEAN]
    \cup [k : {"text"}, s : Texts]
Sources == [hd : Headers, body : BoundedSeq(BodyLines, MaxLines)]

(***************************************************************************)
(* convertFormattingMarks: five passes over the line, in this order, each *)
(* copying it left to right and replacing every occurrence of find[i] by *)
(* replace[i] (strncmp at each index, then a jump past the match).       *)
(***************************************************************************)
Marks == << << <<"/", "f", "B">>, <<"ESC[1m">> >>,
            << <<"/", "f", "I">>, <<"ESC[3m">> >>,
            << <<"/", "f", "U">>, <<"ESC[4m">> >>,
            << <<"/", "f", "P">>, <<"ESC[0m">> >>,
            << <<"/", "/">>,      <<"/">> >> >>

RECURSIVE Pass(_, _, _)
Pass(s, find, repl) ==
    IF s = <<>> THEN <<>>
    ELSE IF Len(s) >= Len(find) /\ SubSeq(s, 1, Len(find)) = find
         THEN repl \o Pass(SubSeq(s, Len(find) + 1, Len(s)), find, repl)
         ELSE <<Head(s)>> \o Pass(Tail(s), find, repl)

ConvertFormattingMarks(s) ==
    FoldLeft(LAMBDA line, m : Pass(line, m[1], m[2]), s, Marks)

(* "\033[1m<TITLE>\033[0m\n", with the title upper-cased. *)
HeaderLine(w) == <<"ESC[1m", w, "ESC[0m">>

(***************************************************************************)
(* convertFile after a matching header: the "cmd(sec) ... cmd(sec)" line, *)
(* then per line: skip a comment; a blank line and the bold upper-cased  *)
(* title for .SH; seven spaces and the converted text for text.  ".SH"   *)
(* alone prints "Improper formatting" and returns at once: no last line, *)
(* and the file, never closed, keeps what was written (exit flushes it). *)
(* Otherwise the last line is 35 spaces, the date, 35 spaces.            *)
(***************************************************************************)
WriteLine(acc, l) ==
    IF acc.stop THEN acc
    ELSE CASE l.k = "comment" -> acc
           [] l.k = "sh"      -> [acc EXCEPT !.lines = @ \o << <<>>, HeaderLine(l.w) >>]
           [] l.k = "shnl"    -> [acc EXCEPT !.stop = TRUE]
           [] l.k = "text"    -> [acc EXCEPT !.lines = Append(@, <<SP7>> \o ConvertFormattingMarks(l.s))]

ConvertFile(src) ==
    LET r == FoldLeft(WriteLine, [lines |-> << <<"c", SP7, "c">> >>, stop |-> FALSE], src.body)
    IN  IF r.stop THEN r.lines ELSE Append(r.lines, <<SP7>> \o Date \o <<SP7>>)

(***************************************************************************)
(* wgroff, then the user moves <cmd>.<sec> into man_pages/man<sec>.  A    *)
(* header that does not match writes no file.                             *)
(***************************************************************************)
Wgroff(src) ==
    IF src.hd = Bad
    THEN /\ out' = [prog |-> "wgroff", status |-> "format"]
         /\ UNCHANGED man
    ELSE /\ man' = [man EXCEPT ![src.hd.sec][src.hd.cmd] =
                      [src |-> src, lines |-> ConvertFile(src)]]
         /\ out' = [prog |-> "wgroff", status |-> "ok"]

(***************************************************************************)
(* fileSearch: one pass of its while loop over a line.  A NAME header     *)
(* opens the NAME section and marks the next line as the name line; on   *)
(* it strcpy(name, strstr(line, "-") + 1) dereferences NULL + 1 when the *)
(* line has no '-' (crash).  A DESCRIPTION header opens that section; in *)
(* either section a line without seven spaces closes it.  Then a line of *)
(* an open section containing the keyword ends the loop (found).          *)
(***************************************************************************)
Search(l, kw, st) ==
    IF (st.nameSec \/ st.descSec) /\ kw \in SubSeqs(l) THEN [st EXCEPT !.found = TRUE]
    ELSE st

ReadLine(st, l, kw) ==
    CASE st.found \/ st.crash -> st
      [] l = HeaderLine("NAME") ->
            [st EXCEPT !.nameSec = TRUE, !.nameLine = TRUE, !.descSec = FALSE]
      [] st.nameLine /\ ~Contains(l, "-") -> [st EXCEPT !.crash = TRUE]
      [] st.nameLine -> Search(l, kw, [st EXCEPT !.nameLine = FALSE])
      [] l = HeaderLine("DESCRIPTION") -> [st EXCEPT !.nameSec = FALSE, !.descSec = TRUE]
      [] (st.descSec \/ st.nameSec) /\ ~Contains(l, SP7) ->
            [st EXCEPT !.nameSec = FALSE, !.descSec = FALSE]
      [] OTHER -> Search(l, kw, st)

FileSearch(lines, kw) ==
    FoldLeft(LAMBDA st, l : ReadLine(st, l, kw),
             [nameSec |-> FALSE, descSec |-> FALSE, nameLine |-> FALSE,
              found |-> FALSE, crash |-> FALSE], lines)

(***************************************************************************)
(* sectionSearch and globalSearch: directories man1, man2, ... in order; *)
(* a missing one prints "cannot open directory" and exits(1); each file  *)
(* is searched, a match prints "<name> (<section>) -<one-liner>".  A     *)
(* crash ends the process.  The order readdir gives is immaterial here.  *)
(***************************************************************************)
SectionSearch(acc, s, kw) ==
    LET pages == {c \in Cmds : man[s][c] # None}
        res   == [c \in pages |-> FileSearch(man[s][c].lines, kw)]
    IN  CASE acc.status # "ok" -> acc
          [] s \notin Dirs -> [acc EXCEPT !.status = "nodir"]
          [] \E c \in pages : res[c].crash -> [acc EXCEPT !.status = "crash"]
          [] OTHER -> [acc EXCEPT !.listed = @ \cup {<<c, s>> : c \in {d \in pages : res[d].found}}]

Wapropos(kw) ==
    LET r == FoldLeft(LAMBDA acc, s : SectionSearch(acc, s, kw),
                      [status |-> "ok", listed |-> {}], [i \in Sections |-> i])
    IN  /\ out' = [prog |-> "wapropos", kw |-> kw, status |-> r.status, listed |-> r.listed]
        /\ UNCHANGED man

(***************************************************************************)
(* wman: with a section argument, sectionSearch rejects anything but one *)
(* digit 1-9 without '.', then shows man<n>/<cmd>.<n> or reports none;   *)
(* without, globalSearch shows the page of the first section holding it. *)
(***************************************************************************)
ValidSection(a) == a.n \in 1..9 /\ ~a.dot /\ a.len = 1

WmanSection(a, c) ==
    /\ out' = [prog |-> "wman", shown |->
                 IF ~ValidSection(a) THEN "invalid"
                 ELSE IF a.n \in Sections /\ man[a.n][c] # None THEN <<c, a.n>>
                 ELSE "none"]
    /\ UNCHANGED man

WmanGlobal(c) ==
    LET S == {s \in Sections : man[s][c] # None}
    IN  /\ out' = [prog |-> "wman", shown |->
                     IF S = {} THEN "none" ELSE <<c, Min(S)>>]
        /\ UNCHANGED man

Init ==
    /\ man = [s \in Sections |-> [c \in Cmds |-> None]]
    /\ out = [prog |-> "none"]

Next ==
    \/ \E src \in Sources : Wgroff(src)
    \/ \E kw \in Keywords : Wapropos(kw)
    \/ \E a \in SecArgs, c \in Cmds : WmanSection(a, c)
    \/ \E c \in Cmds : WmanGlobal(c)

Spec == Init /\ [][Next]_vars

-----------------------------------------------------------------------------
(***************************************************************************)
(* What a page says about itself: the converted text of its lines under  *)
(* a .SH NAME or .SH DESCRIPTION header (any case), before any ".SH"     *)
(* alone.                                                                 *)
(***************************************************************************)
SectionOf(b, i) ==
    LET H == {j \in 1..(i - 1) : b[j].k = "sh"} IN
    IF H = {} THEN "none" ELSE b[Max(H)].w

Describes(src, kw) ==
    \E i \in DOMAIN src.body :
        /\ src.body[i].k = "text"
        /\ SectionOf(src.body, i) \in {"NAME", "DESCRIPTION"}
        /\ \A j \in 1..(i - 1) : src.body[j].k # "shnl"
        /\ kw \in SubSeqs(ConvertFormattingMarks(src.body[i].s))

(***************************************************************************)
(* AproposListsDescribedPages: wapropos (its comment: "search for keyword *)
(* in name and description section") finishes and lists exactly the      *)
(* installed pages whose NAME or DESCRIPTION text contains the keyword.  *)
(* The loop in fileSearch ends a section at "a section other than name  *)
(* or description or the end of file" (wapropos.c:43).                    *)
(***************************************************************************)
AproposListsDescribedPages ==
    out.prog = "wapropos" =>
        /\ out.status = "ok"
        /\ out.listed = {<<c, s>> \in Cmds \X Sections :
                            man[s][c] # None /\ Describes(man[s][c].src, out.kw)}
=============================================================================
