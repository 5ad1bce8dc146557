-------------------------------- MODULE MCWsh --------------------------------
(* WshJobs with three fresh pids, a small set of typed lines, and enough  *)
(* job IDs that every job the three pids can make gets one.               *)
EXTENDS WshJobs

(***************************************************************************)
(* The lines typed: a command and a two-command pipeline, each in the    *)
(* foreground and with "&"; fg and bg with and without a job ID (1, 2, and *)
(* 0, which atoi reads and execBgCommand rejects); jobs with and without *)
(* a word; cd; exit; and two lines the parser mishandles: "|a", which    *)
(* means "a" but leaves no words before the first '|', and "a| ", whose  *)
(* last command has none.                                                 *)
(***************************************************************************)
MCLines ==
    { <<"a">>, <<"a", " ", "&">>,
      <<"a", "|", "a">>, <<"a", " ", "|", "a", " ", "&">>,
      <<"fg">>, <<"fg", " ", "1">>, <<"fg", " ", "2">>, <<"bg", " ", "0">>, <<"bg">>,
      <<"jobs">>, <<"jobs", " ", "a">>, <<"cd", " ", "a">>, <<"exit">>,
      <<"|", "a">>, <<"a", "|", " ">> }
====
