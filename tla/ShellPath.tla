----------------------------- MODULE ShellPath -----------------------------
(***************************************************************************)
(* How a launch learns the PATH of the user's login shell (shell_env.rs):  *)
(* it runs the shell, reads what that prints on a thread of its own, and   *)
(* merges the answer into its own PATH, if there is one before the         *)
(* deadline.  What the shell's rc files start may hold the pipe for as     *)
(* long as it likes.                                                       *)
(*                                                                         *)
(* A PATH is the sequence of what stands between its separators: names of  *)
(* directories, or "".  <<>> is the empty PATH, and no PATH at all.        *)
(***************************************************************************)
EXTENDS Naturals, Sequences, SequencesExt

CONSTANTS Launches,
          InheritedPaths,  \* what the environment of a launch may say
          LoginPaths,      \* what a login shell may answer
          Garbled,         \* an inherited PATH that is not UTF-8
          Mangled          \* what from_utf8_lossy makes of a name that is not UTF-8

ASSUME ShellPathAssumption ==
  /\ InheritedPaths \subseteq {Garbled} \cup Seq(STRING \ DOMAIN Mangled)
  /\ LoginPaths \subseteq Seq(STRING)
  /\ <<"">> \notin InheritedPaths \cup LoginPaths
  /\ "" \notin DOMAIN Mangled
  /\ \A d \in DOMAIN Mangled : Mangled[d] \in STRING \ {""}

VARIABLES query,  \* what each launch has of its login shell
          path    \* its own PATH

shvars == <<query, path>>

Unasked == [at |-> "unasked", child |-> "none", text |-> "nothing",
            login |-> <<>>, held |-> FALSE, sent |-> FALSE]

\* nothing that is left of a query is looked at
Over == [Unasked EXCEPT !.at = "over"]

ShellTypeOK ==
  /\ query \in [Launches ->
       [at : {"unasked", "waiting", "receiving", "over"},
        child : {"none", "running", "ended"},
        text : {"nothing", "cut", "whole"},
        login : LoginPaths \cup {<<>>},
        held : BOOLEAN,
        sent : BOOLEAN]]
  /\ path \in [Launches -> {Garbled} \cup Seq(STRING)]

ShellInit ==
  /\ query = [p \in Launches |-> Unasked]
  /\ \E inherited \in InheritedPaths : path = [p \in Launches |-> inherited]

Asking(p) == query[p].at \in {"waiting", "receiving"}

Set(p, new) == query' = [query EXCEPT ![p] = new] /\ UNCHANGED path

-----------------------------------------------------------------------------
(* The shell, and what it started.                                         *)

\* the markers and the PATH between them, in one piece or cut
Prints(p) ==
  /\ Asking(p) /\ query[p].child = "running" /\ query[p].text # "whole"
  /\ \E text \in {"cut", "whole"} \ {query[p].text} : Set(p, [query[p] EXCEPT !.text = text])

HoldsPipe(p) ==
  /\ Asking(p) /\ query[p].child = "running" /\ ~query[p].held
  /\ Set(p, [query[p] EXCEPT !.held = TRUE])

LetsGo(p) ==
  /\ Asking(p) /\ query[p].held
  /\ Set(p, [query[p] EXCEPT !.held = FALSE])

ShellExits(p) ==
  /\ Asking(p) /\ query[p].child = "running"
  /\ Set(p, [query[p] EXCEPT !.child = "ended"])

Shell(p) == Prints(p) \/ HoldsPipe(p) \/ LetsGo(p) \/ ShellExits(p)

-----------------------------------------------------------------------------
(* query_login_shell_path, with its reader; due: the deadline has passed.  *)

Ask(p) ==
  /\ query[p].at = "unasked"
  /\ \E login \in LoginPaths :
       Set(p, [query[p] EXCEPT !.at = "waiting", !.child = "running", !.login = login])

\* no SHELL, or it cannot be run
AskFails(p) ==
  /\ query[p].at = "unasked"
  /\ Set(p, Over)

\* the pipe ends when nobody holds it any more
ReadToEnd(p) ==
  /\ Asking(p) /\ query[p].child = "ended" /\ ~query[p].held /\ ~query[p].sent
  /\ Set(p, [query[p] EXCEPT !.sent = TRUE])

SeesExit(p) ==
  /\ query[p].at = "waiting" /\ query[p].child = "ended"
  /\ Set(p, [query[p] EXCEPT !.at = "receiving"])

\* the deadline, or an error of try_wait, which only an ended child causes: the
\* shell is killed and reaped, and its reader left alone
KillsShell(p, due) ==
  /\ query[p].at = "waiting" /\ (query[p].child = "running" => due)
  /\ Set(p, Over)

\* mutant: the reader is waited for as long as it takes
HearsNothingEver(p, due) == FALSE

HearsNothing(p, due) ==
  /\ query[p].at = "receiving" /\ ~query[p].sent /\ due
  /\ Set(p, Over)

\* String::from_utf8_lossy, name by name: it touches no separator
Decode(name) == IF name \in DOMAIN Mangled THEN Mangled[name] ELSE name
Decoded(login) == [i \in DOMAIN login |-> Decode(login[i])]

\* mutant: a text without its closing marker counts
ExtractUnmarked(q) == IF q.text = "nothing" THEN <<>> ELSE Decoded(q.login)

\* extract_marked_path; <<>> for none
Extract(q) == IF q.text = "whole" THEN Decoded(q.login) ELSE <<>>

\* the entries of both in order, each once
MergePath(current, resolved) ==
  LET all == resolved \o current
      merged[i \in 0 .. Len(all)] ==
        IF i = 0 THEN <<>>
        ELSE LET seen == merged[i - 1] IN
             IF all[i] = "" \/ all[i] \in ToSet(seen) THEN seen ELSE Append(seen, all[i])
  IN merged[Len(all)]

\* restore_login_shell_path with an answer; what is merged is compared with the
\* PATH as it was read, the empty one where it could not be
Hears(p) ==
  LET resolved == Extract(query[p])
      current  == IF path[p] = Garbled THEN <<>> ELSE path[p]
      merged   == MergePath(current, resolved)
  IN /\ query[p].at = "receiving" /\ query[p].sent
     /\ query' = [query EXCEPT ![p] = Over]
     /\ path' = IF resolved = <<>> \/ merged = current THEN path
                ELSE [path EXCEPT ![p] = merged]

Query(p, due) ==
  \/ Ask(p) \/ AskFails(p) \/ ReadToEnd(p) \/ SeesExit(p)
  \/ KillsShell(p, due) \/ HearsNothing(p, due) \/ Hears(p)

=============================================================================
