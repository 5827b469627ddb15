---------------------------- MODULE MCKnownHosts ----------------------------
(* KnownHosts with a few hosts and the files a user may start from.        *)
EXTENDS KnownHosts
CONSTANTS a, b, f, g

Comment == [key |-> NoHost, algo |-> "comment", fp |-> Garbled, nl |-> TRUE]
Line(h, algo, fp) == [Entry(h, fp) EXCEPT !.algo = algo]
Unfinished(line) == [line EXCEPT !.nl = FALSE]

\* as the program leaves it, or edited with care
FinishedStores ==
    { NoFile,
      File(<<>>),
      File(<<Comment, Entry(a, f)>>),
      File(<<Line(a, "other", f), Entry(b, g)>>),
      File(<<Entry(a, f), Entry(b, f), Entry(a, g)>>) }

\* saved by an editor that puts no newline behind the last line
EditedStores ==
    { File(<<Unfinished(Entry(a, f))>>),
      File(<<Entry(b, f), Unfinished(Comment)>>),
      File(<<Comment, Unfinished(Line(a, "none", f))>>) }

AllStores == FinishedStores \cup EditedStores
=============================================================================
