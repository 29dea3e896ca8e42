---------------------------- MODULE MCFileLogger ----------------------------
(* Small instances of FileLogger. *)
EXTENDS FileLogger, TLC

Plain == [gzip |-> FALSE, workdir |-> FALSE, interval |-> FALSE, skip |-> FALSE,
          size |-> 0, topics |-> TRUE]

\* The options that change what the router does, each with another.
Mixed == {Plain,
          [Plain EXCEPT !.gzip = TRUE, !.workdir = TRUE, !.topics = FALSE],
          [Plain EXCEPT !.workdir = TRUE, !.skip = TRUE],
          [Plain EXCEPT !.interval = TRUE, !.size = 1]}
=============================================================================
