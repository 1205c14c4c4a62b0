------------------------------- MODULE Shell -------------------------------
(***************************************************************************)
(* user/sh.c: the parser of a command line, and how runcmd connects the    *)
(* processes it makes.  A line is a sequence of characters; a command is a *)
(* tree of records, whose words are the places <<q, eq>> in the line that  *)
(* argv, eargv, file and efile point to.                                   *)
(***************************************************************************)
EXTENDS Integers, Sequences, FiniteSets, FiniteSetsExt, SequencesExt

CONSTANTS MAXARGS, NBUF   \* NBUF: the length of the line buffer

whitespace == {" ", "\n"}
symbols == {"<", "|", ">", "&", ";", "(", ")"}

\* The character at i; the line ends with a zero.
At(s, i) == IF i <= Len(s) THEN s[i] ELSE ""
While(s, i, P(_)) == LET f[k \in Nat] == IF At(s, k) # "" /\ P(At(s, k)) THEN f[k + 1] ELSE k IN f[i]
Skip(s, i) == While(s, i, LAMBDA c : c \in whitespace)

execcmd(argv) == [type |-> "EXEC", argv |-> argv]
redircmd(cmd, file, mode, fd) == [type |-> "REDIR", cmd |-> cmd, file |-> file, mode |-> mode, fd |-> fd]
pipecmd(left, right) == [type |-> "PIPE", left |-> left, right |-> right]
listcmd(left, right) == [type |-> "LIST", left |-> left, right |-> right]
backcmd(cmd) == [type |-> "BACK", cmd |-> cmd]

\* The token at q, where no blank is.
token(s, q) ==
  LET c == At(s, q)
      append == c = ">" /\ At(s, q + 1) = ">"
      eq == CASE c = "" -> q
              [] append -> q + 2
              [] c \in symbols /\ ~append -> q + 1
              [] OTHER -> While(s, q, LAMBDA d : d \notin whitespace \cup symbols)
  IN  [tok |-> IF append THEN "+" ELSE IF c = "" \/ c \in symbols THEN c ELSE "a",
       word |-> <<q, eq>>, at |-> Skip(s, eq)]
gettoken(s, i) == token(s, Skip(s, i))

peek(s, i, toks) == At(s, Skip(s, i)) \in toks

\* A parser returns where it stopped and what it made, or a panic.
Got(at, cmd) == [at |-> at, cmd |-> cmd, panic |-> FALSE]
Panic == [at |-> 0, cmd |-> execcmd(<<>>), panic |-> TRUE]
\* What r goes on with: cmd becomes Make(cmd).
Into(r, Make(_)) == IF r.panic THEN Panic ELSE Got(r.at, Make(r.cmd))

redirected(cmd, op, file) ==
  IF op.tok = "<" THEN redircmd(cmd, file.word, "O_RDONLY", 0)
  ELSE redircmd(cmd, file.word, "O_WRONLY|O_CREATE", 1)

\* Mutant: the first of several redirections stays on the outside.
RECURSIVE parseredirsFirst(_, _)
redirsubFirst(sub, op, file) ==
  IF file.tok # "a" \/ sub.panic THEN Panic ELSE Got(sub.at, redirected(sub.cmd, op, file))
redirfileFirst(r, op, file, s) == redirsubFirst(parseredirsFirst(Got(file.at, r.cmd), s), op, file)
rediropFirst(r, op, s) == redirfileFirst(r, op, gettoken(s, op.at), s)
parseredirsFirst(r, s) ==
  IF r.panic \/ ~peek(s, r.at, {"<", ">"}) THEN r ELSE rediropFirst(r, gettoken(s, r.at), s)

\* Each redirection, its operator and its file, goes around the ones before.
RECURSIVE parseredirs(_, _)
redirfile(r, op, file, s) ==
  IF file.tok # "a" THEN Panic ELSE parseredirs(Got(file.at, redirected(r.cmd, op, file)), s)
redirop(r, op, s) == redirfile(r, op, gettoken(s, op.at), s)
parseredirs(r, s) ==
  IF r.panic \/ ~peek(s, r.at, {"<", ">"}) THEN r ELSE redirop(r, gettoken(s, r.at), s)

\* argv of the execcmd at the bottom of the redirections around it.
RECURSIVE WithArg(_, _)
WithArg(cmd, word) ==
  IF cmd.type = "EXEC" THEN [cmd EXCEPT !.argv = Append(@, word)] ELSE [cmd EXCEPT !.cmd = WithArg(@, word)]

RECURSIVE parsewords(_, _, _)
wordtaken(r, t, s, argc) ==
  IF t.tok = "" THEN r
  ELSE IF t.tok # "a" \/ argc + 1 >= MAXARGS THEN Panic
  ELSE parsewords(parseredirs(Got(t.at, WithArg(r.cmd, t.word)), s), s, argc + 1)
parsewords(r, s, argc) ==
  IF r.panic \/ peek(s, r.at, {"|", ")", "&", ";"}) THEN r
  ELSE wordtaken(r, gettoken(s, r.at), s, argc)

RECURSIVE parseline(_, _)
blockend(r, s) ==
  IF r.panic \/ ~peek(s, r.at, {")"}) THEN Panic
  ELSE parseredirs(Got(gettoken(s, r.at).at, r.cmd), s)
parseblock(s, i) == blockend(parseline(s, gettoken(s, i).at), s)

parseexec(s, i) ==
  IF peek(s, i, {"("}) THEN parseblock(s, i)
  ELSE parsewords(parseredirs(Got(i, execcmd(<<>>)), s), s, 0)

RECURSIVE parsepipe(_, _)
piperest(r, s) ==
  IF r.panic \/ ~peek(s, r.at, {"|"}) THEN r
  ELSE Into(parsepipe(s, gettoken(s, r.at).at), LAMBDA right : pipecmd(r.cmd, right))
parsepipe(s, i) == piperest(parseexec(s, i), s)

RECURSIVE parsebacks(_, _)
parsebacks(r, s) ==
  IF r.panic \/ ~peek(s, r.at, {"&"}) THEN r ELSE parsebacks(Got(gettoken(s, r.at).at, backcmd(r.cmd)), s)

linerest(r, s) ==
  IF r.panic \/ ~peek(s, r.at, {";"}) THEN r
  ELSE Into(parseline(s, gettoken(s, r.at).at), LAMBDA right : listcmd(r.cmd, right))
parseline(s, i) == linerest(parsebacks(parsepipe(s, i), s), s)

\* Where nulterminate writes its zeros.
RECURSIVE Ends(_)
Ends(cmd) ==
  CASE cmd.type = "EXEC" -> {cmd.argv[i][2] : i \in DOMAIN cmd.argv}
    [] cmd.type = "REDIR" -> {cmd.file[2]} \cup Ends(cmd.cmd)
    [] cmd.type \in {"PIPE", "LIST"} -> Ends(cmd.left) \cup Ends(cmd.right)
    [] OTHER -> Ends(cmd.cmd)
nulterminate(s, cmd) == [i \in DOMAIN s |-> IF i \in Ends(cmd) THEN "" ELSE s[i]]

\* The command and the line it points into.
lineend(r, s) ==
  IF r.panic \/ Skip(s, r.at) # Len(s) + 1 THEN [cmd |-> r.cmd, line |-> s, panic |-> TRUE]
  ELSE [cmd |-> r.cmd, line |-> nulterminate(s, r.cmd), panic |-> FALSE]
parsecmd(s) == lineend(parseline(s, 1), s)
-----------------------------------------------------------------------------
\* File descriptors: open, pipe and dup take the lowest free one.
Lowest(fds) == CHOOSE n \in 0..Cardinality(DOMAIN fds) : n \notin DOMAIN fds /\ \A m \in 0..(n - 1) : m \in DOMAIN fds
With(fds, file) == [n \in DOMAIN fds \cup {Lowest(fds)} |-> IF n \in DOMAIN fds THEN fds[n] ELSE file]
close(fds, n) == [m \in DOMAIN fds \ {n} |-> fds[m]]

\* Mutant: the right side keeps the pipe's writing end.
pipesideLeaks(fds, p0, p1, right) ==
  IF right THEN close(With(close(fds, 0), fds[p0]), p0) ELSE close(close(With(close(fds, 1), fds[p1]), p0), p1)

\* A side of a pipe: close(1) or close(0), dup, and both ends closed.
pipeside(fds, p0, p1, right) ==
  LET mine == IF right THEN With(close(fds, 0), fds[p0]) ELSE With(close(fds, 1), fds[p1])
  IN  close(close(mine, p0), p1)

\* The programs that a command executes, with their files; a pipe is known by
\* its place in the tree.  The files in absent cannot be opened.
RECURSIVE runcmd(_, _, _, _)
runcmd(cmd, fds, place, absent) ==
  CASE cmd.type = "EXEC" -> IF cmd.argv = <<>> THEN {} ELSE {[argv |-> cmd.argv, fds |-> fds]}
    [] cmd.type = "REDIR" ->
         IF cmd.file \in absent THEN {}
         ELSE runcmd(cmd.cmd, With(close(fds, cmd.fd), <<"file", cmd.file, cmd.mode>>), Append(place, 0), absent)
    [] cmd.type = "LIST" -> runcmd(cmd.left, fds, Append(place, 1), absent) \cup runcmd(cmd.right, fds, Append(place, 2), absent)
    [] cmd.type = "PIPE" ->
         LET p0 == Lowest(fds)
             one == With(fds, <<"pipe", place, "read">>)
             p1 == Lowest(one)
             two == With(one, <<"pipe", place, "write">>)
         IN  runcmd(cmd.left, pipeside(two, p0, p1, FALSE), Append(place, 1), absent) \cup
             runcmd(cmd.right, pipeside(two, p0, p1, TRUE), Append(place, 2), absent)
    [] OTHER -> runcmd(cmd.cmd, fds, Append(place, 0), absent)

\* main first opens the console until it has descriptors 0, 1 and 2.
RECURSIVE consoles(_)
consoles(fds) ==
  LET fd == Lowest(fds) IN IF fd >= 3 THEN fds ELSE consoles(With(fds, <<"console">>))

\* gets into a buffer of NBUF: up to and with the end of the line, or as much
\* as there is room for.
getcmd(in) ==
  LET end == {i \in 1..Len(in) : in[i] = "\n"}
      n == Min({NBUF - 1, Len(in)} \cup end)
  IN  [buf |-> SubSeq(in, 1, n), rest |-> SubSeq(in, n + 1, Len(in))]

\* Mutant: the newline is not chopped.
RECURSIVE mainUnchopped(_, _)
mainUnchopped(in, forks) ==
  LET c == getcmd(in)
      cd == Len(c.buf) >= 3 /\ SubSeq(c.buf, 1, 3) = <<"c", "d", " ">>
  IN  IF c.buf = <<>> THEN <<>>
      ELSE IF cd THEN << [chdir |-> TRUE, text |-> SubSeq(c.buf, 4, Len(c.buf))] >> \o mainUnchopped(c.rest, forks)
      ELSE << [chdir |-> FALSE, text |-> c.buf] >> \o mainUnchopped(c.rest, forks)

\* What main does with its input: chdir in the shell itself, and anything
\* else in a child.  After that many forks, fork fails and the shell ends.
RECURSIVE main(_, _)
main(in, forks) ==
  LET c == getcmd(in)
      cd == Len(c.buf) >= 3 /\ SubSeq(c.buf, 1, 3) = <<"c", "d", " ">>
  IN  IF c.buf = <<>> THEN <<>>
      ELSE IF cd THEN << [chdir |-> TRUE, text |-> SubSeq(c.buf, 4, Len(c.buf) - 1)] >> \o main(c.rest, forks)
      ELSE IF forks = 0 THEN <<>>
      ELSE << [chdir |-> FALSE, text |-> c.buf] >> \o main(c.rest, forks - 1)
-----------------------------------------------------------------------------
\* The tree with the words that a program would see, each up to its zero.
RECURSIVE Seen(_, _)
Seen(cmd, line) ==
  LET Text(word) == SubSeq(line, word[1], While(line, word[1], LAMBDA c : c # "") - 1)
  IN  CASE cmd.type = "EXEC" -> execcmd([i \in DOMAIN cmd.argv |-> Text(cmd.argv[i])])
        [] cmd.type = "REDIR" -> redircmd(Seen(cmd.cmd, line), Text(cmd.file), cmd.mode, cmd.fd)
        [] cmd.type = "PIPE" -> pipecmd(Seen(cmd.left, line), Seen(cmd.right, line))
        [] cmd.type = "LIST" -> listcmd(Seen(cmd.left, line), Seen(cmd.right, line))
        [] OTHER -> backcmd(Seen(cmd.cmd, line))

\* A line for a tree, with parentheses where the grammar needs them and sp
\* between its parts.
RECURSIVE Line(_, _)
Line(t, sp) ==
  LET Inner(u, bare) == IF u.type \in bare THEN Line(u, sp) ELSE <<"(">> \o sp \o Line(u, sp) \o sp \o <<")">>
      Simple == {"EXEC", "REDIR"}
  IN  CASE t.type = "EXEC" -> FoldLeft(LAMBDA l, w : l \o <<" ">> \o w, <<>>, t.argv)
        [] t.type = "REDIR" -> Inner(t.cmd, Simple) \o sp \o <<IF t.fd = 0 THEN "<" ELSE ">">> \o sp \o t.file
        [] t.type = "PIPE" -> Inner(t.left, Simple) \o sp \o <<"|">> \o sp \o Inner(t.right, Simple \cup {"PIPE"})
        [] t.type = "LIST" -> Inner(t.left, Simple \cup {"PIPE", "BACK"}) \o sp \o <<";">> \o sp \o Line(t.right, sp)
        [] OTHER -> Inner(t.cmd, Simple \cup {"PIPE", "BACK"}) \o sp \o <<"&">>

\* The words of a tree, in the order of the line but for the files, which
\* follow what they are redirections of.
RECURSIVE Words(_)
Words(t) ==
  CASE t.type = "EXEC" -> t.argv
    [] t.type = "REDIR" -> Append(Words(t.cmd), t.file)
    [] t.type \in {"PIPE", "LIST"} -> Words(t.left) \o Words(t.right)
    [] OTHER -> Words(t.cmd)

\* The programs of a tree and what they read and write, as a shell means it:
\* each side of a pipe has the pipe, the innermost redirection wins.
RECURSIVE Meant(_, _, _, _, _)
Meant(t, in, out, place, absent) ==
  CASE t.type = "EXEC" -> IF t.argv = <<>> THEN {} ELSE {[argv |-> t.argv, fds |-> (0 :> in) @@ (1 :> out) @@ (2 :> <<"console">>)]}
    [] t.type = "REDIR" ->
         LET f == <<"file", t.file, t.mode>>
         IN  IF t.file \in absent THEN {}
             ELSE Meant(t.cmd, IF t.fd = 0 THEN f ELSE in, IF t.fd = 1 THEN f ELSE out, Append(place, 0), absent)
    [] t.type = "PIPE" -> Meant(t.left, in, <<"pipe", place, "write">>, Append(place, 1), absent) \cup
                          Meant(t.right, <<"pipe", place, "read">>, out, Append(place, 2), absent)
    [] t.type = "LIST" -> Meant(t.left, in, out, Append(place, 1), absent) \cup Meant(t.right, in, out, Append(place, 2), absent)
    [] OTHER -> Meant(t.cmd, in, out, Append(place, 0), absent)

\* Every command can be written, and is read as what was written, with or
\* without blanks: the zeros that end its words overwrite no word.
LineParsed(t, sp) ==
  \A r \in {parsecmd(Line(t, sp))} : ~r.panic /\ Seen(r.cmd, r.line) = t

\* Whatever the line, the shell gives up or takes every word of it.
NoWordLost(s) ==
  LET starts == {i \in DOMAIN s : s[i] \notin whitespace \cup symbols /\ (i = 1 \/ s[i - 1] \in whitespace \cup symbols)}
      From(i) == SubSeq(s, i, While(s, i, LAMBDA c : c \notin whitespace \cup symbols) - 1)
  IN  \A r \in {parsecmd(s)} : ~r.panic =>
        \A ws \in {Words(Seen(r.cmd, r.line))} : \A w \in {From(i) : i \in starts} \cup Range(ws) :
          Cardinality({i \in starts : From(i) = w}) = Cardinality({k \in DOMAIN ws : ws[k] = w})

\* Every program of a command has its standard files where the command says
\* and no others: with the pipe's writing end left open anywhere, its reader
\* would never see the end.
PipesConnected(t, absent) ==
  LET c == <<"console">>
  IN  runcmd(t, (0 :> c) @@ (1 :> c) @@ (2 :> c), <<>>, absent) = Meant(t, c, c, <<>>, absent)

\* Lines that fit the buffer with their ends are taken one by one, in order,
\* each whole, until a fork fails: nothing of one is left over for the next,
\* and a cd is done by the shell itself.  Whatever descriptors it was started
\* with, it has a file for 0, 1 and 2 and opened none besides.
LinesTaken(lines, forks, open) ==
  LET Cd(l) == Len(l) >= 3 /\ SubSeq(l, 1, 3) = <<"c", "d", " ">>
      Forks(k) == Cardinality({i \in 1..k : ~Cd(lines[i])})
      done == Max({k \in 0..Len(lines) : Forks(k) <= forks})
      fds == consoles([n \in open |-> <<"given">>])
  IN  /\ main(FlattenSeq([k \in 1..Len(lines) |-> Append(lines[k], "\n")]), forks) =
           [k \in 1..done |-> [chdir |-> Cd(lines[k]),
                               text |-> IF Cd(lines[k]) THEN SubSeq(lines[k], 4, Len(lines[k]))
                                        ELSE Append(lines[k], "\n")]]
      /\ DOMAIN fds = open \cup {0, 1, 2} /\ \A n \in open : fds[n] = <<"given">>
=============================================================================
