------------------------------- MODULE Filters -------------------------------
(***************************************************************************)
(* The user programs that read files and print: user/grep.c, user/wc.c and *)
(* user/ls.c.  A file comes as the pieces that successive reads return,    *)
(* each a sequence of characters; opens says whether open succeeds.        *)
(*                                                                         *)
(* How tools/libfs.c takes a path apart.  A path is a sequence of          *)
(* characters; LibFs takes it as the sequence of its names, which is what  *)
(* the loops below make of it.                                             *)
(***************************************************************************)
EXTENDS Integers, Sequences, FiniteSets, FiniteSetsExt, SequencesExt

CONSTANTS DIRSIZ, PATHBUF   \* PATHBUF is the size of ls's buf

NL == "\n"
whitespace == {" ", NL}

\* The character at i; a string ends with a zero.
At(s, i) == IF i <= Len(s) THEN s[i] ELSE ""
From(s, i) == SubSeq(s, i, Len(s))
-----------------------------------------------------------------------------
\* The matcher, for ^ . * and $.

\* Mutant: a star needs one instance at least.
RECURSIVE matchhere(_, _)
matchstarOnce(c, re, text) ==
  \E n \in 1..Len(text) : matchhere(re, From(text, n + 1)) /\ \A i \in 1..n : c \in {".", text[i]}

\* do ... while: with none, one, two ... instances skipped.
matchstar(c, re, text) ==
  \E n \in 0..Len(text) : matchhere(re, From(text, n + 1)) /\ \A i \in 1..n : c \in {".", text[i]}

matchhere(re, text) ==
  IF re = <<>> THEN TRUE
  ELSE IF At(re, 2) = "*" THEN matchstar(re[1], From(re, 3), text)
  ELSE IF re[1] = "$" /\ Len(re) = 1 THEN text = <<>>
  ELSE text # <<>> /\ re[1] \in {".", text[1]} /\ matchhere(Tail(re), Tail(text))

match(re, text) ==
  IF At(re, 1) = "^" THEN matchhere(Tail(re), text)
  ELSE \E i \in 1..(Len(text) + 1) : matchhere(re, From(text, i))
-----------------------------------------------------------------------------
\* The lines that a buffer holds, as <<first, newline>>.
Lines(b) ==
  LET ends == SetToSortSeq({i \in DOMAIN b : b[i] = NL}, <)
  IN  [k \in DOMAIN ends |-> <<IF k = 1 THEN 1 ELSE ends[k - 1] + 1, ends[k]>>]

\* Mutant: what follows the last newline of a read is not kept.
grepDrops(re, pieces) ==
  FoldLeft(LAMBDA s, piece :
             LET ls == Lines(piece)
                 hits == SelectSeq(ls, LAMBDA l : match(re, SubSeq(piece, l[1], l[2] - 1)))
             IN  [buf |-> <<>>, out |-> s.out \o FoldLeft(LAMBDA o, l : o \o SubSeq(piece, l[1], l[2]), <<>>, hits)],
           [buf |-> <<>>, out |-> <<>>], pieces).out

\* grep: the buffer after each read, its lines, and what is left of it.  A
\* read that leaves no line in the buffer throws the buffer away.
grep(re, pieces) ==
  FoldLeft(LAMBDA s, piece :
             LET b == s.buf \o piece
                 ls == Lines(b)
                 hits == SelectSeq(ls, LAMBDA l : match(re, SubSeq(b, l[1], l[2] - 1)))
             IN  [buf |-> IF ls = <<>> THEN <<>> ELSE From(b, Last(ls)[2] + 1),
                  out |-> s.out \o FoldLeft(LAMBDA o, l : o \o SubSeq(b, l[1], l[2]), <<>>, hits)],
           [buf |-> <<>>, out |-> <<>>], pieces).out

\* wc: lines, words, characters.
wc(pieces) ==
  LET One(s, ch) == [l |-> s.l + (IF ch = NL THEN 1 ELSE 0),
                     w |-> s.w + (IF ch \notin whitespace /\ ~s.inword THEN 1 ELSE 0),
                     c |-> s.c + 1, inword |-> ch \notin whitespace]
      end == FoldLeft(LAMBDA s, piece : FoldLeft(One, s, piece), [l |-> 0, w |-> 0, c |-> 0, inword |-> FALSE], pieces)
  IN  <<end.l, end.w, end.c>>

\* The files that main gets to: those before the first that does not open.
Opened(files) ==
  LET bad == {i \in DOMAIN files : ~files[i].opens}
  IN  IF bad = {} THEN files ELSE SubSeq(files, 1, Min(bad) - 1)

grep_main(re, files) ==
  FoldLeft(LAMBDA o, f : o \o grep(re, f.data), <<>>, Opened(files))

wc_main(files) == [i \in DOMAIN Opened(files) |-> wc(files[i].data)]
-----------------------------------------------------------------------------
\* Mutant: the name is copied over the last one and not padded.
fmtnameBare(path, buf) ==
  LET slash == {i \in DOMAIN path : path[i] = "/"}
      p == From(path, (IF slash = {} THEN 0 ELSE Max(slash)) + 1)
  IN  IF Len(p) >= DIRSIZ THEN [name |-> p, buf |-> buf]
      ELSE LET new == [i \in DOMAIN buf |-> IF i <= Len(p) THEN p[i] ELSE buf[i]]
           IN  [name |-> SelectSeq(new, LAMBDA c : c # ""), buf |-> new]

\* The last part of a path, blank-padded, in a static buffer that is all zero
\* to begin with; a part of DIRSIZ characters or more is returned in place.
fmtname(path, buf) ==
  LET slash == {i \in DOMAIN path : path[i] = "/"}
      p == From(path, (IF slash = {} THEN 0 ELSE Max(slash)) + 1)
      new == [i \in DOMAIN buf |-> IF i <= Len(p) THEN p[i] ELSE IF i <= DIRSIZ THEN " " ELSE buf[i]]
  IN  IF Len(p) >= DIRSIZ THEN [name |-> p, buf |-> buf]
      ELSE [name |-> SelectSeq(new, LAMBDA c : c # ""), buf |-> new]

\* ls of one argument, f = [opens, type, entries]: what is printed, and the
\* static buffer.  An entry is [inum, name, stat]; stat says whether stat of
\* its path succeeds.
ls(path, f, s) ==
  LET Show(t, p) == LET r == fmtname(p, t.buf) IN [buf |-> r.buf, out |-> Append(t.out, r.name)]
      Entry(t, de) == IF de.inum = 0 THEN t
                      ELSE IF ~de.stat THEN [t EXCEPT !.out = Append(@, <<"cannot stat">>)]
                      ELSE Show(t, path \o <<"/">> \o de.name)
  IN  IF ~f.opens THEN [s EXCEPT !.out = Append(@, <<"cannot open">>)]
      ELSE IF f.type = "T_FILE" THEN Show(s, path)
      ELSE IF Len(path) + 1 + DIRSIZ + 1 > PATHBUF THEN [s EXCEPT !.out = Append(@, <<"path too long">>)]
      ELSE FoldLeft(Entry, s, f.entries)

ls_main(args) ==
  FoldLeft(LAMBDA s, a : ls(a.path, a.file, s),
           [buf |-> [i \in 1..(DIRSIZ + 1) |-> ""], out |-> <<>>], args).out
-----------------------------------------------------------------------------
\* What a pattern means: the characters that each of its items takes.
Items(re) ==
  LET RECURSIVE split(_)
      split(r) == IF r = <<>> THEN <<>>
                  ELSE IF At(r, 2) = "*" THEN <<[c |-> r[1], star |-> TRUE]>> \o split(From(r, 3))
                  ELSE <<[c |-> r[1], star |-> FALSE]>> \o split(Tail(r))
  IN  split(re)

\* text[i + 1 .. j] is made of the items from k on; "$" at the end of the
\* pattern stands for the end of the text.
Taken(items, text, i, j) ==
  \E cut \in [0..Len(items) -> i..j] :
    /\ cut[0] = i /\ cut[Len(items)] = j
    /\ \A k \in DOMAIN items :
         /\ cut[k - 1] <= cut[k]
         /\ \A x \in (cut[k - 1] + 1)..cut[k] : items[k].c \in {".", text[x]}
         /\ items[k].star \/ cut[k] = cut[k - 1] + 1

Means(re, text) ==
  LET begin == At(re, 1) = "^"
      r == IF begin THEN Tail(re) ELSE re
      final == r # <<>> /\ Last(r) = "$"
      items == Items(IF final THEN SubSeq(r, 1, Len(r) - 1) ELSE r)
  IN  \E i \in 0..Len(text), j \in 0..Len(text) :
        /\ i <= j /\ (begin => i = 0) /\ (final => j = Len(text))
        /\ Taken(items, text, i, j)

\* grep prints the lines that the pattern means, whole and in order, however
\* the reads cut the file, as long as each brings the end of a line: the line
\* that a read breaks off in is kept for the next one, and not for the next
\* file.
GrepPrintsMatches(re, files) ==
  LET Of(f) == LET all == FoldLeft(\o, <<>>, f.data)
                   hits == SelectSeq(Lines(all), LAMBDA l : Means(re, SubSeq(all, l[1], l[2] - 1)))
               IN  FoldLeft(LAMBDA o, l : o \o SubSeq(all, l[1], l[2]), <<>>, hits)
      open == Opened(files)
  IN  (\A f \in Range(open) : \A k \in DOMAIN f.data : NL \in Range(f.data[k])) =>
        grep_main(re, files) = FoldLeft(LAMBDA o, f : o \o Of(f), <<>>, open)

\* wc's counts do not depend on where the reads cut a word.
CountsIndependent(files) ==
  \A i \in DOMAIN wc_main(files) :
    LET all == FoldLeft(\o, <<>>, files[i].data)
        starts == {k \in DOMAIN all : all[k] \notin whitespace /\ (k = 1 \/ all[k - 1] \in whitespace)}
    IN  wc_main(files)[i] = <<Len(Lines(all)), Cardinality(starts), Len(all)>>

\* ls prints a line for each entry in use, in order, and the name on it is
\* that of the entry: nothing of a name formatted earlier in the same buffer
\* shows.
NamesListed(args) ==
  LET Strip(n) == SelectSeq(n, LAMBDA c : c # " ")
      LastPart(p) == LET sl == {0} \cup {i \in DOMAIN p : p[i] = "/"} IN From(p, Max(sl) + 1)
      Of(a) == IF ~a.file.opens THEN <<<<"cannot open">>>>
               ELSE IF a.file.type = "T_FILE" THEN <<LastPart(a.path)>>
               ELSE LET used == SelectSeq(a.file.entries, LAMBDA de : de.inum # 0)
                    IN  [i \in DOMAIN used |-> IF used[i].stat THEN used[i].name ELSE <<"cannot stat">>]
  IN  (\A i \in DOMAIN args : Len(args[i].path) + 2 + DIRSIZ <= PATHBUF) =>
        [i \in DOMAIN ls_main(args) |-> Strip(ls_main(args)[i])] = FoldLeft(LAMBDA o, a : o \o Of(a), <<>>, args)
-----------------------------------------------------------------------------
is_empty(s) == s = <<>>
is_sep(c) == c = "/"

\* while (...) path++
RECURSIVE skipseps(_), skipname(_)
skipseps(path) == IF ~is_empty(path) /\ is_sep(Head(path)) THEN skipseps(Tail(path)) ELSE path
skipname(path) == IF ~is_empty(path) /\ ~is_sep(Head(path)) THEN skipname(Tail(path)) ELSE path

Least(x, y) == IF x < y THEN x ELSE y

\* Mutant: the rest begins where the copied name ends.
skipelemShort(path) ==
  LET s == skipseps(path)
      len == Least(Len(s) - Len(skipname(s)), DIRSIZ)
  IN  [name |-> SubSeq(s, 1, len), path |-> SubSeq(s, len + 1, Len(s))]

skipelem(path) ==
  LET s == skipseps(path)
      rest == skipname(s)
  IN  [name |-> SubSeq(s, 1, Least(Len(s) - Len(rest), DIRSIZ)), path |-> rest]

\* The names that the loops of ilookup, icreat and iunlink look up.
RECURSIVE looked_up(_)
looked_up(path) ==
  LET e == skipelem(path)
  IN  IF is_empty(e.name) THEN <<>>
      ELSE IF is_empty(e.path) THEN <<e.name>>
      ELSE <<e.name>> \o looked_up(e.path)

\* The base name: where the last round of the loop began to look.
RECURSIVE basename(_, _)
basename(path, s) ==
  IF is_empty(path) THEN s ELSE LET t == skipseps(path) IN basename(skipname(t), t)

splitpath(path, size) ==
  LET s == basename(path, path)
  IN  [dir |-> SubSeq(path, 1, Least(Len(path) - Len(s), size - 1)), base |-> s]
-----------------------------------------------------------------------------
\* The names of a path: its longest runs without a separator.
Components(path) ==
  LET n == Len(path)
      Run(i, j) == /\ \A k \in i..j : path[k] # "/"
                   /\ i = 1 \/ path[i - 1] = "/"
                   /\ j = n \/ path[j + 1] = "/"
      runs == SetToSortSeq({r \in (1..n) \X (1..n) : r[1] <= r[2] /\ Run(r[1], r[2])},
                           LAMBDA a, b : a[1] < b[1])
  IN  [k \in 1..Len(runs) |-> SubSeq(path, runs[k][1], runs[k][2])]

\* However many separators a path begins with, ends with or has in a row, the
\* lookups go through its names in order, each cut to DIRSIZ characters and
\* none of the cut characters taken for a name; and splitpath leaves in the
\* directory and the base name what looking up the one and then the other
\* goes through, unless the buffer was too small for the directory.
PathsSplit(path, size) ==
  LET names == Components(path)
      cut == [k \in 1..Len(names) |-> SubSeq(names[k], 1, Least(Len(names[k]), DIRSIZ))]
      s == splitpath(path, size)
  IN  /\ looked_up(path) = cut
      /\ \A k \in 1..Len(s.base) : s.base[k] # "/"
      /\ Len(s.dir) < size
      /\ IF Len(s.dir) + Len(s.base) = Len(path)
         THEN /\ s.dir \o s.base = path
              /\ looked_up(s.dir) \o looked_up(s.base) = cut
         ELSE IsPrefix(s.dir, path) /\ Len(s.dir) = size - 1
=============================================================================
