-------------------------------- MODULE Opfs --------------------------------
(***************************************************************************)
(* The commands of tools/opfs.c on an image made by mkfs: each is one run  *)
(* of the program, which maps the image, executes a command and unmaps it. *)
(* A path is a sequence of plain names (no "." or "..", no trailing '/').  *)
(***************************************************************************)
EXTENDS LibFs

CONSTANTS
  Names,
  MaxDepth,  \* the names in a path
  Lens,      \* lengths of the files put
  Data,      \* what they hold
  MaxCmds,   \* bound: commands executed
  Archives   \* the arguments of mkfs: sequences of <<name, length>>

VARIABLES
  img,
  cmds,  \* the commands executed so far
  args   \* history: the paths the last command was given to change

vars == <<img, cmds, args>>

Paths == BoundedSeq(Names, MaxDepth)

Init == img \in {mkfs(a) : a \in Archives} /\ cmds = 0 /\ args = {}

-----------------------------------------------------------------------------
wrote(w, n) == Ret(w.img, IF w.ret = n THEN 0 ELSE -1)

\* data written to inode i from the start, BUFSIZE units at a time.
writeall(m, i, data) ==
  LET more(x, c) ==
        IF x.img.fatal \/ x.ret # 0 THEN x
        ELSE LET part == SubSeq(data, (c - 1) * BUFSIZE + 1, Min({c * BUFSIZE, Len(data)}))
             IN  wrote(iwrite(x.img, i, part, (c - 1) * BUFSIZE), Len(part))
  IN  FoldLeft(more, Ret(m, 0), [c \in 1..divceil(Len(data), BUFSIZE) |-> c]).img

\* Writes data to f.ret; nothing if it could not be made.
filled(f, data) == IF f.ret = 0 THEN f.img ELSE writeall(f.img, f.ret, data)

Lookup(m, path) == ilookup(m, root_inode, path)

\* Writes data to inode i of m, whose blocks were freed unless that failed.
rewritten(m, i, data) == IF m.fatal THEN m ELSE writeall(m, i, data)

do_put(m, path, data) ==
  LET to(p) ==
        IF p.img.fatal THEN p.img
        ELSE IF p.ret = 0 THEN filled(icreat(p.img, root_inode, path, T_FILE), data)
        ELSE IF p.img.inode[p.ret].type # T_FILE THEN p.img
        ELSE rewritten(itruncate(p.img, p.ret, 0), p.ret, data)
  IN  to(Lookup(m, path))

\* ls: a lookup, and for a directory a pass over its entries.
do_ls(m, path) ==
  LET of(p) == IF p.ret = 0 \/ p.img.inode[p.ret].type # T_DIR THEN p.img
               ELSE scan(p.img, p.ret, <<>>, 0).img
  IN  of(Lookup(m, path))

\* get: the units of the file, BUFSIZE at a time.
do_get(m, path) ==
  LET joined(r, done) == Ret(r.img, done \o r.ret)
      of(p) ==
        LET more(x, c) == IF x.img.fatal THEN x
                          ELSE joined(iread(x.img, p.ret, BUFSIZE, (c - 1) * BUFSIZE), x.ret)
        IN  IF p.ret = 0 THEN Ret(p.img, <<>>)
            ELSE FoldLeft(more, Ret(p.img, <<>>),
                          [c \in 1..divceil(p.img.inode[p.ret].size, BUFSIZE) |-> c])
  IN  of(Lookup(m, path))

\* info: the blocks of the inode, each list up to its first zero.
do_info(m, path) ==
  LET UpToZero(s) == SubSeq(s, 1, Min({n \in 1..(Len(s) + 1) : n > Len(s) \/ s[n] = 0}) - 1)
      far(t, units) ==
        IF t = 0 THEN <<>>
        ELSE <<t>> \o UpToZero([k \in 1..NINDIRECT |-> IF units[t][k - 1] = <<>> THEN 0
                                                      ELSE units[t][k - 1][1]])
      blocks(ip, units) ==
        IF ip.size = 0 THEN <<>>
        ELSE UpToZero([n \in 1..NDIRECT |-> ip.addrs[n - 1]]) \o far(ip.addrs[NDIRECT], units)
      of(p) == Ret(p.img, IF p.ret = 0 THEN <<>> ELSE blocks(p.img.inode[p.ret], p.img.blk))
  IN  of(Lookup(m, path))

\* diskinfo: the bits of the bitmap and the inodes of each type.
do_diskinfo(m) ==
  LET Of(type) == Cardinality({i \in Inodes : m.inode[i].type = type})
  IN  [blocks |-> Cardinality(m.used), dirs |-> Of(T_DIR), files |-> Of(T_FILE), devs |-> Of(T_DEV)]

do_rm(m, path) ==
  LET of(p) == IF p.ret = 0 \/ p.img.inode[p.ret].type = T_DIR THEN p.img
               ELSE iunlink(p.img, root_inode, path).img
  IN  of(Lookup(m, path))

content(m, i) == iread(m, i, m.inode[i].size, 0).ret

\* cp of inode s: to a new file in dir, over file d, or where dpath leads, d.
cpnew(dir, name, s) ==
  IF dir.ret = 0 \/ dir.img.inode[dir.ret].type # T_DIR THEN dir.img
  ELSE filled(icreat(dir.img, dir.ret, <<name>>, T_FILE), content(dir.img, s))
cpover(m, d, s) == IF m.fatal THEN m ELSE writeall(m, d, content(m, s))
cpto(d, s, spath, dpath) ==
  IF d.img.fatal THEN d.img
  ELSE IF d.ret = 0 THEN cpnew(Lookup(d.img, Front(dpath)), Last(dpath), s)
  ELSE IF d.img.inode[d.ret].type = T_DIR THEN cpnew(d, Last(spath), s)
  ELSE IF d.img.inode[d.ret].type = T_FILE THEN cpover(itruncate(d.img, d.ret, 0), d.ret, s)
  ELSE d.img

cpfrom(s, spath, dpath) ==
  IF s.ret = 0 \/ s.img.inode[s.ret].type # T_FILE THEN s.img
  ELSE cpto(Lookup(s.img, dpath), s.ret, spath, dpath)

do_cp(m, spath, dpath) == cpfrom(Lookup(m, spath), spath, dpath)

unlink(m, path) == IF m.fatal THEN m ELSE iunlink(m, root_inode, path).img

\* The new entry, whether or not it fits, and then the old one.
relink(m, dir, name, i, spath) == unlink(daddent(m, dir, name, i).img, spath)

reparent(m, dir, i, g) ==
  IF m.fatal \/ m.inode[i].type # T_DIR THEN m ELSE dmkparlink(m, dir, i, g)

\* A directory also gets its new parent.
relinkdir(m, dir, name, i, spath, g) == reparent(relink(m, dir, name, i, spath), dir, i, g)

\* mv over entry e of directory dip, of the same type, when that is gone.
mvover(m, type, sip, dip, spath, g) ==
  IF m.fatal THEN m
  ELSE IF type = T_DIR THEN relinkdir(m, dip, Last(spath), sip, spath, g)
  ELSE relink(m, dip, Last(spath), sip, spath)
mvgone(m, type, sip, dip, spath, g) ==
  mvover(iunlink(m, dip, <<Last(spath)>>).img, type, sip, dip, spath, g)
mvsame(m, type, empty, sip, dip, spath, g) ==
  IF type # m.inode[sip].type \/ type = T_DEV THEN m
  ELSE IF type = T_FILE THEN mvgone(m, type, sip, dip, spath, g)
  ELSE IF empty.ret THEN mvgone(empty.img, type, sip, dip, spath, g)
  ELSE empty.img

mvat(e, sip, dip, spath, g) ==
  IF e.img.fatal THEN e.img
  ELSE IF e.ret = 0 THEN relinkdir(e.img, dip, Last(spath), sip, spath, g)
  ELSE mvsame(e.img, e.img.inode[e.ret].type, emptydir(e.img, e.ret), sip, dip, spath, g)

\* mv into directory dip under the name of the source.
mvinto(m, sip, dip, spath, g) == mvat(dlookup(m, dip, Last(spath)), sip, dip, spath, g)

\* mv of inode s: under a new name in dir, over a file that is gone, or where
\* dpath leads, d.
mvnew(dir, s, spath, dpath, g) ==
  IF dir.ret = 0 \/ dir.img.inode[dir.ret].type # T_DIR THEN dir.img
  ELSE relinkdir(dir.img, dir.ret, Last(dpath), s, spath, g)
mvfile(m, s, spath, dpath) ==
  IF m.fatal THEN m ELSE relink(m, Lookup(m, Front(dpath)).ret, Last(dpath), s, spath)
mvto(d, s, spath, dpath, g) ==
  IF d.img.fatal THEN d.img
  ELSE IF d.ret = 0 THEN mvnew(Lookup(d.img, Front(dpath)), s, spath, dpath, g)
  ELSE IF d.img.inode[d.ret].type = T_DIR THEN mvinto(d.img, s, d.ret, spath, g)
  ELSE IF d.img.inode[d.ret].type # T_FILE \/ d.img.inode[s].type # T_FILE THEN d.img
  ELSE mvfile(iunlink(d.img, root_inode, dpath).img, s, spath, dpath)

mvfrom(s, spath, dpath, g) ==
  IF s.ret \in {0, root_inode} THEN s.img ELSE mvto(Lookup(s.img, dpath), s.ret, spath, dpath, g)

do_mv(m, spath, dpath, g) == mvfrom(Lookup(m, spath), spath, dpath, g)

\* ln of inode s: beside entry e for name in dir, or into the directory e is.
lnat(e, dir, name, s, spath, dpath) ==
  IF e.img.fatal THEN e.img
  ELSE IF e.ret = 0 THEN daddent(e.img, dir, name, s).img
  ELSE IF dpath # <<>> /\ e.img.inode[e.ret].type = T_DIR
  THEN daddent(e.img, e.ret, Last(spath), s).img
  ELSE e.img
lnin(dir, s, spath, dpath) ==
  LET name == IF dpath = <<>> THEN Last(spath) ELSE Last(dpath)
  IN  IF dir.ret = 0 \/ dir.img.inode[dir.ret].type # T_DIR THEN dir.img
      ELSE lnat(dlookup(dir.img, dir.ret, name), dir.ret, name, s, spath, dpath)

lnfrom(s, spath, dpath) ==
  IF s.ret = 0 \/ s.img.inode[s.ret].type # T_FILE THEN s.img
  ELSE lnin(Lookup(s.img, IF dpath = <<>> THEN <<>> ELSE Front(dpath)), s.ret, spath, dpath)

do_ln(m, spath, dpath) == lnfrom(Lookup(m, spath), spath, dpath)

do_mkdir(m, path) ==
  LET of(p) == IF p.ret # 0 \/ p.img.fatal THEN p.img
               ELSE icreat(p.img, root_inode, path, T_DIR).img
  IN  of(Lookup(m, path))

do_rmdir(m, path) ==
  LET gone(empty) == IF empty.ret THEN iunlink(empty.img, root_inode, path).img ELSE empty.img
      of(p) == IF p.ret = 0 \/ p.img.inode[p.ret].type # T_DIR THEN p.img
               ELSE gone(emptydir(p.img, p.ret))
  IN  of(Lookup(m, path))
-----------------------------------------------------------------------------
\* The state of an image

Allocated(m) == {i \in Inodes : m.inode[i].type # 0}
Dirs(m) == {i \in Inodes : m.inode[i].type = T_DIR}

\* The block numbers of inode i, by their place in it.
Pointers(m, i) ==
  LET ip == m.inode[i]
      t == ip.addrs[NDIRECT]
  IN  {<<i, n, ip.addrs[n]>> : n \in {n \in 0..NDIRECT : ip.addrs[n] # 0}}
        \cup IF t = 0 THEN {}
             ELSE {<<i, NDIRECT + 1 + k, m.blk[t][k][1]>> :
                     k \in {k \in 0..(NINDIRECT - 1) : m.blk[t][k] # <<>>}}
AllPointers(m) == UNION {Pointers(m, i) : i \in Allocated(m)}

\* Block n of inode i, or 0; nothing is allocated.
BlockOf(m, i, n) ==
  LET p == {q \in Pointers(m, i) : q[2] = IF n < NDIRECT THEN n ELSE n + 1}
  IN  IF p = {} THEN 0 ELSE (CHOOSE q \in p : TRUE)[3]

Content(m, i) ==
  [u \in 0..(m.inode[i].size - 1) |->
     LET b == BlockOf(m, i, u \div BSIZE) IN IF b = 0 THEN <<>> ELSE m.blk[b][u % BSIZE]]

\* The entries of the directories: <<directory, offset, name, inode>>.
Entries(m) ==
  UNION {LET c == Content(m, d)
         IN  {<<d, u, c[u][1], c[u][2]>> : u \in {u \in DOMAIN c : c[u] # <<>>}} : d \in Dirs(m)}

Children(m, d) ==
  {e[4] : e \in {x \in Entries(m) : x[1] = d /\ x[3] \notin {".", ".."}}}

RECURSIVE Below(_, _)
Below(m, is) ==
  LET more == is \cup UNION {Children(m, i) : i \in is}
  IN  IF more = is THEN is ELSE Below(m, more)

\* The inode of a path, or 0.
Inode(m, path) == Lookup(m, path).ret

-----------------------------------------------------------------------------
\* Commands: main maps the image, runs one of them and unmaps the image.

main(m, paths) == img' = [m EXCEPT !.fatal = FALSE] /\ cmds' = cmds + 1 /\ args' = paths

put == \E p \in Paths, n \in Lens, d \in Data :
         main(do_put(img, p, [k \in 1..n |-> <<d>>]), {p})
ls == \E p \in Paths : main(do_ls(img, p), {})
get == \E p \in Paths : main(do_get(img, p).img, {})
info == \E p \in Paths : main(do_info(img, p).img, {})
rm == \E p \in Paths : main(do_rm(img, p), {p})
mkdir == \E p \in Paths : main(do_mkdir(img, p), {p})
rmdir == \E p \in Paths : main(do_rmdir(img, p), {p})

\* The paths a command with a source and a destination may change.
Given(spath, dpath) == {dpath} \cup IF spath = <<>> THEN {} ELSE {Append(dpath, Last(spath))}

cp == \E p, q \in Paths : main(do_cp(img, p, q), Given(p, q))
ln == \E p, q \in Paths : main(do_ln(img, p, q), Given(p, q))

\* The directory mv q puts the source into.
Into(q) ==
  LET of(i) == IF q = <<>> \/ (i # 0 /\ img.inode[i].type = T_DIR) THEN i ELSE Inode(img, Front(q))
  IN  of(Inode(img, q))

mv ==
  \E p, q \in Paths :
    \E i \in {Inode(img, p)} :
      LET dir == i \notin {0, root_inode} /\ img.inode[i].type = T_DIR
          dotless == dir /\ dlookup(img, i, "..").ret = 0
          mishap == IF dir /\ Into(q) \in Below(img, {i}) THEN {"loop"} ELSE {}
      IN  \E g \in IF dotless THEN 0..MAXFILESIZE ELSE {0} :
            main([do_mv(img, p, q, g) EXCEPT !.mishap = @ \cup mishap], {p} \cup Given(p, q))

\* A damaged image is not used further, except one a fatal() has left.
Usable == img.mishap \subseteq {"fatal"} /\ cmds < MaxCmds

Next == Usable /\ (put \/ ls \/ get \/ info \/ rm \/ mkdir \/ rmdir \/ cp \/ ln \/ mv)

Spec == Init /\ [][Next]_vars

-----------------------------------------------------------------------------
\* Properties

\* A block number an inode holds is marked in the bitmap, is one of a data
\* block, and is held once, whatever the commands did or ran out of.
BlocksOwnedOnce ==
  \A p \in AllPointers(img) :
    /\ p[3] \in img.used /\ valid_data_block(p[3])
    /\ \A q \in AllPointers(img) : q[3] = p[3] => q = p

\* As long as no command has ended in fatal(), the marked blocks are the ones
\* before the data and the ones inodes hold: nothing leaks.
BitmapExact ==
  \/ "fatal" \in img.mishap
  \/ img.used = 0..(NMETA - 1) \cup {p[3] : p \in AllPointers(img)}

\* As long as nothing has gone wrong, the link count of an inode is the number
\* of entries for it other than ".", and no entry is for a free inode.
LinksExact ==
  img.mishap = {} =>
    LET es == Entries(img)
    IN  /\ \A i \in Allocated(img) :
             img.inode[i].nlink = Cardinality({e \in es : e[4] = i /\ e[3] # "."})
        /\ \A e \in es : e[4] \in Allocated(img)

\* When nothing went wrong, what is allocated can be reached from the root,
\* and a directory has one name, in the directory its ".." is for.
DirectoriesFormTree ==
  img.mishap = {} =>
    /\ Below(img, {root_inode}) = Allocated(img)
    /\ \A d \in Dirs(img) :
         LET up == {e[4] : e \in {x \in Entries(img) : x[1] = d /\ x[3] = ".."}}
             names == {e \in Entries(img) : e[4] = d /\ e[3] \notin {".", ".."}}
         IN  IF d = root_inode THEN names = {} /\ up = {d}
             ELSE Cardinality(names) = 1 /\ up = {e[1] : e \in names}

\* The image the commands of opfs.c leave is a consistent file system.
FsConsistent == BlocksOwnedOnce /\ BitmapExact /\ LinksExact /\ DirectoriesFormTree

\* As long as nothing has gone wrong, the commands that only look agree with the image:
\* get prints the content, info lists every block of an inode (no zero comes
\* before one), and diskinfo counts as used the blocks that info lists for
\* the inodes and the ones before the data.
ReportsAgree ==
  img.mishap = {} =>
    LET listed(p) == do_info(img, p).ret
        Held(i) == {q[3] : q \in Pointers(img, i)}
        total == do_diskinfo(img)
    IN  /\ \A p \in Paths :
             LET i == Inode(img, p)
             IN  i # 0 => /\ Range(listed(p)) = Held(i) /\ Len(listed(p)) = Cardinality(Held(i))
                          /\ LET out == do_get(img, p).ret
                             IN  Len(out) = img.inode[i].size
                                 /\ \A u \in 1..Len(out) : out[u] = Content(img, i)[u - 1]
        /\ total.blocks = NMETA + Cardinality(UNION {Held(i) : i \in Allocated(img)})
        /\ total.dirs + total.files + total.devs = Cardinality(Below(img, {root_inode}))

\* A command changes what it was told to: a path that none of its arguments
\* leads to names the same inode afterwards, and a file keeps its content
\* unless a changed path names it.
OthersKept ==
  [][img' # img /\ img'.mishap = {} =>
       LET touched == {p \in Paths : \E a \in args' : IsPrefix(a, p)}
           written == {Inode(img, p) : p \in touched}
       IN  \A p \in Paths \ touched :
             LET i == Inode(img, p)
             IN  i # 0 => /\ Inode(img', p) = i
                          /\ img'.inode[i].type = img.inode[i].type
                          /\ (img.inode[i].type = T_FILE /\ i \notin written)
                             => Content(img', i) = Content(img, i)]_vars
=============================================================================
