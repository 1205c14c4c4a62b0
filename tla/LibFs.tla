------------------------------- MODULE LibFs -------------------------------
(***************************************************************************)
(* The file system image and the operations on it, tools/libfs.c, which    *)
(* opfs uses to change an image in place.                                  *)
(*                                                                         *)
(* An image is a record: the bitmap as the set of used blocks, the inodes, *)
(* the blocks, and whether fatal() has left the command by longjmp: what   *)
(* follows a fatal() in the code does not happen.  mishap is history: what *)
(* has gone wrong with a command so far, "fatal", "full" (an entry did not *)
(* fit and the command went on), "twice" (a name was added behind which    *)
(* the same name follows), "wild" (an offset that was never set was used)  *)
(* or "loop" (a directory was moved below itself).  A unit of a block is a *)
(* directory entry <<name, inum>>, a block number <<b>> of an indirect     *)
(* block, or file data <<d>>; a zeroed unit is <<>>, and so is all of a    *)
(* free block, which balloc clears before use.                             *)
(* An operation returns the image and its result; NULL is inode 0, and -1  *)
(* an error.                                                               *)
(*                                                                         *)
(* The image mkfs writes, tools/mkfs.c: inodes and blocks are taken one    *)
(* after the other and the bitmap is written at the end.                   *)
(***************************************************************************)
EXTENDS Integers, Sequences, FiniteSets, SequencesExt, FiniteSetsExt

CONSTANTS
  BSIZE,    \* units in a block
  NDIRECT,  \* direct addresses of an inode
  NINDIRECT,\* addresses in an indirect block
  ninodes,  \* inodes are 1..(ninodes - 1)
  NMETA,    \* boot, super, inode and bitmap blocks
  nblocks,  \* data blocks
  nlog      \* log blocks, which the bitmap does not mark

ASSUME LibFsAssumption ==
  /\ BSIZE \in Nat \ {0} /\ NDIRECT \in Nat \ {0} /\ NINDIRECT \in 1..BSIZE
  /\ ninodes \in Nat \ {0, 1}
  /\ NMETA \in Nat \ {0} /\ nblocks \in Nat \ {0} /\ nlog \in Nat

T_DIR == 1
T_FILE == 2
T_DEV == 3

MAXFILESIZE == (NDIRECT + NINDIRECT) * BSIZE
BUFSIZE == 2 * BSIZE
size == NMETA + nblocks + nlog
Inodes == 1..(ninodes - 1)
root_inode == 1

Zeroes == [u \in 0..(BSIZE - 1) |-> <<>>]
FreeInode == [type |-> 0, nlink |-> 0, size |-> 0, addrs |-> [n \in 0..NDIRECT |-> 0]]
Ret(img, r) == [img |-> img, ret |-> r]
fatal(img) == Ret([img EXCEPT !.fatal = TRUE, !.mishap = @ \cup {"fatal"}], 0)

-----------------------------------------------------------------------------
\* Blocks

valid_data_block(b) == NMETA <= b /\ b <= NMETA + nblocks - 1

\* The bit is set before the number is found to be one of a log block.
balloc(img) ==
  LET unset == (0..(size - 1)) \ img.used
      b == Min(unset)
      marked == [img EXCEPT !.used = @ \cup {b}]
  IN  IF unset = {} THEN fatal(img)
      ELSE IF valid_data_block(b) THEN Ret([marked EXCEPT !.blk[b] = Zeroes], b)
      ELSE fatal(marked)

\* Mutant: the bit stays set.
bfreeNothing(img, bs) == img

bfree(img, bs) ==
  LET gone == {b \in bs : valid_data_block(b)}
  IN  [img EXCEPT !.used = @ \ gone,
                  !.blk = [b \in DOMAIN @ |-> IF b \in gone THEN Zeroes ELSE @[b]]]

-----------------------------------------------------------------------------
\* Inodes

\* The first inode of type 0, cleared.
ialloc(img, type) ==
  LET unused == {i \in Inodes : img.inode[i].type = 0}
  IN  IF unused = {} THEN fatal(img)
      ELSE Ret([img EXCEPT !.inode[Min(unused)] = [FreeInode EXCEPT !.type = type]], Min(unused))

ifree(img, i) == [img EXCEPT !.inode[i].type = 0]

\* The block x just allocated becomes addrs[n] of inode i, or unit k of the
\* indirect block t.
setaddr(x, i, n) == IF x.img.fatal THEN x ELSE Ret([x.img EXCEPT !.inode[i].addrs[n] = x.ret], x.ret)
setunit(x, t, k) == IF x.img.fatal THEN x ELSE Ret([x.img EXCEPT !.blk[t][k] = <<x.ret>>], x.ret)

\* addrs[n] of inode i, allocated if it is 0.
addr(img, i, n) ==
  IF img.inode[i].addrs[n] # 0 THEN Ret(img, img.inode[i].addrs[n]) ELSE setaddr(balloc(img), i, n)

\* Block number k of the indirect block t.
indirect(t, k) ==
  IF t.img.fatal THEN t
  ELSE IF t.img.blk[t.ret][k] # <<>> THEN Ret(t.img, t.img.blk[t.ret][k][1])
  ELSE setunit(balloc(t.img), t.ret, k)

\* Block n of inode i; looking for it allocates it, also for a read.
bmap(img, i, n) ==
  IF n < NDIRECT THEN addr(img, i, n)
  ELSE IF n - NDIRECT >= NINDIRECT THEN Ret(img, 0)
  ELSE indirect(addr(img, i, NDIRECT), n - NDIRECT)

getunit(b, done, u) ==
  IF b.img.fatal THEN Ret(b.img, <<>>) ELSE Ret(b.img, Append(done, b.img.blk[b.ret][u]))
putunit(b, u, d) == IF b.img.fatal THEN b.img ELSE [b.img EXCEPT !.blk[b.ret][u] = d]

\* Up to n units from off, as the sequence read.
iread(img, i, n, off) ==
  LET get(x, k) ==
        IF x.img.fatal THEN x
        ELSE getunit(bmap(x.img, i, (off + k - 1) \div BSIZE), x.ret, (off + k - 1) % BSIZE)
  IN  IF img.inode[i].type = T_DEV \/ off > img.inode[i].size THEN Ret(img, <<>>)
      ELSE FoldLeft(get, Ret(img, <<>>), [k \in 1..Min({n, img.inode[i].size - off}) |-> k])

\* data stored at off, block by block; the units in the order of the code.
Stored(img, i, data, off) ==
  LET put(x, k) ==
        IF x.fatal THEN x
        ELSE putunit(bmap(x, i, (off + k - 1) \div BSIZE), (off + k - 1) % BSIZE, data[k])
  IN  FoldLeftDomain(put, img, data)

\* The size after a write to end, or after a cut to len.
grown(img, i, end, n) ==
  IF img.fatal THEN Ret(img, -1) ELSE Ret([img EXCEPT !.inode[i].size = Max({@, end})], n)
resized(img, i, len) == IF img.fatal THEN img ELSE [img EXCEPT !.inode[i].size = len]

\* Mutant: the size is not moved by a write behind the end.
iwriteNoSize(img, i, data, off) ==
  IF img.inode[i].type = T_DEV \/ off > img.inode[i].size \/ off + Len(data) > MAXFILESIZE
  THEN Ret(img, -1)
  ELSE Ret(Stored(img, i, data, off), Len(data))

\* The size is set last: a fatal() leaves blocks behind it.
iwrite(img, i, data, off) ==
  IF img.inode[i].type = T_DEV \/ off > img.inode[i].size \/ off + Len(data) > MAXFILESIZE
  THEN Ret(img, -1)
  ELSE grown(Stored(img, i, data, off), i, off + Len(data), Len(data))

divceil(x, y) == IF x = 0 THEN 0 ELSE (x - 1) \div y + 1

\* The blocks past len are freed, and the indirect block with its last one.
shrink(img, i, len) ==
  LET ip == img.inode[i]
      used == divceil(ip.size, BSIZE)
      keep == divceil(len, BSIZE)
      direct == {n \in 0..(NDIRECT - 1) : keep <= n /\ n < used}
      far == {k \in 0..(NINDIRECT - 1) : keep <= k + NDIRECT /\ k + NDIRECT < used}
      t == ip.addrs[NDIRECT]
      table == IF used > NDIRECT /\ keep <= NDIRECT THEN {NDIRECT} ELSE {}
      gone == {ip.addrs[n] : n \in direct \cup table} \cup {img.blk[t][k][1] : k \in far}
      cut == IF far = {} THEN img
             ELSE [img EXCEPT !.blk[t] = [k \in DOMAIN @ |-> IF k \in far THEN <<>> ELSE @[k]]]
  IN  [bfree(cut, gone) EXCEPT !.inode[i].addrs =
         [n \in 0..NDIRECT |-> IF n \in direct \cup table THEN 0 ELSE ip.addrs[n]]]

itruncate(img, i, len) ==
  IF img.inode[i].type = T_DEV \/ len > MAXFILESIZE THEN img
  ELSE IF len < img.inode[i].size THEN resized(shrink(img, i, len), i, len)
  ELSE resized(Stored(img, i, [k \in 1..(len - img.inode[i].size) |-> <<>>], img.inode[i].size), i, len)

-----------------------------------------------------------------------------
\* Directories: a name is looked up in the order of the entries.

\* The first offset from off on whose entry stop(entry) accepts, or the size.
\* stop is <<name>> for that name, <<name, 0>> for that name or an empty
\* entry, <<>> for no entry.
Stops(stop, e) ==
  \/ stop # <<>> /\ e # <<>> /\ e[1] = stop[1]
  \/ Len(stop) = 2 /\ e = <<>>

RECURSIVE scan(_, _, _, _)
scan(img, dp, stop, off) ==
  LET from(b) ==
        IF b.img.fatal \/ Stops(stop, b.img.blk[b.ret][off % BSIZE]) THEN Ret(b.img, off)
        ELSE scan(b.img, dp, stop, off + 1)
  IN  IF off >= img.inode[dp].size THEN Ret(img, off) ELSE from(bmap(img, dp, off \div BSIZE))

\* The unit at off, whose block scan has seen.
Unit(img, i, off) == bmap(img, i, off \div BSIZE).ret

EntryAt(img, dp, off) == img.blk[Unit(img, dp, off)][off % BSIZE]

\* What scan has found: the inode of the entry at s.ret of dp.
entryfound(s, dp) ==
  [img |-> s.img, off |-> s.ret,
   ret |-> IF s.img.fatal \/ s.ret >= s.img.inode[dp].size THEN 0
           ELSE EntryAt(s.img, dp, s.ret)[2]]

\* The inode of name in dp and its offset.
dlookup(img, dp, name) == entryfound(scan(img, dp, <<name>>, 0), dp)

\* The entry is written, w, and counted; behind, whether the same name follows.
entryadded(w, name, i, behind) ==
  IF w.img.fatal THEN w
  ELSE IF w.ret # 1 THEN Ret([w.img EXCEPT !.mishap = @ \cup {"full"}], -1)
  ELSE Ret([w.img EXCEPT !.mishap = @ \cup IF behind THEN {"twice"} ELSE {},
                         !.inode[i].nlink = @ + IF name = "." THEN 0 ELSE 1], 0)
entryput(s, dp, name, i) ==
  IF s.img.fatal THEN Ret(s.img, -1)
  ELSE IF s.ret < s.img.inode[dp].size /\ EntryAt(s.img, dp, s.ret) # <<>> THEN Ret(s.img, -1)
  ELSE entryadded(iwrite(s.img, dp, << <<name, i>> >>, s.ret), name, i,
                  scan(s.img, dp, <<name>>, 0).ret < s.img.inode[dp].size)

\* Takes the first empty entry, or one more at the end, and looks for the
\* name only in front of it; "." is not counted.
daddent(img, dp, name, i) == entryput(scan(img, dp, <<name, 0>>, 0), dp, name, i)

\* ".." of c, found as d, is overwritten, and w is the result.
parcounted(w, p) == IF w.ret # 1 THEN w.img ELSE [w.img EXCEPT !.inode[p].nlink = @ + 1]
parput(d, p, c, g) ==
  IF d.img.fatal THEN d.img
  ELSE parcounted(iwrite([d.img EXCEPT !.mishap = @ \cup IF d.ret # 0 THEN {} ELSE {"wild"}], c,
                         << <<"..", p>> >>, IF d.ret # 0 THEN d.off ELSE g), p)

\* ".." of c becomes p, which counts it.  In a directory without ".." the
\* offset is garbage, g.
dmkparlink(img, p, c, g) ==
  IF img.inode[p].type # T_DIR \/ img.inode[c].type # T_DIR THEN img
  ELSE parput(dlookup(img, c, ".."), p, c, g)

twoentries(img, dp) ==
  /\ ~img.fatal
  /\ Cardinality({off \in 0..(img.inode[dp].size - 1) : EntryAt(img, dp, off) # <<>>}) = 2

emptydir(img, dp) ==
  LET s == scan(img, dp, <<>>, 0) IN Ret(s.img, twoentries(s.img, dp))

-----------------------------------------------------------------------------
\* Paths: sequences of names, looked up from inode rp.

RECURSIVE ilookup(_, _, _)
ilookup(img, rp, path) ==
  LET from(d) ==
        IF d.ret = 0 \/ Len(path) = 1 THEN Ret(d.img, d.ret)
        ELSE IF d.img.inode[d.ret].type # T_DIR THEN Ret(d.img, 0)
        ELSE ilookup(d.img, d.ret, Tail(path))
  IN  IF path = <<>> THEN Ret(img, rp) ELSE from(dlookup(img, rp, Head(path)))

\* An entry more, unless the one before was fatal; the dots of directory i.
entrymore(img, dp, name, i) == IF img.fatal THEN img ELSE daddent(img, dp, name, i).img
dots(img, i, rp) == entrymore(entrymore(img, i, ".", i), i, "..", rp)
newinode(img, i) == Ret(img, IF img.fatal THEN 0 ELSE i)
inodenamed(x, rp, name, type) ==
  IF x.img.fatal THEN x
  ELSE IF type = T_DIR THEN newinode(dots(entrymore(x.img, rp, name, x.ret), x.ret, rp), x.ret)
  ELSE newinode(entrymore(x.img, rp, name, x.ret), x.ret)

\* A new inode of the type under name in rp; a directory gets "." and "..".
newentry(img, rp, name, type) == inodenamed(ialloc(img, type), rp, name, type)

RECURSIVE icreat(_, _, _, _)
icreat(img, rp, path, type) ==
  LET from(d) ==
        IF d.img.fatal THEN Ret(d.img, 0)
        ELSE IF Len(path) = 1
        THEN IF d.ret # 0 THEN Ret(d.img, 0) ELSE newentry(d.img, rp, path[1], type)
        ELSE IF d.ret = 0 THEN Ret(d.img, 0)
        ELSE IF d.img.inode[d.ret].type # T_DIR THEN Ret(d.img, 0)
        ELSE icreat(d.img, d.ret, Tail(path), type)
  IN  IF path = <<>> THEN Ret(img, 0) ELSE from(dlookup(img, rp, Head(path)))

freed(img, i) == IF img.fatal THEN img ELSE ifree(img, i)

\* The last link gone: the blocks and the inode are freed.
unlinked(img, i) ==
  IF img.inode[i].nlink = 1 THEN freed(itruncate([img EXCEPT !.inode[i].nlink = 0], i, 0), i)
  ELSE [img EXCEPT !.inode[i].nlink = @ - 1]

\* Mutant: the parent keeps the count of the ".." of a removed directory.
dropentryKeepsParent(img, rp, i, off) ==
  LET w == iwrite(img, rp, << <<>> >>, off)
  IN  IF w.ret # 1 THEN Ret(w.img, -1) ELSE Ret(unlinked(w.img, i), 0)

\* rp loses the link its child u had to it, and then the child one of its.
parless(u, rp) == IF u.ret = rp THEN [u.img EXCEPT !.inode[rp].nlink = @ - 1] ELSE u.img
childless(img, i) == IF img.fatal THEN Ret(img, -1) ELSE Ret(unlinked(img, i), 0)
erased(w, rp, i) ==
  IF w.ret # 1 THEN Ret(w.img, -1)
  ELSE childless(IF w.img.inode[i].type = T_DIR THEN parless(dlookup(w.img, i, ".."), rp) ELSE w.img, i)

\* The entry at off of rp is erased; ".." of a directory was a link to rp.
dropentry(img, rp, i, off) == erased(iwrite(img, rp, << <<>> >>, off), rp, i)

RECURSIVE iunlink(_, _, _)
iunlink(img, rp, path) ==
  LET from(d) ==
        IF d.ret = 0 THEN Ret(d.img, -1)
        ELSE IF Len(path) = 1
        THEN IF path[1] \in {".", ".."} THEN Ret(d.img, -1) ELSE dropentry(d.img, rp, d.ret, d.off)
        ELSE IF d.img.inode[d.ret].type # T_DIR THEN Ret(d.img, -1)
        ELSE iunlink(d.img, d.ret, Tail(path))
  IN  IF path = <<>> THEN Ret(img, -1) ELSE from(dlookup(img, rp, Head(path)))
-----------------------------------------------------------------------------
\* An image being made: freeinode and freeblock are the next ones.
Blank ==
  [img |-> [used |-> {}, fatal |-> FALSE, mishap |-> {},
            inode |-> [i \in Inodes |-> FreeInode],
            blk |-> [b \in NMETA..(NMETA + nblocks - 1) |-> Zeroes]],
   freeinode |-> 1, freeblock |-> NMETA]

\* ialloc of mkfs; every new inode has one link.
mkinode(m, type) ==
  [m EXCEPT !.img.inode[m.freeinode] = [FreeInode EXCEPT !.type = type, !.nlink = 1],
            !.freeinode = @ + 1]

\* iappend, one unit: the block, and the indirect block before it, are taken
\* when the first unit falls into them.
append1(m, i, unit) ==
  LET off == m.img.inode[i].size
      fbn == off \div BSIZE
      n == IF fbn < NDIRECT THEN fbn ELSE NDIRECT
      a == IF m.img.inode[i].addrs[n] = 0
           THEN [m EXCEPT !.img.inode[i].addrs[n] = m.freeblock, !.freeblock = @ + 1]
           ELSE m
      top == a.img.inode[i].addrs[n]
      k == fbn - NDIRECT
      t == IF fbn < NDIRECT \/ a.img.blk[top][k] # <<>> THEN a
           ELSE [a EXCEPT !.img.blk[top][k] = <<a.freeblock>>, !.freeblock = @ + 1]
      x == IF fbn < NDIRECT THEN top ELSE t.img.blk[top][k][1]
  IN  [t EXCEPT !.img.blk[x][off % BSIZE] = unit, !.img.inode[i].size = off + 1]

iappend(m, i, units) == FoldLeft(LAMBDA x, u : append1(x, i, u), m, units)

\* A file of the command line: its inode, its entry, its data.
addfile(m, name, len) ==
  LET made == mkinode(m, T_FILE)
      named == iappend(made, root_inode, << <<name, m.freeinode>> >>)
  IN  iappend(named, m.freeinode, [k \in 1..len |-> <<0>>])

\* Mutant: the bitmap misses the last block taken.
ballocShort(m) == [m.img EXCEPT !.used = 0..(m.freeblock - 2)]

\* balloc of mkfs: the blocks before freeblock are marked.
markused(m) == [m.img EXCEPT !.used = 0..(m.freeblock - 1)]

\* main: the root directory, the files <<name, length>>, and the size of the
\* root rounded up, by a whole block when it was full.
mkfs(files) ==
  LET root == iappend(mkinode(Blank, T_DIR), root_inode,
                      << <<".", root_inode>>, <<"..", root_inode>> >>)
      full == FoldLeft(LAMBDA x, f : addfile(x, f[1], f[2]), root, files)
  IN  markused([full EXCEPT !.img.inode[root_inode].size = (@ \div BSIZE + 1) * BSIZE])
=============================================================================
