----------------------------- MODULE LogProofs -----------------------------
(***************************************************************************)
(* Proofs about the event log, in two parts.                               *)
(*                                                                         *)
(* The file (FatLog): an append through FatFs, where the power may go or a *)
(* write may fail at any access to the card.  With no error while reading  *)
(* (without which LogKept is false, as the run of FatLogRead.cfg shows)    *)
(* the card always holds the text of the last append that succeeded, on a  *)
(* volume that is whole, for every size of volume, FAT and log.            *)
(*                                                                         *)
(* The flags (CardLog): they neither lose a request nor invent a line, for *)
(* every number of requests and of card-detect edges.                      *)
(*                                                                         *)
(* The inductive invariant of the file, Inv, says that there are clusters  *)
(* p of the log such that                                                  *)
(*   Whole    the card has p as a chain, an entry that names no more than  *)
(*            p holds, and in p the text that has to be kept;              *)
(*   Cache    what a window holds can be written over the card at any      *)
(*            time: of the FAT only marks and the next link of p, of the   *)
(*            data only what is behind the text;                           *)
(*   Pending  the accesses to come save windows and then load one that is  *)
(*            clean by then;                                               *)
(*   Place    at each step of append, what the code has established there. *)
(***************************************************************************)
EXTENDS CardLog, FatLog, SequenceTheorems, FunctionTheorems, WellFoundedInduction, TLAPS

-----------------------------------------------------------------------------
(* Where things are: the clusters the log may have, the first FAT and its   *)
(* copy, and cell i of the k-th sector of the log.                          *)

Own == Clusters \ (Others \cup {2})
FatPart == FatBase..(FatBase + FatSectors - 1)
Copies == (FatBase + FatSectors)..(DataBase - 1)
Meta == FatPart \cup {Dir}
Pos(k, i) == (k - 1) * Width + i

-----------------------------------------------------------------------------
(* The card, with the clusters p of the log and a text t that it keeps.     *)

Entries == {0, EndOfChain} \cup Own
First(p) == IF Len(p) = 0 THEN 0 ELSE p[1]
DataOf(p) == {Sector(p[k]) : k \in 1..Len(p)}
Disks == [Sectors -> [Cells -> Nat]]

\* The chain: clusters of the log alone, each named by the one before it.
Path(d, p) ==
    /\ p \in Seq(Own)
    /\ \A j, k \in 1..Len(p) : p[j] = p[k] => j = k
    /\ \A k \in 1..Len(p) : k < Len(p) => NextOf(d, p[k]) = p[k + 1]
    /\ Len(p) > 0 => NextOf(d, p[Len(p)]) \in {0, EndOfChain}

\* The k-th sector of the log has what the text has there.
OldText(b, k, t) == \A i \in Cells : Pos(k, i) < Len(t) => b[i] = t[Pos(k, i) + 1]

\* A directory entry that names no more than the chain holds.
DirOk(b, p, t) ==
    /\ b[2] \in {0, First(p)}
    /\ b[0] = 0 => b[1] = 0 /\ b[2] = 0
    /\ b[2] = 0 => b[1] = 0
    /\ b[1] <= Len(p) * Width /\ Len(t) <= b[1]

FatOk(d) ==
    /\ \A c \in Clusters : NextOf(d, c) \in Entries
    /\ \A c \in Others \cup {2} : NextOf(d, c) = EndOfChain

OthersKept(d) == \A c \in Others : d[Sector(c)] = [i \in Cells |-> 7]
TextKept(d, p, t) == \A k \in 1..Len(p) : OldText(d[Sector(p[k])], k, t)

Whole(d, p, t) ==
    /\ d \in Disks /\ t \in Seq(Nat) /\ d[Fsi][0] \in 0..LastCluster
    /\ FatOk(d) /\ OthersKept(d)
    /\ Path(d, p) /\ DirOk(d[Dir], p, t) /\ TextKept(d, p, t)

-----------------------------------------------------------------------------
(* The cache.                                                               *)

\* A cluster that can become the next one of the log.
Linkable(d, n, p) ==
    /\ n \in Own /\ \A k \in 1..Len(p) : p[k] # n
    /\ NextOf(d, n) \in {0, EndOfChain}

\* An entry in a window is that of the card, or a mark or a link to come.
EntryOk(d, v, c, p) ==
    \/ v = NextOf(d, c)
    \/ NextOf(d, c) = 0 /\ v = EndOfChain
    \/ Len(p) > 0 /\ c = p[Len(p)] /\ NextOf(d, c) = EndOfChain /\ Linkable(d, v, p)

FatWindow(d, s, b, p) ==
    \A c \in Clusters : FatSector(c) = s => EntryOk(d, b[FatCell(c)], c, p)
DataWindow(s, b, p, t) == \A k \in 1..Len(p) : s = Sector(p[k]) => OldText(b, k, t)

Loadable(p) == Meta \cup DataOf(p)

Fss == [tag : [Slots -> Sectors \cup {0}], dirty : SUBSET Slots, win : Slots, last : Slots,
        buf : [Slots -> [Cells -> Nat]], lastClust : 0..LastCluster,
        fsiFlag : BOOLEAN, fsiValid : BOOLEAN]

\* What a window may hold: sector s, with the contents b.
Window(d, s, b, p, t) ==
    /\ s \in Loadable(p) \cup {0}
    /\ FatWindow(d, s, b, p) /\ DataWindow(s, b, p, t)
    /\ s = Dir => DirOk(b, p, t)

Cache(d, f, p, t) ==
    /\ f \in Fss
    /\ f.tag[0] = f.tag[1] => f.tag[0] = 0
    /\ \A i \in Slots : Window(d, f.tag[i], f.buf[i], p, t)
    /\ \A i \in f.dirty : f.tag[i] # 0
    /\ \A i \in Slots \ f.dirty : f.tag[i] \in Meta => f.buf[i] = d[f.tag[i]]

-----------------------------------------------------------------------------
(* The accesses to come: windows are saved, FAT sectors and FSInfo are      *)
(* copied, and the last access may load a window that is clean by then.     *)

Accesses == [op : {"read", "write"}, slot : Slots, sector : Sectors, tag : Slots,
             clears : SUBSET Slots, must : BOOLEAN]

Saving(a, f) == /\ a.op = "write" /\ a.must
                /\ a.sector = f.tag[a.slot] /\ a.clears \in {{}, {a.slot}, Slots}
Copying(a, f) == /\ a.op = "write" /\ ~a.must /\ a.clears = {}
                 /\ \/ a.sector \in Copies
                    \/ a.sector = Fsi /\ f.buf[a.slot][0] \in 0..LastCluster
Loading(a, f, p) == /\ a.op = "read" /\ a.must /\ a.clears = {}
                    /\ a.slot = f.win /\ a.tag = f.win /\ a.sector \in Loadable(p)
                    /\ \A i \in Slots : f.tag[i] # a.sector

Clears(q, i) == \E k \in 1..Len(q) : i \in q[k].clears
Reads(q) == Len(q) = 1 /\ q[1].op = "read"
Writes(q) == \A k \in 1..Len(q) : q[k].op = "write"

\* Both windows are cleared at once when both have been saved.
BothSaved(d, f, q, k) ==
    q[k].clears = Slots =>
      \A i \in Slots \ {q[k].slot} :
         /\ f.tag[i] # 0
         /\ d[f.tag[i]] = f.buf[i] \/ \E l \in 1..(k - 1) : Saving(q[l], f) /\ q[l].slot = i

Pending(d, f, q, p) ==
    /\ q \in Seq(Accesses)
    /\ \A k \in 1..Len(q) :
         /\ \/ Saving(q[k], f)
            \/ Copying(q[k], f)
            \/ Loading(q[k], f, p) /\ k = Len(q)
                 /\ (f.win \in f.dirty => \E l \in 1..(k - 1) : f.win \in q[l].clears)
         /\ BothSaved(d, f, q, k)

Good(d, f, q, p, t) == Whole(d, p, t) /\ Cache(d, f, p, t) /\ Pending(d, f, q, p)

-----------------------------------------------------------------------------
(* What the steps rely on.                                                  *)

\* The text from the end of t to n is of the value m, in the windows, and on
\* the card or on its way to it.
NewText(d, f, p, t, n, m) ==
    \A k \in 1..Len(p), i \in Cells :
      Len(t) <= Pos(k, i) /\ Pos(k, i) < n =>
        /\ \A j \in Slots : f.tag[j] = Sector(p[k]) => f.buf[j][i] = m
        /\ d[Sector(p[k])][i] = m \/ \E j \in f.dirty : f.tag[j] = Sector(p[k])

\* There is an entry of the log, on the card or on its way to it.
Entered(d, f) ==
    /\ \A i \in Slots : f.tag[i] = Dir => f.buf[i][0] # 0
    /\ d[Dir][0] # 0 \/ \E i \in f.dirty : f.tag[i] = Dir

\* It names the size and the first cluster of the file.
Updated(d, f, size, start) ==
    /\ \A i \in Slots : f.tag[i] = Dir => f.buf[i][1] = size /\ f.buf[i][2] = start
    /\ \/ d[Dir][1] = size /\ d[Dir][2] = start
       \/ \E i \in f.dirty : f.tag[i] = Dir

\* The step that comes after the accesses finds sector s in the window.
Comes(f, q, r, s) ==
    r # "disk" => IF q = <<>> THEN f.tag[f.win] = s
                  ELSE q[Len(q)].op = "read" /\ q[Len(q)].sector = s
Arrives(f, q, r, c) == IF c \in Clusters THEN Comes(f, q, r, FatSector(c)) ELSE q = <<>>

\* By then window i has been saved.
Flushed(f, q, r, i) == r # "disk" => i \notin f.dirty \/ Clears(q, i)

FatClean(d, f) == \A i \in Slots : f.tag[i] \in FatPart => f.buf[i] = d[f.tag[i]]
OneFile(f, s) == \A i \in Slots : f.tag[i] \in Meta \cup {0, s}

\* The chain has j clusters and the last one says so.
Ended(d, p, j) == Len(p) = j /\ (j > 0 => NextOf(d, p[j]) = EndOfChain)

\* c is the cluster behind the first j, or its link is in the window.
NextIs(d, f, p, j, c) ==
    \/ j + 1 <= Len(p) /\ c = p[j + 1]
    \/ /\ Len(p) = j /\ Linkable(d, c, p)
       /\ j > 0 => /\ f.win \in f.dirty /\ f.tag[f.win] = FatSector(p[j])
                   /\ f.buf[f.win][FatCell(p[j])] = c

-----------------------------------------------------------------------------
(* Where append is, with the clusters p of the log.                         *)

J == fp.ptr \div Width
NoError == "error" \notin fp.flags

\* In f_lseek, at the beginning of a cluster before the end of the file.
Seeking(p) ==
    /\ call.left = call.len /\ fs.dirty = {} /\ fp.flags = {} /\ fp.dsect = 0 /\ ~Failed
    /\ fp.size = Len(old) /\ (fp.ptr % Width) = 0 /\ call.rest > 0
    /\ fp.ptr + call.rest = fp.size /\ J + 1 <= Len(p) /\ fp.clust = p[J + 1]
    /\ OneFile(fs, 0)

\* In f_write, without an error so far.
Writing(p) ==
    /\ fp.size = Len(old) /\ fp.ptr >= Len(old)
    /\ fp.ptr + call.left = Len(old) + call.len /\ NoError
Behind(p) ==
    /\ (fp.ptr % Width) = 0 /\ call.left > 0 /\ OneFile(fs, fp.dsect)
    /\ fp.dsect = 0 \/ (J > 0 /\ J <= Len(p) /\ fp.dsect = Sector(p[J]))
Inside(p) ==
    /\ (fp.ptr % Width) # 0 /\ J + 1 <= Len(p) /\ fp.clust = p[J + 1]
    /\ fp.dsect = Sector(p[J + 1]) /\ fs.dirty = {} /\ OneFile(fs, fp.dsect)

\* In create_chain, for the cluster behind the end of the file.
Stretching(p) ==
    /\ Writing(p) /\ Behind(p) /\ FatClean(disk, fs) /\ call.then = "cluster"
    /\ IF fp.ptr = 0 THEN chain.clst = 0 /\ fp.start = 0
       ELSE J > 0 /\ J <= Len(p) /\ chain.clst = p[J]
SeekingOn(p) ==
    /\ Seeking(p) /\ call.rest > Width /\ call.then = "sought"
    /\ chain.clst = fp.clust /\ ~chain.many

\* Behind f_write: what has been written and what had no room is the line.
AllSaid == NoError => fp.ptr + call.left = Len(old) + call.len /\ fp.size = fp.ptr

AtIdle == io = <<>> /\ fs = NoFs /\ fp = NoFile /\ ~Failed
AtEntry(p) ==
    /\ Comes(fs, io, res, Dir) /\ (io = <<>> \/ Reads(io)) /\ ~Failed
    /\ fp = NoFile /\ fs.dirty = {}
    /\ fs.win = 0 /\ fs.last = 0 /\ fs.tag[1] = 0 /\ OneFile(fs, 0)
    /\ Len(old) = Size(disk) /\ call.left = call.len
AtSeek(p) == Seeking(p) /\ io = <<>>
AtStretch(p) ==
    /\ io = <<>>
    /\ SeekingOn(p) \/ (Stretching(p) /\ (fs.dirty \subseteq {fs.last} \/ Ended(disk, p, J)))
AtStatus(p) ==
    /\ Arrives(fs, io, res, chain.clst) /\ chain.clst # 0
    /\ \/ (SeekingOn(p) \/ Stretching(p)) /\ ~Failed /\ (io = <<>> \/ Reads(io))
       \/ Stretching(p) /\ Ended(disk, p, J)
AtHops(p) ==
    /\ Writing(p) /\ Behind(p) /\ FatClean(disk, fs) /\ call.then = "cluster"
    /\ Arrives(fs, io, res, chain.clst) /\ chain.clst # 0
    /\ J + 1 <= Len(p) /\ chain.ncl = p[J + 1]
AtScan(p) == Stretching(p) /\ Ended(disk, p, J) /\ io = <<>>
AtFound(p) ==
    Stretching(p) /\ Ended(disk, p, J) /\ Arrives(fs, io, res, chain.ncl)
AtLink(p) ==
    /\ Writing(p) /\ Behind(p) /\ call.then = "cluster"
    /\ J > 0 /\ Ended(disk, p, J) /\ chain.clst = p[J]
    /\ Linkable(disk, chain.ncl, p) /\ Comes(fs, io, res, FatSector(chain.clst))
    /\ \A i \in Slots : fs.tag[i] = FatSector(p[J]) => fs.buf[i][FatCell(p[J])] = EndOfChain
AtSought(p) ==
    /\ Seeking(p) /\ call.rest > Width /\ io = <<>>
    /\ J + 2 <= Len(p) /\ call.ret = p[J + 2]
AtCluster(p) ==
    /\ Writing(p) /\ Behind(p) /\ io = <<>> /\ ~Failed
    /\ call.ret \in Clusters => NextIs(disk, fs, p, J, call.ret)
AtSector(p) ==
    /\ Writing(p) /\ Behind(p) /\ NextIs(disk, fs, p, J, fp.clust) /\ Len(p) > 0
    /\ Writes(io)
AtGrow(p) ==
    /\ Writing(p) /\ Behind(p) /\ NextIs(disk, fs, p, J, fp.clust) /\ Len(p) > 0
    /\ Writes(io)
    /\ Flushed(fs, io, res, fs.win)
AtCopy(p) ==
    /\ Writing(p) /\ Comes(fs, io, res, fp.dsect) /\ call.left > 0
    /\ \/ /\ Inside(p) /\ FatClean(disk, fs) /\ (io = <<>> \/ Reads(io))
          /\ io = <<>> => fs.last = fs.win
       \/ /\ (fp.ptr % Width) = 0 /\ J + 1 <= Len(p) /\ fp.dsect = Sector(p[J + 1])
          /\ io = <<>>
AtWrite(p) ==
    /\ Writing(p) /\ io = <<>>
    /\ call.left > 0 =>
         /\ FatClean(disk, fs) /\ fs.dirty \subseteq {fs.last}
         /\ \/ Inside(p) /\ \A i \in Slots : fs.tag[i] # fp.dsect
            \/ Behind(p) /\ (J > 0 => J <= Len(p) /\ fp.clust = p[J])
AtClose(p) == io = <<>> /\ AllSaid /\ (NoError => "written" \in fp.flags)
AtUpdate(p) == Comes(fs, io, res, Dir) /\ AllSaid
AtRest(p) ==
    /\ AllSaid /\ Updated(disk, fs, fp.size, fp.start) /\ Flushed(fs, io, res, 0)
AtInfo(p) == AtRest(p) /\ Flushed(fs, io, res, 1)
AtDone(p) ==
    /\ AllSaid /\ Updated(disk, fs, fp.size, fp.start) /\ fs.dirty = {} /\ ~Failed
    /\ io = <<>> \/ io = Write(0, Fsi, {}, FALSE)

Place(p) ==
    /\ call.pc = "idle" => AtIdle
    /\ call.pc = "entry" => AtEntry(p)
    /\ call.pc = "seek" => AtSeek(p)
    /\ call.pc = "stretch" => AtStretch(p)
    /\ call.pc = "status" => AtStatus(p)
    /\ call.pc = "hops" => AtHops(p)
    /\ call.pc = "scan" => AtScan(p)
    /\ call.pc = "found" => AtFound(p)
    /\ call.pc = "link" => AtLink(p)
    /\ call.pc = "sought" => AtSought(p)
    /\ call.pc = "cluster" => AtCluster(p)
    /\ call.pc = "sector" => AtSector(p)
    /\ call.pc = "grow" => AtGrow(p)
    /\ call.pc = "copy" => AtCopy(p)
    /\ call.pc = "write" => AtWrite(p)
    /\ call.pc = "close" => AtClose(p)
    /\ call.pc = "update" => AtUpdate(p)
    /\ call.pc = "rest" => AtRest(p)
    /\ call.pc = "info" => AtInfo(p)
    /\ call.pc = "done" => AtDone(p)

-----------------------------------------------------------------------------
(* The inductive invariant.                                                 *)

Begun == call.pc \in {"idle", "entry"}
Held == IF call.pc = "idle" THEN kept ELSE old

Files == [size : Nat, start : {0} \cup Own, clust : {0} \cup Own, ptr : Nat,
          dsect : Sectors \cup {0}, flags : SUBSET {"written", "error"}]
Calls == [pc : Places, rest : Nat, len : Nat, left : Nat,
          then : {"idle", "sought", "cluster"}, ret : Nat]
Chains == [clst : {0} \cup Clusters, scl : 0..LastCluster, ncl : 0..LastCluster,
           tries : Nat, many : BOOLEAN]

Typed ==
    /\ fp \in Files /\ call \in Calls /\ chain \in Chains /\ res \in {"ok", "disk"}
    /\ made \in Nat /\ old \in Seq(Nat) /\ kept \in Seq(Nat)
    /\ call.left <= call.len /\ call.len < Width /\ (io # <<>> => res = "ok")
    /\ call.pc # "idle" => call.len > 0

\* The open file, and the cache it is written through.
FileOk(p) ==
    /\ fp.start = First(p) /\ Len(old) <= fp.size /\ fp.size <= Len(p) * Width
    /\ fp.ptr <= fp.size + call.len /\ fp.ptr <= Len(p) * Width
    /\ NoError => NewText(disk, fs, p, old, fp.ptr, made)
    /\ Entered(disk, fs)

\* The window is not empty, or is about to be loaded.
InUse == fs.tag[fs.win] # 0 \/ Reads(io)

LogIs(p) ==
    /\ Good(disk, fs, io, p, Held)
    /\ Begun => disk[Dir][2] = First(p)
    /\ ~Begun => FileOk(p)
    /\ call.pc \notin {"idle", "done"} => InUse
    /\ Place(p)

Inv == Typed /\ IsStart(kept, Held) /\ \E p \in Seq(Own) : LogIs(p)

\* The layout of the volume that f_mkfs made: FSInfo in front of the FAT, its
\* copy and the data.
LEMMA Numbers ==
  /\ Width \in Nat /\ Width >= 3 /\ FatSectors \in Nat
  /\ LastCluster \in Nat /\ LastCluster >= 3 /\ EndOfChain \in Nat /\ LastCluster < EndOfChain
  /\ DiskError \in Nat /\ EndOfChain < DiskError
  /\ LastCluster < FatSectors * Width /\ Others \subseteq 3..LastCluster
  /\ Fsi = 1 /\ FatBase = 2 /\ DataBase \in Nat /\ DataBase = FatBase + 2 * FatSectors
  /\ Dir = DataBase
<1>1. FatSectors * Width \in Nat
  BY VolumeAssumption
<1> QED BY <1>1, VolumeAssumption DEF Fsi, FatBase, DataBase, Dir

\* A position in the file is a number of whole sectors and a rest, as f_lseek
\* and f_write split it.
LEMMA Division ==
  ASSUME NEW n \in Nat
  PROVE  /\ n \div Width \in Nat /\ n % Width \in Cells
         /\ n = (n \div Width) * Width + (n % Width)
<1>1. Width \in Nat /\ Width > 0
  BY Numbers
<1> HIDE DEF Cells
<1>2. n % Width \in 0..(Width - 1)
  BY <1>1
<1>3. n \div Width \in Nat
  BY <1>1
<1>4. n = Width * (n \div Width) + (n % Width)
  BY <1>1
<1> QED BY <1>1, <1>2, <1>3, <1>4 DEF Cells

\* A number of whole sectors and a place within the next are found again by /
\* and %.
LEMMA Divided ==
  ASSUME NEW k \in Nat, NEW i \in Cells
  PROVE  (k * Width + i) \div Width = k /\ (k * Width + i) % Width = i
<1>1. Width \in Nat /\ Width > 0 /\ i \in Nat /\ i < Width
  BY Numbers DEF Cells
<1>2. k * Width \in Nat
  BY <1>1
<1> DEFINE n == k * Width + i
           a == n \div Width
           b == n % Width
<1>3. n \in Nat
  BY <1>1, <1>2
<1>4. a \in Nat /\ b \in Nat /\ b < Width /\ n = a * Width + b
  BY <1>3, Division, <1>1 DEF Cells
<1> HIDE DEF a, b
<1>5. (a - k) * Width = i - b
  BY <1>1, <1>2, <1>4
<1>6. a = k
  <2>1. CASE a > k
    <3>1. (a - k) * Width >= Width
      BY <2>1, <1>1, <1>4
    <3> QED BY <3>1, <1>1, <1>4, <1>5
  <2>2. CASE a < k
    <3>1. (k - a) * Width >= Width
      BY <2>2, <1>1, <1>4
    <3>2. (k - a) * Width = b - i
      BY <1>1, <1>2, <1>4
    <3> QED BY <3>1, <3>2, <1>1, <1>4
  <2> QED BY <2>1, <2>2, <1>4
<1>7. b = i
  BY <1>1, <1>4, <1>6
<1> QED BY <1>6, <1>7 DEF a, b, n

\* The entry of a cluster is in the first FAT (get_fat, put_fat).
LEMMA FatPlace ==
  ASSUME NEW c \in Clusters
  PROVE  FatSector(c) \in FatPart /\ FatCell(c) \in Cells
<1>1. c \in Nat /\ c <= LastCluster
  BY Numbers DEF Clusters
<1> DEFINE q == c \div Width
<1>2. q \in Nat /\ FatCell(c) \in Cells /\ c = q * Width + FatCell(c)
  BY <1>1, Division DEF FatCell
<1> HIDE DEF q
<1>3. q < FatSectors
  <2>1. SUFFICES ASSUME q >= FatSectors PROVE FALSE
    BY <1>2, Numbers
  <2>2. q * Width >= FatSectors * Width
    <3>1. q - FatSectors \in Nat /\ Width \in Nat /\ FatSectors \in Nat
      BY <1>2, <2>1, Numbers
    <3>2. (q - FatSectors) * Width \in Nat
      BY <3>1
    <3>3. (q - FatSectors) * Width = q * Width - FatSectors * Width
      BY <3>1, <1>2
    <3> QED BY <3>1, <3>2, <3>3, <1>2
  <2>3. FatSectors * Width \in Nat /\ q * Width \in Nat /\ FatCell(c) \in Nat
    BY <1>2, Numbers DEF Cells
  <2> QED BY <1>1, <1>2, <2>2, <2>3, Numbers
<1> QED BY <1>2, <1>3, Numbers DEF FatSector, FatPart, q

\* No two clusters share an entry of the FAT.
LEMMA FatPlaceOnce ==
  ASSUME NEW c \in Clusters, NEW e \in Clusters,
         FatSector(c) = FatSector(e), FatCell(c) = FatCell(e)
  PROVE  c = e
<1>1. c \in Nat /\ e \in Nat
  BY Numbers DEF Clusters
<1>2. /\ c \div Width \in Nat /\ c = (c \div Width) * Width + FatCell(c)
      /\ e \div Width \in Nat /\ e = (e \div Width) * Width + FatCell(e)
  BY <1>1, Division DEF FatCell
<1>3. c \div Width = e \div Width
  BY <1>2, Numbers DEF FatSector
<1> QED BY <1>2, <1>3

\* clust2sect: each cluster has a data sector of its own, and that of cluster 2
\* is the directory.
LEMMA SectorPlace ==
  ASSUME NEW c \in Clusters
  PROVE  /\ Sector(c) \in Sectors /\ Sector(c) # 0 /\ Sector(c) # Fsi
         /\ Sector(c) \notin FatPart /\ Sector(c) \notin Copies
         /\ Sector(c) = Dir <=> c = 2
         /\ \A e \in Clusters : Sector(c) = Sector(e) => c = e
  BY Numbers DEF Clusters, Sector, Sectors, FatPart, Copies

\* FSInfo, the first FAT, its copy, the directory and the data of the log do
\* not overlap.
LEMMA Apart ==
  /\ FatPart \subseteq Sectors /\ Copies \subseteq Sectors
  /\ Dir \in Sectors /\ Fsi \in Sectors /\ 0 \notin Sectors
  /\ \A s \in FatPart : s # 0 /\ s # Fsi /\ s # Dir /\ s \notin Copies
                        /\ InFat(s) /\ s + FatSectors \in Copies
  /\ \A s \in Copies : s # 0 /\ s # Fsi /\ s # Dir /\ s \notin FatPart
  /\ Dir # 0 /\ Dir # Fsi /\ ~InFat(Dir)
  /\ \A c \in Own : c \in Clusters /\ c # 2 /\ ~InFat(Sector(c)) /\ c >= 3
  BY Numbers DEF Clusters, Sector, Sectors, FatPart, Copies, Own, InFat

\* The sector and the place in it of a position in the file.
LEMMA PosIs ==
  ASSUME NEW k \in Nat \ {0}, NEW i \in Cells
  PROVE  Pos(k, i) \in Nat /\ Pos(k, i) \div Width = k - 1 /\ Pos(k, i) % Width = i
<1>1. k - 1 \in Nat /\ Width \in Nat /\ i \in Nat
  BY Numbers DEF Cells
<1>2. (k - 1) * Width \in Nat
  BY <1>1
<1>3. ((k - 1) * Width + i) \div Width = k - 1 /\ ((k - 1) * Width + i) % Width = i
  BY <1>1, Divided
<1> QED BY <1>1, <1>2, <1>3 DEF Pos

\* Every position in the file has a sector and a place in it.
LEMMA PosOf ==
  ASSUME NEW n \in Nat
  PROVE  /\ n \div Width \in Nat /\ n % Width \in Cells
         /\ n = Pos((n \div Width) + 1, n % Width)
<1>1. n \div Width \in Nat /\ n % Width \in Cells /\ n = (n \div Width) * Width + (n % Width)
  BY Division
<1>2. ((n \div Width) + 1) - 1 = n \div Width
  BY <1>1
<1> QED BY <1>1, <1>2 DEF Pos

\* A position is within m clusters exactly if its sector is one of the first m.
LEMMA PosWithin ==
  ASSUME NEW k \in Nat \ {0}, NEW i \in Cells, NEW m \in Nat
  PROVE  m * Width \in Nat /\ (Pos(k, i) < m * Width <=> k <= m)
<1>1. k - 1 \in Nat /\ Width \in Nat /\ i \in Nat /\ i < Width /\ Width > 0
  BY Numbers DEF Cells
<1>2. (k - 1) * Width \in Nat /\ m * Width \in Nat
  BY <1>1
<1>3. CASE k <= m
  <2>1. m - k \in Nat
    BY <1>3
  <2>2. (m - k) * Width \in Nat /\ m * Width = (k - 1) * Width + Width + (m - k) * Width
    BY <1>1, <2>1
  <2> QED BY <1>1, <1>2, <1>3, <2>2 DEF Pos
<1>4. CASE k > m
  <2>1. (k - 1) - m \in Nat
    BY <1>1, <1>4
  <2>2. ((k - 1) - m) * Width \in Nat /\ (k - 1) * Width = m * Width + ((k - 1) - m) * Width
    BY <1>1, <2>1
  <2> QED BY <1>1, <1>2, <1>4, <2>2 DEF Pos
<1> QED BY <1>2, <1>3, <1>4

\* The clusters of the log are its own, and the first is what the entry names.
LEMMA PathFacts ==
  ASSUME NEW d, NEW p, Path(d, p)
  PROVE  /\ p \in Seq(Own) /\ Len(p) \in Nat
         /\ \A k \in 1..Len(p) : p[k] \in Own /\ p[k] \in Clusters /\ p[k] # 2 /\ p[k] # 0
         /\ First(p) \in Own \cup {0} /\ (First(p) = 0 <=> Len(p) = 0)
<1>1. p \in Seq(Own) /\ Len(p) \in Nat
  BY DEF Path
<1>2. \A k \in 1..Len(p) : p[k] \in Own
  BY <1>1
<1> QED BY <1>1, <1>2, Apart DEF First

-----------------------------------------------------------------------------
(* Windows are saved: what a sector of the card may be afterwards, and the  *)
(* chain, which grows by the link that was in a window.                     *)

Longer(d, p) ==
    IF Len(p) > 0 /\ NextOf(d, p[Len(p)]) \in Own
    THEN Append(p, NextOf(d, p[Len(p)])) ELSE p

Saves(d, f, e) ==
    /\ e \in Disks
    /\ \A s \in Sectors : \/ e[s] = d[s]
                          \/ \E i \in Slots : f.tag[i] = s /\ e[s] = f.buf[i]
                          \/ s \in Copies
                          \/ s = Fsi /\ e[s][0] \in 0..LastCluster

\* 0, the end mark and the error values of get_fat are no clusters.
LEMMA Ends == 0 \notin Own /\ EndOfChain \notin Own /\ EndOfChain # 0 /\ EndOfChain \notin Clusters
                /\ DiskError \notin Clusters
                /\ 1 \notin Clusters /\ 0 \notin Clusters /\ 0 \in Cells /\ 1 \in Cells /\ 2 \in Cells
  BY Numbers DEF Own, Clusters, Cells

\* What get_fat reads of the card is a cell of a sector of the first FAT.
LEMMA NextIn ==
  ASSUME NEW d \in Disks, NEW c \in Clusters
  PROVE  NextOf(d, c) \in Nat /\ NextOf(d, c) = d[FatSector(c)][FatCell(c)]
         /\ FatSector(c) \in Sectors /\ FatSector(c) \in FatPart /\ FatSector(c) # 0
BY FatPlace, Apart DEF Disks, NextOf

\* A write can make the chain on the card longer by the cluster whose link it
\* saves, and changes no other.
LEMMA LongerIs ==
  ASSUME NEW d, NEW p \in Seq(Own)
  PROVE  /\ Longer(d, p) \in Seq(Own) /\ Len(Longer(d, p)) \in {Len(p), Len(p) + 1}
         /\ \A k \in 1..Len(p) : Longer(d, p)[k] = p[k]
         /\ First(Longer(d, p)) = First(p)
         /\ Loadable(p) \subseteq Loadable(Longer(d, p))
         /\ Len(p) * Width <= Len(Longer(d, p)) * Width
<1>1. CASE Longer(d, p) = p
  BY <1>1, Numbers
<1>2. CASE Len(p) > 0 /\ NextOf(d, p[Len(p)]) \in Own
  <2> DEFINE n == NextOf(d, p[Len(p)])
  <2>1. Longer(d, p) = Append(p, n) /\ n \in Own
    BY <1>2 DEF Longer
  <2> HIDE DEF n
  <2>2. Len(Append(p, n)) = Len(p) + 1 /\ \A k \in 1..Len(p) : Append(p, n)[k] = p[k]
    BY <2>1
  <2>3. Len(p) * Width <= (Len(p) + 1) * Width
    <3>1. (Len(p) + 1) * Width = Len(p) * Width + Width
      BY Numbers
    <3> QED BY <3>1, Numbers
  <2>4. DataOf(p) \subseteq DataOf(Append(p, n))
    BY <2>2 DEF DataOf
  <2>5. First(Append(p, n)) = First(p)
    BY <2>2, <1>2 DEF First
  <2>6. Append(p, n) \in Seq(Own)
    BY <2>1
  <2> QED BY <2>1, <2>2, <2>3, <2>4, <2>5, <2>6 DEF Loadable
<1> QED BY <1>1, <1>2 DEF Longer

\* A directory entry that is right for a chain is right for one with a cluster
\* more.
LEMMA DirGrows ==
  ASSUME NEW d, NEW p \in Seq(Own), NEW b \in [Cells -> Nat], NEW t, DirOk(b, p, t)
  PROVE  DirOk(b, Longer(d, p), t)
<1>1. b[1] \in Nat /\ Len(p) * Width \in Nat /\ Len(Longer(d, p)) * Width \in Nat
  BY Ends, Numbers, LongerIs
<1> QED BY <1>1, LongerIs DEF DirOk

\* On a whole volume every cluster of the log has its sector, and the text ends
\* within them.
LEMMA WholeFacts ==
  ASSUME NEW d, NEW p, NEW t, Whole(d, p, t)
  PROVE  /\ d \in Disks /\ t \in Seq(Nat) /\ p \in Seq(Own) /\ Len(p) \in Nat
         /\ Len(t) \in Nat /\ Len(p) * Width \in Nat /\ Len(t) <= Len(p) * Width
         /\ d[Dir] \in [Cells -> Nat]
         /\ \A k \in 1..Len(p) : /\ p[k] \in Own /\ p[k] \in Clusters /\ p[k] # 2 /\ p[k] # 0
                                 /\ Sector(p[k]) \in Sectors /\ d[Sector(p[k])] \in [Cells -> Nat]
         /\ \A k \in Nat \ {0}, i \in Cells : k > Len(p) => ~(Pos(k, i) < Len(t))
<1>1. d \in Disks /\ t \in Seq(Nat) /\ Path(d, p) /\ DirOk(d[Dir], p, t)
  BY DEF Whole
<1>2. d[Dir] \in [Cells -> Nat]
  BY <1>1, Apart DEF Disks
<1>3. d[Dir][1] \in Nat /\ d[Dir][1] <= Len(p) * Width /\ Len(t) <= d[Dir][1]
  BY <1>1, <1>2, Ends DEF DirOk
<1>4. p \in Seq(Own) /\ Len(p) \in Nat /\ Len(t) \in Nat /\ Len(p) * Width \in Nat
  BY <1>1, Numbers DEF Path
<1>5. \A k \in 1..Len(p) : p[k] \in Own /\ p[k] \in Clusters /\ p[k] # 2 /\ p[k] # 0
  BY <1>1, PathFacts
<1>6. \A k \in 1..Len(p) : Sector(p[k]) \in Sectors /\ d[Sector(p[k])] \in [Cells -> Nat]
  BY <1>1, <1>5, SectorPlace DEF Disks
<1>7. ASSUME NEW k \in Nat \ {0}, NEW i \in Cells, k > Len(p) PROVE ~(Pos(k, i) < Len(t))
  <2>1. ~(Pos(k, i) < Len(p) * Width) /\ Pos(k, i) \in Nat
    BY <1>4, <1>7, PosWithin, PosIs
  <2> QED BY <2>1, <1>3, <1>4
<1> QED BY <1>1, <1>2, <1>3, <1>4, <1>5, <1>6, <1>7

\* The two windows are of the volume and no sector is in both.
LEMMA CacheFacts ==
  ASSUME NEW d, NEW f, NEW p, NEW t, Cache(d, f, p, t)
  PROVE  /\ f \in Fss /\ f.dirty \subseteq Slots /\ f.win \in Slots /\ f.last \in Slots
         /\ \A i \in Slots : /\ f.tag[i] \in Loadable(p) \cup {0} /\ f.tag[i] \in Sectors \cup {0}
                             /\ f.buf[i] \in [Cells -> Nat]
                             /\ Window(d, f.tag[i], f.buf[i], p, t)
         /\ \A i, j \in Slots : f.tag[i] = f.tag[j] /\ f.tag[i] # 0 => i = j
BY DEF Cache, Fss, Window, Slots

\* move_window loads a FAT sector, the directory or data of the log, never
\* FSInfo, a copy or another file.
LEMMA LoadableIs ==
  ASSUME NEW p \in Seq(Own), NEW s \in Loadable(p)
  PROVE  /\ s \in Sectors /\ s # 0 /\ s # Fsi /\ s \notin Copies
         /\ \A c \in Others : s # Sector(c)
<1>1. CASE s \in Meta
  <2>1. \A c \in Others : c \in Clusters /\ c # 2
    BY Numbers DEF Clusters
  <2> QED BY <1>1, <2>1, Apart, SectorPlace DEF Meta
<1>2. CASE s \in DataOf(p)
  <2>1. PICK k \in 1..Len(p) : s = Sector(p[k])
    BY <1>2 DEF DataOf
  <2>2. p[k] \in Own /\ p[k] \in Clusters /\ p[k] \notin Others
    BY DEF Own
  <2>3. \A c \in Others : c \in Clusters
    BY Numbers DEF Clusters
  <2> QED BY <2>1, <2>2, <2>3, SectorPlace, Apart
<1> QED BY <1>1, <1>2 DEF Loadable

\* What a FAT entry may have become when a window was saved: what it was, a
\* mark for the end, or the link of the last cluster to a free one.
LEMMA SavedEntry ==
  ASSUME NEW d, NEW f, NEW p, NEW t, NEW e, Whole(d, p, t), Cache(d, f, p, t),
         Saves(d, f, e), NEW c \in Clusters
  PROVE  EntryOk(d, NextOf(e, c), c, p)
<1>1. FatSector(c) \in FatPart /\ FatSector(c) \in Sectors /\ FatSector(c) # 0
  BY FatPlace, Apart
<1>2. FatSector(c) \notin Copies /\ FatSector(c) # Fsi
  BY <1>1, Apart
<1>3. CASE e[FatSector(c)] = d[FatSector(c)]
  BY <1>3 DEF EntryOk, NextOf
<1>4. CASE \E i \in Slots : f.tag[i] = FatSector(c) /\ e[FatSector(c)] = f.buf[i]
  <2>1. PICK i \in Slots : f.tag[i] = FatSector(c) /\ e[FatSector(c)] = f.buf[i]
    BY <1>4
  <2>2. FatWindow(d, f.tag[i], f.buf[i], p)
    BY CacheFacts DEF Window
  <2>3. EntryOk(d, f.buf[i][FatCell(c)], c, p)
    BY <2>1, <2>2 DEF FatWindow
  <2>4. NextOf(e, c) = f.buf[i][FatCell(c)]
    BY <2>1 DEF NextOf
  <2> QED BY <2>3, <2>4
<1> QED BY <1>1, <1>2, <1>3, <1>4 DEF Saves

\* An entry of the chain that is followed has not changed when a window was
\* saved, and another one has at most been marked.
LEMMA SavedLinks ==
  ASSUME NEW d, NEW f, NEW p, NEW t, NEW e, Whole(d, p, t), Cache(d, f, p, t),
         Saves(d, f, e)
  PROVE  /\ FatOk(e)
         /\ \A k \in 1..Len(p) : k < Len(p) => NextOf(e, p[k]) = NextOf(d, p[k])
         /\ \A n : Linkable(d, n, p) => Linkable(e, n, p)
         /\ Len(p) > 0 /\ NextOf(e, p[Len(p)]) \in Own => Linkable(d, NextOf(e, p[Len(p)]), p)
         /\ Len(p) > 0 /\ NextOf(e, p[Len(p)]) \notin Own =>
              NextOf(e, p[Len(p)]) \in {0, EndOfChain}
<1>1. \A c \in Clusters : EntryOk(d, NextOf(e, c), c, p)
  BY SavedEntry
<1>2. /\ FatOk(d) /\ Path(d, p) /\ p \in Seq(Own) /\ Len(p) \in Nat
      /\ \A k \in 1..Len(p) : p[k] \in Own /\ p[k] \in Clusters /\ p[k] # 0
  BY WholeFacts DEF Whole
<1>3. FatOk(e)
  <2>1. \A c \in Clusters : NextOf(e, c) \in Entries
    BY <1>1, <1>2 DEF EntryOk, FatOk, Entries, Linkable
  <2>2. ASSUME NEW c \in Others \cup {2} PROVE NextOf(e, c) = EndOfChain
    <3>1. c \in Clusters /\ c \notin Own
      BY Numbers DEF Clusters, Own
    <3>2. NextOf(d, c) = EndOfChain
      BY <1>2 DEF FatOk
    <3>3. Len(p) > 0 => c # p[Len(p)]
      BY <3>1, <1>2
    <3> QED BY <1>1, <3>1, <3>2, <3>3, Ends DEF EntryOk
  <2> QED BY <2>1, <2>2 DEF FatOk
<1>4. ASSUME NEW k \in 1..Len(p), k < Len(p) PROVE NextOf(e, p[k]) = NextOf(d, p[k])
  <2>1. NextOf(d, p[k]) = p[k + 1] /\ p[k + 1] \in Own
    BY <1>2, <1>4 DEF Path
  <2>2. p[k] # p[Len(p)]
    BY <1>2, <1>4 DEF Path
  <2>3. EntryOk(d, NextOf(e, p[k]), p[k], p)
    BY <1>1, <1>2
  <2> QED BY <2>1, <2>2, <2>3, Ends DEF EntryOk
<1>5. ASSUME NEW n, Linkable(d, n, p) PROVE Linkable(e, n, p)
  <2>1. n \in Own /\ n \in Clusters /\ \A k \in 1..Len(p) : p[k] # n
    BY <1>5, Apart DEF Linkable
  <2>2. EntryOk(d, NextOf(e, n), n, p) /\ NextOf(d, n) \in {0, EndOfChain}
    BY <1>1, <2>1, <1>5 DEF Linkable
  <2>3. NextOf(e, n) \in {0, EndOfChain}
    BY <2>1, <2>2, <1>2 DEF EntryOk
  <2> QED BY <2>1, <2>3 DEF Linkable
<1>6. ASSUME Len(p) > 0
      PROVE  IF NextOf(e, p[Len(p)]) \in Own THEN Linkable(d, NextOf(e, p[Len(p)]), p)
             ELSE NextOf(e, p[Len(p)]) \in {0, EndOfChain}
  <2>1. p[Len(p)] \in Clusters /\ NextOf(d, p[Len(p)]) \in {0, EndOfChain}
    BY <1>2, <1>6 DEF Path
  <2>2. EntryOk(d, NextOf(e, p[Len(p)]), p[Len(p)], p)
    BY <1>1, <2>1
  <2>3. CASE NextOf(e, p[Len(p)]) \in Own
    BY <2>1, <2>2, <2>3, Ends DEF EntryOk
  <2>4. CASE NextOf(e, p[Len(p)]) \notin Own
    BY <2>1, <1>3, <2>4 DEF FatOk, Entries
  <2> QED BY <2>3, <2>4
<1> QED BY <1>3, <1>4, <1>5, <1>6

\* After a window was saved the clusters of the log are a chain, perhaps with
\* one more.
LEMMA SavedPath ==
  ASSUME NEW d, NEW f, NEW p, NEW t, NEW e, Whole(d, p, t), Cache(d, f, p, t),
         Saves(d, f, e)
  PROVE  Path(e, Longer(e, p))
<1>1. /\ Path(d, p) /\ p \in Seq(Own) /\ Len(p) \in Nat
      /\ \A k \in 1..Len(p) : p[k] \in Own
  BY WholeFacts DEF Whole
<1>2. \A k \in 1..Len(p) : k < Len(p) => NextOf(e, p[k]) = p[k + 1]
  BY <1>1, SavedLinks DEF Path
<1>3. CASE Len(p) > 0 /\ NextOf(e, p[Len(p)]) \in Own
  <2> DEFINE n == NextOf(e, p[Len(p)])
             q == Append(p, n)
  <2>1. Longer(e, p) = q /\ n \in Own
    BY <1>3 DEF Longer
  <2>2. Linkable(d, n, p) /\ Linkable(e, n, p)
    BY <1>3, SavedLinks
  <2>3. n = NextOf(e, p[Len(p)])
    OBVIOUS
  <2> HIDE DEF n
  <2>4. q \in Seq(Own) /\ Len(q) = Len(p) + 1 /\ q[Len(p) + 1] = n
        /\ \A k \in 1..Len(p) : q[k] = p[k]
    BY <2>1, <1>1
  <2> HIDE DEF q
  <2>5. \A j, k \in 1..Len(q) : q[j] = q[k] => j = k
    <3> SUFFICES ASSUME NEW j \in 1..Len(q), NEW k \in 1..Len(q), q[j] = q[k] PROVE j = k
      OBVIOUS
    <3>1. j \in 1..Len(p) \/ j = Len(p) + 1
      BY <2>4, <1>1
    <3>2. k \in 1..Len(p) \/ k = Len(p) + 1
      BY <2>4, <1>1
    <3> QED BY <3>1, <3>2, <2>4, <2>2, <1>1 DEF Linkable, Path
  <2>6. ASSUME NEW k \in 1..Len(q), k < Len(q) PROVE NextOf(e, q[k]) = q[k + 1]
    <3>1. k \in 1..Len(p)
      BY <2>4, <1>1, <2>6
    <3>2. CASE k < Len(p)
      <4>1. k + 1 \in 1..Len(p)
        BY <3>2, <1>1
      <4> QED BY <3>1, <3>2, <4>1, <2>4, <1>2
    <3>3. CASE k = Len(p)
      BY <3>1, <3>3, <2>3, <2>4
    <3> QED BY <3>1, <3>2, <3>3, <1>1
  <2>7. NextOf(e, q[Len(q)]) \in {0, EndOfChain}
    BY <2>2, <2>4 DEF Linkable
  <2> QED BY <2>1, <2>4, <2>5, <2>6, <2>7 DEF Path
<1>4. CASE ~(Len(p) > 0 /\ NextOf(e, p[Len(p)]) \in Own)
  <2>1. Longer(e, p) = p
    BY <1>4 DEF Longer
  <2>2. Len(p) > 0 => NextOf(e, p[Len(p)]) \in {0, EndOfChain}
    BY <1>4, SavedLinks
  <2> QED BY <2>1, <2>2, <1>1, <1>2 DEF Path
<1> QED BY <1>3, <1>4

\* After a window was saved, in whatever order write_window does it, the volume
\* is whole and keeps the same text.
LEMMA SavedWhole ==
  ASSUME NEW d, NEW f, NEW p, NEW t, NEW e, Whole(d, p, t), Cache(d, f, p, t),
         Saves(d, f, e)
  PROVE  Whole(e, Longer(e, p), t)
<1> DEFINE q == Longer(e, p)
<1>1. /\ d \in Disks /\ t \in Seq(Nat) /\ p \in Seq(Own) /\ e \in Disks /\ Len(p) \in Nat
      /\ d[Fsi][0] \in 0..LastCluster /\ OthersKept(d) /\ DirOk(d[Dir], p, t)
  BY WholeFacts DEF Whole, Saves
<1>2. FatOk(e) /\ Path(e, q)
  BY SavedLinks, SavedPath
<1>3. e[Fsi][0] \in 0..LastCluster
  <2>1. \A i \in Slots : f.tag[i] # Fsi
    BY CacheFacts, LoadableIs, <1>1 DEF Fsi
  <2> QED BY <2>1, <1>1, Apart DEF Saves
<1>4. OthersKept(e)
  <2> SUFFICES ASSUME NEW c \in Others PROVE e[Sector(c)] = d[Sector(c)]
    BY <1>1 DEF OthersKept
  <2>1. c \in Clusters
    BY Numbers DEF Clusters
  <2>2. Sector(c) \in Sectors /\ Sector(c) # 0 /\ Sector(c) # Fsi /\ Sector(c) \notin Copies
    BY <2>1, SectorPlace
  <2>3. \A i \in Slots : f.tag[i] # Sector(c)
    BY CacheFacts, LoadableIs, <1>1, <2>2
  <2> QED BY <2>2, <2>3 DEF Saves
<1>5. DirOk(e[Dir], q, t)
  <2>1. e[Dir] = d[Dir] \/ \E i \in Slots : f.tag[i] = Dir /\ e[Dir] = f.buf[i]
    BY Apart DEF Saves
  <2>2. \A i \in Slots : f.tag[i] = Dir => DirOk(f.buf[i], p, t)
    BY CacheFacts DEF Window
  <2>3. DirOk(e[Dir], p, t) /\ e[Dir] \in [Cells -> Nat]
    BY <2>1, <2>2, <1>1, Apart DEF Disks
  <2> QED BY <2>3, <1>1, DirGrows
<1>6. TextKept(e, q, t)
  <2>1. q \in Seq(Own) /\ Len(q) \in Nat /\ Len(q) >= Len(p) /\ \A k \in 1..Len(p) : q[k] = p[k]
    BY LongerIs, <1>1
  <2> SUFFICES ASSUME NEW k \in 1..Len(q) PROVE OldText(e[Sector(q[k])], k, t)
    BY DEF TextKept
  <2> HIDE DEF q
  <2>2. CASE k \in 1..Len(p)
    <3>1. q[k] = p[k] /\ p[k] \in Clusters
      BY <2>1, <2>2, WholeFacts
    <3> DEFINE s == Sector(p[k])
    <3>2. s \in Sectors /\ s # Fsi /\ s \notin Copies
      BY <3>1, SectorPlace
    <3>3. OldText(d[s], k, t)
      BY <2>2 DEF Whole, TextKept
    <3>4. \A i \in Slots : f.tag[i] = s => OldText(f.buf[i], k, t)
      BY CacheFacts, <2>2 DEF Window, DataWindow
    <3>5. e[s] = d[s] \/ \E i \in Slots : f.tag[i] = s /\ e[s] = f.buf[i]
      BY <3>2 DEF Saves
    <3>6. OldText(e[s], k, t)
      BY <3>3, <3>4, <3>5
    <3> QED BY <3>1, <3>6
  <2>3. CASE k > Len(p)
    BY <2>1, <2>3, WholeFacts DEF OldText
  <2> QED BY <2>1, <2>2, <2>3, <1>1
<1> QED BY <1>1, <1>2, <1>3, <1>4, <1>5, <1>6 DEF Whole

\* Saving a window leaves what both windows hold compatible with the card.
LEMMA SavedCache ==
  ASSUME NEW d, NEW f, NEW p, NEW t, NEW e, Whole(d, p, t), Cache(d, f, p, t),
         Saves(d, f, e)
  PROVE  Cache(e, f, Longer(e, p), t)
<1> DEFINE q == Longer(e, p)
<1>1. /\ p \in Seq(Own) /\ Len(p) \in Nat /\ q \in Seq(Own) /\ Len(q) >= Len(p) /\ Len(q) \in Nat
      /\ Loadable(p) \subseteq Loadable(q) /\ \A k \in 1..Len(p) : q[k] = p[k]
  BY WholeFacts, LongerIs
<1>2. /\ f \in Fss /\ f.dirty \subseteq Slots
      /\ f.tag[0] = f.tag[1] => f.tag[0] = 0
      /\ \A i \in f.dirty : f.tag[i] # 0
      /\ \A i \in Slots \ f.dirty : f.tag[i] \in Meta => f.buf[i] = d[f.tag[i]]
  BY CacheFacts DEF Cache
<1>3. ASSUME NEW i \in Slots PROVE Window(e, f.tag[i], f.buf[i], q, t)
  <2>1. /\ Window(d, f.tag[i], f.buf[i], p, t) /\ f.buf[i] \in [Cells -> Nat]
        /\ \A j \in Slots : f.tag[i] = f.tag[j] /\ f.tag[i] # 0 => i = j
    BY CacheFacts
  <2>2. f.tag[i] \in Loadable(q) \cup {0}
    BY <2>1, <1>1 DEF Window
  <2>3. ASSUME NEW c \in Clusters, FatSector(c) = f.tag[i]
        PROVE  EntryOk(e, f.buf[i][FatCell(c)], c, q)
    <3> DEFINE v == f.buf[i][FatCell(c)]
    <3>1. EntryOk(d, v, c, p)
      BY <2>1, <2>3 DEF Window, FatWindow
    <3>2. /\ FatSector(c) \in Sectors /\ FatSector(c) # Fsi /\ FatSector(c) \notin Copies
          /\ FatSector(c) # 0
      BY FatPlace, Apart
    <3>3. CASE e[FatSector(c)] = d[FatSector(c)]
      <4>1. NextOf(e, c) = NextOf(d, c)
        BY <3>3 DEF NextOf
      <4>2. CASE Len(p) > 0 /\ c = p[Len(p)] /\ NextOf(d, c) = EndOfChain /\ Linkable(d, v, p)
        <5>1. q = p
          BY <4>1, <4>2, Ends DEF Longer
        <5>2. Linkable(e, v, p)
          BY <4>2, SavedLinks
        <5> QED BY <4>1, <4>2, <5>1, <5>2 DEF EntryOk
      <4> QED BY <3>1, <4>1, <4>2 DEF EntryOk
    <3>4. CASE \E j \in Slots : f.tag[j] = FatSector(c) /\ e[FatSector(c)] = f.buf[j]
      <4>1. e[FatSector(c)] = f.buf[i]
        BY <3>2, <3>4, <2>1, <2>3
      <4> QED BY <4>1 DEF NextOf, EntryOk
    <3> QED BY <3>2, <3>3, <3>4 DEF Saves
  <2>4. ASSUME NEW k \in 1..Len(q), f.tag[i] = Sector(q[k]) PROVE OldText(f.buf[i], k, t)
    <3>1. CASE k \in 1..Len(p)
      BY <3>1, <2>1, <2>4, <1>1 DEF Window, DataWindow
    <3>2. CASE k > Len(p)
      BY <3>2, <1>1, WholeFacts DEF OldText
    <3> HIDE DEF q
    <3> QED BY <1>1, <3>1, <3>2
  <2>5. f.tag[i] = Dir => DirOk(f.buf[i], q, t)
    BY <2>1, <1>1, DirGrows DEF Window
  <2> QED BY <2>2, <2>3, <2>4, <2>5 DEF Window, FatWindow, DataWindow
<1>4. ASSUME NEW i \in Slots \ f.dirty, f.tag[i] \in Meta PROVE f.buf[i] = e[f.tag[i]]
  <2>1. f.buf[i] = d[f.tag[i]] /\ f.tag[i] \in Sectors /\ f.tag[i] # Fsi /\ f.tag[i] \notin Copies
        /\ f.tag[i] # 0
    BY <1>2, <1>4, Apart DEF Meta
  <2>2. \A j \in Slots : f.tag[j] = f.tag[i] => i = j
    BY <2>1, CacheFacts
  <2> QED BY <2>1, <2>2 DEF Saves
<1> QED BY <1>2, <1>3, <1>4 DEF Cache

-----------------------------------------------------------------------------
(* The accesses of a step, from the card d with the cache f, the accesses q *)
(* and the result r: a write, which may fail, and a read.                   *)

Done(d, f, a) == [d EXCEPT ![a.sector] = f.buf[a.slot]]
Written(d, f, q, r, e, g, u, v) ==
    /\ q # <<>> /\ Head(q).op = "write"
    /\ \/ /\ e = Done(d, f, Head(q)) /\ g = [f EXCEPT !.dirty = @ \ Head(q).clears]
          /\ u = Tail(q) /\ v = r
       \/ /\ e \in {d, Done(d, f, Head(q))} /\ g = f
          /\ \/ Head(q).must /\ u = <<>> /\ v = "disk"
             \/ ~Head(q).must /\ u = Tail(q) /\ v = r
IsRead(d, f, q, g) ==
    /\ q # <<>> /\ Head(q).op = "read"
    /\ g = [f EXCEPT !.buf[Head(q).slot] = d[Head(q).sector],
                     !.tag[Head(q).tag] = Head(q).sector, !.last = Head(q).tag]

\* A cache of which fewer windows are dirty.
Cleaner(f, g) ==
    /\ f \in Fss /\ g \in Fss /\ g.tag = f.tag /\ g.buf = f.buf /\ g.win = f.win /\ g.last = f.last
    /\ g.dirty \subseteq f.dirty /\ g.lastClust = f.lastClust
    /\ g.fsiFlag = f.fsiFlag /\ g.fsiValid = f.fsiValid

\* The accesses to come are one and then the rest.
LEMMA HeadTail ==
  ASSUME NEW A, NEW q \in Seq(A), q # <<>>
  PROVE  /\ Head(q) = q[1] /\ Len(q) \in Nat \ {0} /\ q[1] \in A /\ Tail(q) \in Seq(A)
         /\ Len(Tail(q)) = Len(q) - 1 /\ \A k \in 1..Len(Tail(q)) : Tail(q)[k] = q[k + 1]
  OBVIOUS

\* The next access saves a window, makes a copy, or is the last and loads a
\* clean window.
LEMMA FirstAccess ==
  ASSUME NEW d, NEW f, NEW q, NEW p, Pending(d, f, q, p), q # <<>>
  PROVE  /\ Head(q) = q[1] /\ Len(q) \in Nat \ {0} /\ q[1] \in Accesses
         /\ Saving(q[1], f) \/ Copying(q[1], f) \/
              (Loading(q[1], f, p) /\ Len(q) = 1 /\ f.win \notin f.dirty)
         /\ BothSaved(d, f, q, 1)
<1>1. q \in Seq(Accesses) /\ Len(q) \in Nat \ {0} /\ Head(q) = q[1] /\ q[1] \in Accesses
  BY HeadTail DEF Pending
<1>2. 1 \in 1..Len(q) /\ ~(\E l \in 1..(1 - 1) : f.win \in q[l].clears)
  BY <1>1
<1> QED BY <1>1, <1>2 DEF Pending

\* A write that succeeded clears dirty flags and nothing else (write_window).
LEMMA CleanerIs ==
  ASSUME NEW f \in Fss, NEW S
  PROVE  /\ Cleaner(f, [f EXCEPT !.dirty = @ \ S])
         /\ [f EXCEPT !.dirty = @ \ S].dirty = f.dirty \ S
<1> DEFINE g == [f EXCEPT !.dirty = @ \ S]
<1>1. g.dirty = f.dirty \ S /\ g.tag = f.tag /\ g.buf = f.buf /\ g.win = f.win /\ g.last = f.last
      /\ g.lastClust = f.lastClust /\ g.fsiFlag = f.fsiFlag /\ g.fsiValid = f.fsiValid
  BY DEF Fss
<1>2. g \in Fss
  BY DEF Fss
<1> QED BY <1>1, <1>2 DEF Cleaner

\* A write, whether it succeeds, fails or is an ignored failure, saves at most
\* one window, and a dirty flag goes only when the card has what the window
\* holds.
LEMMA WrittenIs ==
  ASSUME NEW d, NEW f, NEW q, NEW p, NEW t, Good(d, f, q, p, t),
         NEW e, NEW g, NEW u, NEW r, NEW v, Written(d, f, q, r, e, g, u, v)
  PROVE  /\ Saves(d, f, e) /\ Cleaner(f, g)
         /\ \A i \in f.dirty \ g.dirty : e[f.tag[i]] = f.buf[i]
         /\ \/ u = <<>> /\ v = "disk"
            \/ /\ u = Tail(q) /\ v = r /\ g.dirty = f.dirty \ q[1].clears
               /\ Saving(q[1], f) => e[f.tag[q[1].slot]] = f.buf[q[1].slot]
<1> DEFINE a == q[1]
<1>1. Head(q) = a /\ a \in Accesses /\ q # <<>> /\ BothSaved(d, f, q, 1)
      /\ (Saving(a, f) \/ Copying(a, f)) /\ a.op = "write"
  BY FirstAccess DEF Written, Good, Loading
<1>2. d \in Disks /\ p \in Seq(Own) /\ f \in Fss /\ Cache(d, f, p, t)
  BY WholeFacts, CacheFacts DEF Good
<1>3. /\ a.slot \in Slots /\ a.sector \in Sectors /\ a.sector # 0 /\ a.clears \subseteq Slots
      /\ f.buf[a.slot] \in [Cells -> Nat]
  BY <1>1, <1>2, Apart DEF Accesses, Fss
<1>4. Done(d, f, a) \in Disks /\ Done(d, f, a)[a.sector] = f.buf[a.slot]
      /\ \A s \in Sectors : s # a.sector => Done(d, f, a)[s] = d[s]
  BY <1>2, <1>3 DEF Disks, Done
<1>5. Saves(d, f, Done(d, f, a))
  BY <1>1, <1>3, <1>4 DEF Saves, Saving, Copying
<1>6. Saves(d, f, d)
  BY <1>2 DEF Saves
<1>7. e \in {d, Done(d, f, a)}
  BY <1>1 DEF Written
<1>8. Cleaner(f, g) /\ (g = f \/ (g.dirty = f.dirty \ a.clears /\ e = Done(d, f, a)))
  <2>1. Cleaner(f, f)
    BY <1>2 DEF Cleaner
  <2>2. \/ e = Done(d, f, a) /\ g = [f EXCEPT !.dirty = @ \ a.clears]
        \/ g = f
    BY <1>1 DEF Written
  <2>3. CASE e = Done(d, f, a) /\ g = [f EXCEPT !.dirty = @ \ a.clears]
    <3>1. f \in Fss
      BY <1>2
    <3>2. Cleaner(f, g)
      BY <3>1, <2>3, CleanerIs
    <3>3. g.dirty = f.dirty \ a.clears
      BY <3>1, <2>3, CleanerIs
    <3> QED BY <3>2, <3>3, <2>3
  <2> QED BY <2>1, <2>2, <2>3
<1>9. ASSUME NEW i \in a.clears, Saving(a, f), e = Done(d, f, a) PROVE e[f.tag[i]] = f.buf[i]
  <2>1. CASE i = a.slot
    BY <1>4, <1>9, <2>1 DEF Saving
  <2>2. CASE i # a.slot
    <3>1. a.clears = Slots /\ i \in Slots \ {a.slot}
      BY <1>9, <2>2, <1>3 DEF Saving
    <3>2. d[f.tag[i]] = f.buf[i] /\ f.tag[i] # 0
      BY <1>1, <3>1 DEF BothSaved
    <3>3. f.tag[i] \in Sectors /\ f.tag[i] # a.sector
      BY <3>1, <3>2, <1>2, <1>3, <1>9, CacheFacts DEF Saving
    <3> QED BY <3>2, <3>3, <1>4, <1>9
  <2> QED BY <2>1, <2>2
<1>10. \A i \in f.dirty \ g.dirty : e[f.tag[i]] = f.buf[i]
  <2> SUFFICES ASSUME NEW i \in f.dirty, i \notin g.dirty PROVE e[f.tag[i]] = f.buf[i]
    OBVIOUS
  <2>1. i \in a.clears /\ e = Done(d, f, a)
    BY <1>8
  <2>2. Saving(a, f)
    BY <1>1, <2>1 DEF Copying
  <2> QED BY <2>1, <2>2, <1>9
<1>11. \/ u = <<>> /\ v = "disk"
       \/ /\ u = Tail(q) /\ v = r /\ g.dirty = f.dirty \ a.clears
          /\ Saving(a, f) => e = Done(d, f, a)
  <2>1. CASE u = <<>> /\ v = "disk"
    BY <2>1
  <2>2. CASE /\ e = Done(d, f, a) /\ g = [f EXCEPT !.dirty = @ \ a.clears]
             /\ u = Tail(q) /\ v = r
    BY <2>2, <1>2, CleanerIs
  <2>3. CASE g = f /\ ~a.must /\ u = Tail(q) /\ v = r
    <3>1. a.clears = {} /\ ~Saving(a, f)
      BY <1>1, <2>3 DEF Copying, Saving
    <3> QED BY <3>1, <2>3
  <2> QED BY <2>1, <2>2, <2>3, <1>1 DEF Written
<1>12. Saving(a, f) => Done(d, f, a)[f.tag[a.slot]] = f.buf[a.slot]
  BY <1>4 DEF Saving
<1> QED BY <1>1, <1>5, <1>6, <1>7, <1>8, <1>10, <1>11, <1>12 DEF Written

\* The cache stays right when dirty flags go for windows that the card holds.
LEMMA CacheCleaner ==
  ASSUME NEW e, NEW f, NEW g, NEW p, NEW t, Cache(e, f, p, t), Cleaner(f, g),
         \A i \in f.dirty \ g.dirty : e[f.tag[i]] = f.buf[i]
  PROVE  Cache(e, g, p, t)
BY DEF Cache, Cleaner

\* No access to come is always in order.
LEMMA NoAccess ==
  ASSUME NEW d, NEW f, NEW q, NEW p, q = <<>>
  PROVE  Pending(d, f, q, p)
<1>1. q \in Seq(Accesses) /\ Len(q) = 0
  OBVIOUS
<1> QED BY <1>1 DEF Pending

\* A write, whether or not it fails, leaves the volume whole, the cache right
\* and the accesses to come in order.
LEMMA GoodWritten ==
  ASSUME NEW d, NEW f, NEW q, NEW p, NEW t, Good(d, f, q, p, t),
         NEW e, NEW g, NEW u, NEW r, NEW v, Written(d, f, q, r, e, g, u, v)
  PROVE  Good(e, g, u, Longer(e, p), t)
<1> DEFINE w == Longer(e, p)
<1>1. Whole(d, p, t) /\ Cache(d, f, p, t) /\ Pending(d, f, q, p)
  BY DEF Good
<1>2. /\ Saves(d, f, e) /\ Cleaner(f, g)
      /\ \A i \in f.dirty \ g.dirty : e[f.tag[i]] = f.buf[i]
      /\ \/ u = <<>> /\ v = "disk"
         \/ /\ u = Tail(q) /\ v = r /\ g.dirty = f.dirty \ q[1].clears
            /\ Saving(q[1], f) => e[f.tag[q[1].slot]] = f.buf[q[1].slot]
  BY WrittenIs
<1>3. Whole(e, w, t) /\ Cache(e, g, w, t)
  BY <1>1, <1>2, SavedWhole, SavedCache, CacheCleaner
<1>4. Pending(e, g, u, w)
  <2>1. CASE u = <<>>
    <3>1. u \in Seq(Accesses) /\ Len(u) = 0
      BY <2>1
    <3> QED BY <3>1 DEF Pending
  <2>2. CASE /\ u = Tail(q) /\ g.dirty = f.dirty \ q[1].clears
             /\ Saving(q[1], f) => e[f.tag[q[1].slot]] = f.buf[q[1].slot]
    <3>1. q # <<>> /\ q \in Seq(Accesses) /\ p \in Seq(Own)
      BY <1>1, WholeFacts DEF Pending, Written
    <3>2. /\ Len(q) \in Nat \ {0} /\ u \in Seq(Accesses) /\ Len(u) = Len(q) - 1
          /\ \A k \in 1..Len(u) : u[k] = q[k + 1]
      BY <2>2, <3>1, HeadTail
    <3>3. ASSUME NEW k \in 1..Len(u)
          PROVE  \/ Saving(u[k], g)
                 \/ Copying(u[k], g)
                 \/ Loading(u[k], g, w) /\ k = Len(u)
                      /\ (g.win \in g.dirty => \E l \in 1..(k - 1) : g.win \in u[l].clears)
      <4>1. k + 1 \in 1..Len(q) /\ u[k] = q[k + 1]
        BY <3>2
      <4>2. Saving(q[k + 1], f) => Saving(u[k], g)
        BY <4>1, <1>2 DEF Saving, Cleaner
      <4>3. Copying(q[k + 1], f) => Copying(u[k], g)
        BY <4>1, <1>2 DEF Copying, Cleaner
      <4>4. ASSUME Loading(q[k + 1], f, p), k + 1 = Len(q),
                   f.win \in f.dirty => \E l \in 1..((k + 1) - 1) : f.win \in q[l].clears
            PROVE  Loading(u[k], g, w) /\ k = Len(u)
                   /\ (g.win \in g.dirty => \E l \in 1..(k - 1) : g.win \in u[l].clears)
        <5>1. Loading(u[k], g, w) /\ k = Len(u)
          BY <4>1, <4>4, <1>2, <3>1, <3>2, LongerIs DEF Loading, Cleaner
        <5>2. ASSUME g.win \in g.dirty PROVE \E l \in 1..(k - 1) : g.win \in u[l].clears
          <6>1. f.win \in f.dirty /\ g.win = f.win /\ f.win \notin q[1].clears
            BY <5>2, <1>2, <2>2 DEF Cleaner
          <6>2. PICK l \in 1..k : f.win \in q[l].clears
            BY <6>1, <4>4
          <6>3. l - 1 \in 1..(k - 1) /\ l - 1 \in 1..Len(u) /\ (l - 1) + 1 = l
            BY <6>1, <6>2, <3>2
          <6>4. u[l - 1] = q[l]
            BY <6>3, <3>2
          <6> QED BY <6>1, <6>2, <6>3, <6>4
        <5> QED BY <5>1, <5>2
      <4> QED BY <4>1, <4>2, <4>3, <4>4, <1>1 DEF Pending
    <3>4. ASSUME NEW k \in 1..Len(u) PROVE BothSaved(e, g, u, k)
      <4>1. k + 1 \in 1..Len(q) /\ u[k] = q[k + 1] /\ BothSaved(d, f, q, k + 1)
        <5>1. k + 1 \in 1..Len(q) /\ u[k] = q[k + 1]
          BY <3>2
        <5>2. \A j \in 1..Len(q) : BothSaved(d, f, q, j)
          BY <1>1 DEF Pending
        <5> QED BY <5>1, <5>2
      <4>2. g.tag = f.tag /\ g.buf = f.buf
        BY <1>2 DEF Cleaner
      <4>3. ASSUME NEW i \in Slots \ {q[k + 1].slot}, q[k + 1].clears = Slots
            PROVE /\ f.tag[i] # 0
                  /\ e[f.tag[i]] = f.buf[i] \/ \E l \in 1..(k - 1) : Saving(u[l], g) /\ u[l].slot = i
        <5>1. /\ f.tag[i] # 0
              /\ \/ d[f.tag[i]] = f.buf[i]
                 \/ \E l \in 1..((k + 1) - 1) : Saving(q[l], f) /\ q[l].slot = i
          BY <4>1, <4>3 DEF BothSaved
        <5>2. CASE d[f.tag[i]] = f.buf[i]
          <6>1. f.tag[i] \in Loadable(p) /\ \A j \in Slots : f.tag[j] = f.tag[i] => j = i
            BY <5>1, <1>1, CacheFacts
          <6>2. f.tag[i] \in Sectors /\ f.tag[i] # Fsi /\ f.tag[i] \notin Copies
            BY <6>1, <3>1, LoadableIs
          <6> QED BY <5>1, <5>2, <6>1, <6>2, <1>2 DEF Saves
        <5>3. CASE \E l \in 1..k : Saving(q[l], f) /\ q[l].slot = i
          <6>1. PICK l \in 1..k : Saving(q[l], f) /\ q[l].slot = i
            BY <5>3
          <6>2. CASE l = 1
            BY <6>1, <6>2, <5>1, <2>2
          <6>3. CASE l # 1
            <7>1. l - 1 \in 1..(k - 1) /\ l - 1 \in 1..Len(u) /\ (l - 1) + 1 = l
              BY <6>1, <6>3, <3>2
            <7>2. u[l - 1] = q[l]
              BY <7>1, <3>2
            <7>3. Saving(u[l - 1], g) /\ u[l - 1].slot = i
              BY <7>2, <6>1, <4>2 DEF Saving
            <7> QED BY <7>1, <7>3, <5>1
          <6> QED BY <6>2, <6>3
        <5>4. k = (k + 1) - 1
          BY <3>2
        <5> QED BY <5>1, <5>2, <5>3, <5>4
      <4> QED BY <4>1, <4>2, <4>3 DEF BothSaved
    <3> QED BY <3>2, <3>3, <3>4 DEF Pending
  <2> QED BY <2>1, <2>2, <1>2
<1> QED BY <1>3, <1>4 DEF Good

\* A sector of a whole volume is what a window may hold.
LEMMA SectorIsWindow ==
  ASSUME NEW d, NEW p, NEW t, NEW s \in Loadable(p), Whole(d, p, t)
  PROVE  Window(d, s, d[s], p, t) /\ d[s] \in [Cells -> Nat]
<1>1. p \in Seq(Own) /\ d \in Disks
  BY WholeFacts
<1>2. d[s] \in [Cells -> Nat]
  BY <1>1, LoadableIs DEF Disks
<1>3. FatWindow(d, s, d[s], p)
  BY DEF FatWindow, EntryOk, NextOf
<1>4. DataWindow(s, d[s], p, t) /\ (s = Dir => DirOk(d[s], p, t))
  BY DEF DataWindow, Whole, TextKept
<1> QED BY <1>2, <1>3, <1>4 DEF Window

\* disk_read into the window: it was clean, and then holds the sector of the
\* card; the rest is as it was.
LEMMA GoodRead ==
  ASSUME NEW d, NEW f, NEW q, NEW p, NEW t, Good(d, f, q, p, t),
         NEW g, IsRead(d, f, q, g)
  PROVE  /\ Good(d, g, <<>>, p, t) /\ Tail(q) = <<>> /\ Len(q) = 1 /\ q[1] = Head(q)
         /\ Loading(q[1], f, p) /\ f.win \notin f.dirty
         /\ g.win = f.win /\ g.last = f.win /\ g.dirty = f.dirty
         /\ g.tag[f.win] = q[1].sector /\ g.buf[f.win] = d[q[1].sector]
         /\ \A i \in Slots \ {f.win} : g.tag[i] = f.tag[i] /\ g.buf[i] = f.buf[i]
<1> DEFINE a == q[1]
<1>1. /\ Head(q) = a /\ a \in Accesses /\ q # <<>> /\ Loading(a, f, p) /\ Len(q) = 1
      /\ f.win \notin f.dirty /\ q \in Seq(Accesses)
  <2>1. Pending(d, f, q, p) /\ q # <<>> /\ Head(q).op = "read"
    BY DEF Good, IsRead
  <2>2. q \in Seq(Accesses)
    BY <2>1 DEF Pending
  <2> QED BY <2>1, <2>2, FirstAccess DEF Saving, Copying
<1>2. Whole(d, p, t) /\ Cache(d, f, p, t) /\ f \in Fss /\ d \in Disks /\ p \in Seq(Own)
  BY WholeFacts, CacheFacts DEF Good
<1>3. /\ a.slot = f.win /\ a.tag = f.win /\ a.sector \in Loadable(p)
      /\ \A i \in Slots : f.tag[i] # a.sector
  BY <1>1 DEF Loading
<1>4. a.sector \in Sectors /\ a.sector # 0 /\ d[a.sector] \in [Cells -> Nat] /\ f.win \in Slots
  BY <1>2, <1>3, LoadableIs, SectorIsWindow DEF Fss
<1>5. g = [f EXCEPT !.buf[f.win] = d[a.sector], !.tag[f.win] = a.sector, !.last = f.win]
  BY <1>1, <1>3 DEF IsRead
<1>6. /\ g.win = f.win /\ g.last = f.win /\ g.dirty = f.dirty
      /\ g.tag = [f.tag EXCEPT ![f.win] = a.sector]
      /\ g.buf = [f.buf EXCEPT ![f.win] = d[a.sector]] /\ g \in Fss
  BY <1>2, <1>4, <1>5 DEF Fss
<1>7. /\ g.tag[f.win] = a.sector /\ g.buf[f.win] = d[a.sector]
      /\ \A i \in Slots \ {f.win} : g.tag[i] = f.tag[i] /\ g.buf[i] = f.buf[i]
  BY <1>2, <1>4, <1>6 DEF Fss
<1>8. Cache(d, g, p, t)
  <2>1. g.tag[0] = g.tag[1] => g.tag[0] = 0
    <3>1. 0 \in Slots /\ 1 \in Slots /\ f.win \in {0, 1}
      BY <1>4 DEF Slots
    <3>2. CASE f.win = 0
      BY <3>1, <3>2, <1>3, <1>7
    <3>3. CASE f.win = 1
      BY <3>1, <3>3, <1>3, <1>7
    <3> QED BY <3>1, <3>2, <3>3
  <2>2. ASSUME NEW i \in Slots PROVE Window(d, g.tag[i], g.buf[i], p, t)
    <3>1. CASE i = f.win
      <4>1. Window(d, a.sector, d[a.sector], p, t)
        BY <1>2, <1>3, SectorIsWindow
      <4> QED BY <4>1, <3>1, <1>7
    <3>2. CASE i # f.win
      <4>1. Window(d, f.tag[i], f.buf[i], p, t)
        BY <1>2, CacheFacts
      <4> QED BY <4>1, <3>2, <1>7
    <3> QED BY <3>1, <3>2
  <2>3. ASSUME NEW i \in g.dirty PROVE g.tag[i] # 0
    BY <1>1, <1>2, <1>6, <1>7, <2>3 DEF Cache, Fss
  <2>4. ASSUME NEW i \in Slots \ g.dirty, g.tag[i] \in Meta PROVE g.buf[i] = d[g.tag[i]]
    BY <1>2, <1>6, <1>7, <2>4 DEF Cache
  <2> QED BY <1>6, <2>1, <2>2, <2>3, <2>4 DEF Cache
<1>9. Pending(d, g, <<>>, p)
  BY NoAccess
<1>10. Tail(q) = <<>>
  <2>1. Tail(q) \in Seq(Accesses) /\ Len(Tail(q)) = 0
    BY <1>1, HeadTail
  <2> QED BY <2>1, EmptySeq
<1> QED BY <1>1, <1>2, <1>6, <1>7, <1>8, <1>9, <1>10 DEF Good

-----------------------------------------------------------------------------
(* What the steps rely on outlives the accesses: first the writes.          *)

SavesTo(d, f, e, g) ==
    /\ Saves(d, f, e) /\ Cleaner(f, g)
    /\ \A i \in f.dirty \ g.dirty : e[f.tag[i]] = f.buf[i]

Advanced(f, g, q, r, u, v) ==
    /\ q \in Seq(Accesses) /\ q # <<>> /\ q[1].op = "write"
    /\ \/ u = <<>> /\ v = "disk"
       \/ u = Tail(q) /\ v = r /\ g.dirty = f.dirty \ q[1].clears

\* A write is a step from one volume and cache to the next in which the
\* accesses to come advance.
LEMMA WrittenSaves ==
  ASSUME NEW d, NEW f, NEW q, NEW p, NEW t, Good(d, f, q, p, t),
         NEW e, NEW g, NEW u, NEW r, NEW v, Written(d, f, q, r, e, g, u, v)
  PROVE  SavesTo(d, f, e, g) /\ Advanced(f, g, q, r, u, v)
<1>1. q \in Seq(Accesses) /\ q # <<>> /\ q[1] = Head(q) /\ Head(q).op = "write"
  BY FirstAccess DEF Good, Pending, Written
<1> QED BY <1>1, WrittenIs DEF SavesTo, Advanced

\* A write does not change which sector the step behind the accesses finds in
\* its window.
LEMMA ComesWritten ==
  ASSUME NEW f, NEW g, NEW q, NEW r, NEW u, NEW v, Advanced(f, g, q, r, u, v),
         NEW s, Comes(f, q, r, s)
  PROVE  Comes(g, u, v, s)
<1> SUFFICES ASSUME v # "disk" PROVE Comes(g, u, v, s)
  BY DEF Comes
<1>1. u = Tail(q) /\ v = r /\ q \in Seq(Accesses) /\ q # <<>> /\ q[1].op = "write"
  BY DEF Advanced
<1>2. q[Len(q)].op = "read" /\ q[Len(q)].sector = s
  BY <1>1 DEF Comes
<1>3. Len(q) \in Nat \ {0} /\ Len(u) = Len(q) - 1 /\ \A k \in 1..Len(u) : u[k] = q[k + 1]
  BY <1>1, HeadTail
<1>4. Len(q) # 1
  BY <1>1, <1>2
<1>5. Len(u) \in 1..Len(u) /\ Len(u) + 1 = Len(q)
  BY <1>3, <1>4
<1>6. u # <<>> /\ u[Len(u)] = q[Len(q)]
  BY <1>3, <1>5, EmptySeq
<1> QED BY <1>2, <1>6 DEF Comes

\* A window that will have been saved still will be after a write.
LEMMA FlushedWritten ==
  ASSUME NEW d, NEW e, NEW f, NEW g, NEW q, NEW r, NEW u, NEW v, SavesTo(d, f, e, g),
         Advanced(f, g, q, r, u, v), NEW i, Flushed(f, q, r, i)
  PROVE  Flushed(g, u, v, i)
<1> SUFFICES ASSUME v # "disk", i \in g.dirty PROVE Clears(u, i)
  BY DEF Flushed
<1>1. /\ u = Tail(q) /\ v = r /\ q \in Seq(Accesses) /\ q # <<>>
      /\ i \notin q[1].clears /\ i \in f.dirty
  BY DEF Advanced, SavesTo, Cleaner
<1>2. Len(q) \in Nat \ {0} /\ Len(u) = Len(q) - 1 /\ \A k \in 1..Len(u) : u[k] = q[k + 1]
  BY <1>1, HeadTail
<1>3. PICK k \in 1..Len(q) : i \in q[k].clears
  BY <1>1 DEF Flushed, Clears
<1>4. k # 1
  BY <1>1, <1>3
<1>5. k - 1 \in 1..Len(u) /\ (k - 1) + 1 = k
  BY <1>2, <1>3, <1>4
<1>6. u[k - 1] = q[k]
  BY <1>2, <1>5
<1> QED BY <1>3, <1>5, <1>6 DEF Clears

\* A write does not bring another sector into a window.
LEMMA OneFileWritten ==
  ASSUME NEW d, NEW e, NEW f, NEW g, SavesTo(d, f, e, g), NEW s, OneFile(f, s)
  PROVE  OneFile(g, s)
BY DEF SavesTo, Cleaner, OneFile

\* A sector of the card after a write: as it was, or what the window holds that
\* it is in.
LEMMA SavedSector ==
  ASSUME NEW d, NEW f, NEW p, NEW t, NEW e, NEW g, Whole(d, p, t), SavesTo(d, f, e, g)
  PROVE  \A s \in Loadable(p) :
            e[s] = d[s] \/ \E i \in Slots : f.tag[i] = s /\ e[s] = f.buf[i]
BY LoadableIs, WholeFacts DEF SavesTo, Saves

\* While the windows hold the FAT as it is on the card, a write changes no
\* entry of it.
LEMMA CleanWritten ==
  ASSUME NEW d, NEW f, NEW p, NEW t, NEW e, NEW g, Whole(d, p, t), Cache(d, f, p, t),
         SavesTo(d, f, e, g), FatClean(d, f)
  PROVE  /\ FatClean(e, g) /\ Longer(e, p) = p
         /\ \A c \in Clusters : NextOf(e, c) = NextOf(d, c)
<1>1. p \in Seq(Own) /\ Len(p) \in Nat /\ \A k \in 1..Len(p) : p[k] \in Clusters
  BY WholeFacts
<1>2. ASSUME NEW s \in FatPart PROVE e[s] = d[s]
  <2>1. s \in Loadable(p)
    BY DEF Loadable, Meta
  <2>2. e[s] = d[s] \/ \E i \in Slots : f.tag[i] = s /\ e[s] = f.buf[i]
    BY <2>1, SavedSector
  <2> QED BY <2>2 DEF FatClean
<1>3. \A c \in Clusters : NextOf(e, c) = NextOf(d, c)
  BY <1>2, FatPlace DEF NextOf
<1>4. FatClean(e, g)
  BY <1>2 DEF FatClean, SavesTo, Cleaner
<1>5. Longer(e, p) = p
  <2>1. Len(p) > 0 => NextOf(d, p[Len(p)]) \in {0, EndOfChain}
    BY DEF Whole, Path
  <2>2. Len(p) > 0 => p[Len(p)] \in Clusters
    BY <1>1
  <2> QED BY <2>1, <2>2, <1>3, Ends DEF Longer
<1> QED BY <1>3, <1>4, <1>5

\* While the windows hold the FAT as it is on the card, a write leaves the
\* chain where it ended.
LEMMA EndedWritten ==
  ASSUME NEW d, NEW f, NEW p, NEW t, NEW e, NEW g, Whole(d, p, t), Cache(d, f, p, t),
         SavesTo(d, f, e, g), FatClean(d, f), NEW j, Ended(d, p, j)
  PROVE  Ended(e, p, j)
<1>1. Len(p) \in Nat /\ \A k \in 1..Len(p) : p[k] \in Clusters
  BY WholeFacts
<1>2. j > 0 => p[j] \in Clusters
  BY <1>1 DEF Ended
<1> QED BY <1>2, CleanWritten DEF Ended

\* With the new cluster marked in a window but not yet linked (create_chain
\* between its put_fat calls), a write does not lengthen the chain.
LEMMA MarkedWritten ==
  ASSUME NEW d, NEW f, NEW p, NEW t, NEW e, NEW g, Whole(d, p, t), Cache(d, f, p, t),
         SavesTo(d, f, e, g), NEW j, j > 0, Ended(d, p, j),
         \A i \in Slots : f.tag[i] = FatSector(p[j]) => f.buf[i][FatCell(p[j])] = EndOfChain
  PROVE  Ended(e, p, j) /\ Longer(e, p) = p
<1>1. p \in Seq(Own) /\ Len(p) \in Nat /\ p[j] \in Clusters /\ j = Len(p)
  BY WholeFacts DEF Ended
<1>2. FatSector(p[j]) \in Loadable(p)
  BY <1>1, FatPlace DEF Loadable, Meta
<1>3. NextOf(d, p[j]) = EndOfChain
  BY DEF Ended
<1>4. NextOf(e, p[j]) = EndOfChain
  BY <1>1, <1>2, <1>3, SavedSector DEF NextOf
<1> QED BY <1>1, <1>4, Ends DEF Ended, Longer

\* The next cluster of the log stays the next one when its link is written.
LEMMA NextIsWritten ==
  ASSUME NEW d, NEW f, NEW p, NEW t, NEW e, NEW g, Whole(d, p, t), Cache(d, f, p, t),
         SavesTo(d, f, e, g), NEW j \in Nat, NEW c, NextIs(d, f, p, j, c)
  PROVE  NextIs(e, g, Longer(e, p), j, c)
<1> DEFINE w == Longer(e, p)
<1>1. /\ p \in Seq(Own) /\ Len(p) \in Nat /\ Len(w) \in {Len(p), Len(p) + 1}
      /\ \A k \in 1..Len(p) : w[k] = p[k] /\ p[k] \in Clusters
  BY WholeFacts, LongerIs
<1>2. CASE j + 1 <= Len(p) /\ c = p[j + 1]
  <2>1. j + 1 \in 1..Len(p)
    BY <1>1, <1>2
  <2>2. j + 1 <= Len(w) /\ c = w[j + 1]
    <3> HIDE DEF w
    <3> QED BY <1>1, <1>2, <2>1
  <2> QED BY <2>2 DEF NextIs
<1>3. CASE Len(p) = j /\ Linkable(d, c, p) /\ j = 0
  <2>1. w = p
    BY <1>3 DEF Longer
  <2>2. Linkable(e, c, p)
    BY <1>3, SavedLinks DEF SavesTo
  <2> QED BY <1>3, <2>1, <2>2 DEF NextIs
<1>4. CASE /\ Len(p) = j /\ Linkable(d, c, p) /\ j > 0
           /\ f.win \in f.dirty /\ f.tag[f.win] = FatSector(p[j])
           /\ f.buf[f.win][FatCell(p[j])] = c
  <2>1. /\ p[j] \in Clusters /\ FatSector(p[j]) \in Loadable(p) /\ FatSector(p[j]) # 0
        /\ f.win \in Slots
    BY <1>1, <1>4, FatPlace, Apart, CacheFacts DEF Loadable, Meta
  <2>2. NextOf(d, p[j]) \in {0, EndOfChain} /\ c \in Own
    BY <1>4 DEF Whole, Path, Linkable
  <2>3. e[FatSector(p[j])] = d[FatSector(p[j])] \/ e[FatSector(p[j])] = f.buf[f.win]
    <3>1. \A i \in Slots : f.tag[i] = FatSector(p[j]) => i = f.win
      BY <2>1, <1>4, CacheFacts
    <3> QED BY <1>1, <2>1, <3>1, SavedSector
  <2>4. CASE NextOf(e, p[j]) = c
    <3>1. w = Append(p, c)
      BY <2>2, <2>4, <1>4 DEF Longer
    <3>2. Len(w) = j + 1 /\ w[j + 1] = c
      BY <3>1, <1>4, <1>1, <2>2
    <3> HIDE DEF w
    <3>3. j + 1 <= Len(w)
      BY <3>2
    <3> QED BY <3>2, <3>3 DEF NextIs, w
  <2>5. CASE NextOf(e, p[j]) # c
    <3>1. e[FatSector(p[j])] = d[FatSector(p[j])] /\ e[FatSector(p[j])] # f.buf[f.win]
      BY <2>3, <2>5, <1>4 DEF NextOf
    <3>2. NextOf(e, p[j]) = NextOf(d, p[j])
      BY <3>1 DEF NextOf
    <3>3. w = p
      BY <3>2, <2>2, <1>4, Ends DEF Longer
    <3>4. Linkable(e, c, p)
      BY <1>4, SavedLinks DEF SavesTo
    <3>5. f.win \in g.dirty
      BY <3>1, <1>4 DEF SavesTo
    <3> QED BY <3>3, <3>4, <3>5, <1>4 DEF NextIs, SavesTo, Cleaner
  <2> QED BY <2>4, <2>5
<1> QED BY <1>2, <1>3, <1>4 DEF NextIs

\* The text of the line that is in a window or on the card still is after a
\* write.
LEMMA NewTextWritten ==
  ASSUME NEW d, NEW f, NEW p, NEW t, NEW e, NEW g, Whole(d, p, t), Cache(d, f, p, t),
         SavesTo(d, f, e, g), NEW n \in Nat, n <= Len(p) * Width, NEW m,
         NewText(d, f, p, t, n, m)
  PROVE  NewText(e, g, Longer(e, p), t, n, m)
<1> DEFINE w == Longer(e, p)
<1>1. /\ p \in Seq(Own) /\ Len(p) \in Nat /\ Len(w) \in {Len(p), Len(p) + 1}
      /\ \A k \in 1..Len(p) : w[k] = p[k]
  BY WholeFacts, LongerIs
<1> SUFFICES ASSUME NEW k \in 1..Len(w), NEW i \in Cells, Len(t) <= Pos(k, i), Pos(k, i) < n
             PROVE  /\ \A j \in Slots : g.tag[j] = Sector(w[k]) => g.buf[j][i] = m
                    /\ e[Sector(w[k])][i] = m \/ \E j \in g.dirty : g.tag[j] = Sector(w[k])
  BY DEF NewText
<1> HIDE DEF w
<1>2. k \in 1..Len(p)
  <2>1. k \in Nat \ {0} /\ Len(p) * Width \in Nat
    BY <1>1, Numbers
  <2>3. Pos(k, i) \in Nat
    BY <2>1, PosIs
  <2>2. Pos(k, i) < Len(p) * Width
    BY <2>1, <2>3
  <2> QED BY <1>1, <2>1, <2>2, PosWithin
<1>3. w[k] = p[k] /\ Sector(p[k]) \in Loadable(p)
  BY <1>1, <1>2 DEF Loadable, DataOf
<1> DEFINE s == Sector(p[k])
<1>4. /\ \A j \in Slots : f.tag[j] = s => f.buf[j][i] = m
      /\ d[s][i] = m \/ \E j \in f.dirty : f.tag[j] = s
  BY <1>2 DEF NewText
<1>5. \A j \in Slots : g.tag[j] = s => g.buf[j][i] = m
  BY <1>4 DEF SavesTo, Cleaner
<1>6. e[s] = d[s] \/ \E j \in Slots : f.tag[j] = s /\ e[s] = f.buf[j]
  BY <1>1, <1>3, SavedSector
<1>7. e[s][i] = m \/ \E j \in g.dirty : g.tag[j] = s
  <2>1. CASE \E j \in Slots : f.tag[j] = s /\ e[s] = f.buf[j]
    BY <2>1, <1>4
  <2>2. CASE e[s] = d[s] /\ d[s][i] = m
    BY <2>2
  <2>3. CASE \E j \in f.dirty : f.tag[j] = s
    <3>1. PICK j \in f.dirty : f.tag[j] = s
      BY <2>3
    <3>2. j \in Slots
      BY CacheFacts
    <3>3. CASE j \in g.dirty
      BY <3>1, <3>3 DEF SavesTo, Cleaner
    <3>4. CASE j \notin g.dirty
      BY <3>1, <3>2, <3>4, <1>4 DEF SavesTo
    <3> QED BY <3>3, <3>4
  <2> QED BY <2>1, <2>2, <2>3, <1>4, <1>6
<1> HIDE DEF s
<1> QED BY <1>3, <1>5, <1>7 DEF s

\* The new entry of the log that is in a window or on the card still is after a
\* write.
LEMMA EntryWritten ==
  ASSUME NEW d, NEW f, NEW p, NEW t, NEW e, NEW g, Whole(d, p, t), Cache(d, f, p, t),
         SavesTo(d, f, e, g)
  PROVE  /\ Entered(d, f) => Entered(e, g)
         /\ \A size, start : Updated(d, f, size, start) => Updated(e, g, size, start)
<1>1. p \in Seq(Own) /\ Dir \in Loadable(p) /\ Dir # 0
  BY WholeFacts, Apart DEF Loadable, Meta
<1>2. e[Dir] = d[Dir] \/ \E i \in Slots : f.tag[i] = Dir /\ e[Dir] = f.buf[i]
  BY <1>1, SavedSector
<1>3. \A i \in f.dirty : f.tag[i] = Dir => i \in g.dirty \/ e[Dir] = f.buf[i]
  BY DEF SavesTo
<1>4. f.dirty \subseteq Slots /\ g.tag = f.tag /\ g.buf = f.buf
  BY CacheFacts DEF SavesTo, Cleaner
<1> QED BY <1>2, <1>3, <1>4 DEF Entered, Updated

(* Then the read of sector s into the current window.                       *)

LoadsIn(d, f, g, s) ==
    /\ f.win \in Slots /\ f.win \notin f.dirty /\ f.dirty \subseteq Slots
    /\ g.win = f.win /\ g.last = f.win /\ g.dirty = f.dirty
    /\ g.tag[f.win] = s /\ g.buf[f.win] = d[s]
    /\ \A i \in Slots \ {f.win} : g.tag[i] = f.tag[i] /\ g.buf[i] = f.buf[i]
    /\ \A i \in Slots : f.tag[i] # s

\* disk_read puts the sector it was asked for into the current window.
LEMMA ReadLoads ==
  ASSUME NEW d, NEW f, NEW q, NEW p, NEW t, Good(d, f, q, p, t), NEW g, IsRead(d, f, q, g)
  PROVE  LoadsIn(d, f, g, q[1].sector) /\ q[1].sector \in Loadable(p)
<1>1. f.win \in Slots /\ f.dirty \subseteq Slots
  BY CacheFacts DEF Good
<1> QED BY <1>1, GoodRead DEF LoadsIn, Loading

\* When disk_read is done, the step that waited for the sector finds it in its
\* window.
LEMMA ComesRead ==
  ASSUME NEW d, NEW f, NEW q, NEW p, NEW t, Good(d, f, q, p, t), NEW g, IsRead(d, f, q, g),
         NEW r, NEW s, Comes(f, q, r, s)
  PROVE  Comes(g, <<>>, r, s) /\ (r # "disk" => q[1].sector = s)
<1>1. Len(q) = 1 /\ g.tag[g.win] = q[1].sector
  BY GoodRead
<1>2. q # <<>>
  BY DEF IsRead
<1> QED BY <1>1, <1>2 DEF Comes

\* A read does not undo that a window has been saved.
LEMMA FlushedRead ==
  ASSUME NEW d, NEW f, NEW q, NEW p, NEW t, Good(d, f, q, p, t), NEW g, IsRead(d, f, q, g),
         NEW r, NEW i, Flushed(f, q, r, i)
  PROVE  Flushed(g, <<>>, r, i)
<1>1. Len(q) = 1 /\ q[1].clears = {} /\ g.dirty = f.dirty
  BY GoodRead DEF Loading
<1>2. ~Clears(q, i)
  BY <1>1 DEF Clears
<1> QED BY <1>1, <1>2 DEF Flushed

\* A sector that is loaded is as on the card: windows that hold the FAT of the
\* card, and at most one file's sector, do so afterwards.
LEMMA FatRead ==
  ASSUME NEW d, NEW f, NEW g, NEW s, LoadsIn(d, f, g, s)
  PROVE  /\ FatClean(d, f) => FatClean(d, g)
         /\ \A x : OneFile(f, x) /\ s \in Meta \cup {x} => OneFile(g, x)
         /\ \A c \in Clusters :
              /\ NextOf(d, c) = EndOfChain
              /\ \A i \in Slots : f.tag[i] = FatSector(c) => f.buf[i][FatCell(c)] = EndOfChain
              => \A i \in Slots : g.tag[i] = FatSector(c) => g.buf[i][FatCell(c)] = EndOfChain
<1>1. FatClean(d, f) => FatClean(d, g)
  BY DEF LoadsIn, FatClean
<1>2. \A x : OneFile(f, x) /\ s \in Meta \cup {x} => OneFile(g, x)
  BY DEF LoadsIn, OneFile
<1>3. ASSUME NEW c \in Clusters, NextOf(d, c) = EndOfChain,
             \A i \in Slots : f.tag[i] = FatSector(c) => f.buf[i][FatCell(c)] = EndOfChain,
             NEW i \in Slots, g.tag[i] = FatSector(c)
      PROVE  g.buf[i][FatCell(c)] = EndOfChain
  BY <1>3 DEF LoadsIn, NextOf
<1> QED BY <1>1, <1>2, <1>3

\* Loading a sector does not change which cluster is the next of the log.
LEMMA NextIsRead ==
  ASSUME NEW d, NEW f, NEW g, NEW s, LoadsIn(d, f, g, s), NEW p, NEW j, NEW c,
         NextIs(d, f, p, j, c)
  PROVE  NextIs(d, g, p, j, c)
BY DEF LoadsIn, NextIs

\* Loading a sector does not lose text of the line: the window it goes into was
\* clean.
LEMMA NewTextRead ==
  ASSUME NEW d, NEW f, NEW g, NEW s, LoadsIn(d, f, g, s), NEW p, NEW t, NEW n, NEW m,
         NewText(d, f, p, t, n, m)
  PROVE  NewText(d, g, p, t, n, m)
<1> SUFFICES ASSUME NEW k \in 1..Len(p), NEW i \in Cells, Len(t) <= Pos(k, i), Pos(k, i) < n
             PROVE  /\ \A j \in Slots : g.tag[j] = Sector(p[k]) => g.buf[j][i] = m
                    /\ d[Sector(p[k])][i] = m \/ \E j \in g.dirty : g.tag[j] = Sector(p[k])
  BY DEF NewText
<1>1. /\ \A j \in Slots : f.tag[j] = Sector(p[k]) => f.buf[j][i] = m
      /\ d[Sector(p[k])][i] = m \/ \E j \in f.dirty : f.tag[j] = Sector(p[k])
  BY DEF NewText
<1>2. d[Sector(p[k])][i] = m \/ \E j \in g.dirty : g.tag[j] = Sector(p[k])
  BY <1>1 DEF LoadsIn
<1>3. ASSUME NEW j \in Slots, g.tag[j] = Sector(p[k]) PROVE g.buf[j][i] = m
  <2>1. CASE j = f.win
    <3>1. s = Sector(p[k]) /\ g.buf[j] = d[s] /\ \A l \in f.dirty : f.tag[l] # s
      BY <1>3, <2>1 DEF LoadsIn
    <3> QED BY <3>1, <1>1
  <2>2. CASE j # f.win
    BY <1>1, <1>3, <2>2 DEF LoadsIn
  <2> QED BY <2>1, <2>2
<1> QED BY <1>2, <1>3

\* Loading a sector does not lose the entry of the log: the window it goes into
\* was clean.
LEMMA EntryRead ==
  ASSUME NEW d, NEW f, NEW g, NEW s, LoadsIn(d, f, g, s)
  PROVE  /\ Entered(d, f) => Entered(d, g)
         /\ \A size, start : Updated(d, f, size, start) => Updated(d, g, size, start)
BY DEF LoadsIn, Entered, Updated

-----------------------------------------------------------------------------
(* The accesses that a step asks for.                                       *)

Orders(d, f, q) ==
    /\ q \in Seq(Accesses)
    /\ \A k \in 1..Len(q) : (Saving(q[k], f) \/ Copying(q[k], f)) /\ BothSaved(d, f, q, k)

\* The accesses of two orders, one after the other.
LEMMA Joined ==
  ASSUME NEW A, NEW q \in Seq(A), NEW u \in Seq(A)
  PROVE  /\ q \o u \in Seq(A) /\ Len(q \o u) = Len(q) + Len(u)
         /\ \A k \in 1..Len(q) : (q \o u)[k] = q[k]
         /\ \A k \in 1..Len(u) : (q \o u)[Len(q) + k] = u[k]
         /\ \A k \in 1..Len(q \o u) : k \in 1..Len(q) \/ \E l \in 1..Len(u) : k = Len(q) + l
<1>1. Len(q) \in Nat /\ Len(u) \in Nat /\ Len(q \o u) = Len(q) + Len(u) /\ q \o u \in Seq(A)
  OBVIOUS
<1>2. \A k \in 1..Len(q) : (q \o u)[k] = q[k]
  OBVIOUS
<1>3. \A k \in 1..Len(u) : (q \o u)[Len(q) + k] = u[k]
  OBVIOUS
<1>4. ASSUME NEW k \in 1..Len(q \o u), k \notin 1..Len(q)
      PROVE  \E l \in 1..Len(u) : k = Len(q) + l
  <2>1. k - Len(q) \in 1..Len(u) /\ k = Len(q) + (k - Len(q))
    BY <1>1, <1>4
  <2> QED BY <2>1
<1> QED BY <1>1, <1>2, <1>3, <1>4

\* An order of no accesses is in order and clears nothing.
LEMMA NoOrders ==
  ASSUME NEW d, NEW f, NEW q, q = <<>>
  PROVE  Orders(d, f, q) /\ \A i : ~Clears(q, i)
<1>1. q \in Seq(Accesses) /\ Len(q) = 0
  OBVIOUS
<1> QED BY <1>1 DEF Orders, Clears

\* One access that saves a window or makes a copy is in order.
LEMMA OneOrder ==
  ASSUME NEW d, NEW f, NEW a \in Accesses, Saving(a, f) \/ Copying(a, f), a.clears # Slots
  PROVE  Orders(d, f, <<a>>) /\ \A i : Clears(<<a>>, i) <=> i \in a.clears
<1> DEFINE q == <<a>>
<1>1. q \in Seq(Accesses) /\ Len(q) = 1 /\ q[1] = a
  OBVIOUS
<1> HIDE DEF q
<1>2. \A k \in 1..Len(q) : k = 1
  BY <1>1
<1>3. Orders(d, f, q)
  BY <1>1, <1>2 DEF Orders, BothSaved
<1>4. \A i : Clears(q, i) <=> i \in a.clears
  BY <1>1, <1>2 DEF Clears
<1> QED BY <1>3, <1>4 DEF q

\* Orders to write that are in order are so one after the other.
LEMMA MoreOrders ==
  ASSUME NEW d, NEW f, NEW q, NEW u, Orders(d, f, q), Orders(d, f, u)
  PROVE  Orders(d, f, q \o u) /\ \A i : Clears(q \o u, i) <=> Clears(q, i) \/ Clears(u, i)
<1> DEFINE w == q \o u
<1>1. q \in Seq(Accesses) /\ u \in Seq(Accesses) /\ Len(q) \in Nat /\ Len(u) \in Nat
  BY DEF Orders
<1>2. /\ w \in Seq(Accesses) /\ Len(w) = Len(q) + Len(u)
      /\ \A k \in 1..Len(q) : w[k] = q[k]
      /\ \A k \in 1..Len(u) : w[Len(q) + k] = u[k]
      /\ \A k \in 1..Len(w) : k \in 1..Len(q) \/ \E l \in 1..Len(u) : k = Len(q) + l
  BY <1>1, Joined
<1> HIDE DEF w
<1>3. ASSUME NEW k \in 1..Len(w)
      PROVE  (Saving(w[k], f) \/ Copying(w[k], f)) /\ BothSaved(d, f, w, k)
  <2>1. CASE k \in 1..Len(q)
    <3>1. w[k] = q[k] /\ \A l \in 1..(k - 1) : l \in 1..Len(q) /\ w[l] = q[l]
      BY <1>1, <1>2, <2>1
    <3> QED BY <2>1, <3>1 DEF Orders, BothSaved
  <2>2. ASSUME NEW l \in 1..Len(u), k = Len(q) + l
        PROVE  (Saving(w[k], f) \/ Copying(w[k], f)) /\ BothSaved(d, f, w, k)
    <3>1. w[k] = u[l]
      BY <1>2, <2>2
    <3>2. \A x \in 1..(l - 1) : Len(q) + x \in 1..(k - 1) /\ x \in 1..Len(u)
      BY <1>1, <2>2
    <3>4. \A x \in 1..(l - 1) : w[Len(q) + x] = u[x]
      BY <1>2, <3>2
    <3>3. (Saving(u[l], f) \/ Copying(u[l], f)) /\ BothSaved(d, f, u, l)
      BY DEF Orders
    <3>5. ASSUME w[k].clears = Slots, NEW i \in Slots \ {w[k].slot}
          PROVE  /\ f.tag[i] # 0
                 /\ \/ d[f.tag[i]] = f.buf[i]
                    \/ \E x \in 1..(k - 1) : Saving(w[x], f) /\ w[x].slot = i
      <4>1. /\ f.tag[i] # 0
            /\ d[f.tag[i]] = f.buf[i] \/ \E x \in 1..(l - 1) : Saving(u[x], f) /\ u[x].slot = i
        BY ONLY <3>1, <3>3, <3>5 DEF BothSaved
      <4> QED BY ONLY <4>1, <3>2, <3>4
    <3>6. BothSaved(d, f, w, k)
      BY ONLY <3>5 DEF BothSaved
    <3> QED BY ONLY <3>1, <3>3, <3>6
  <2> QED BY <1>2, <2>1, <2>2
<1>4. ASSUME NEW i PROVE Clears(w, i) <=> Clears(q, i) \/ Clears(u, i)
  <2>1. ASSUME Clears(q, i) PROVE Clears(w, i)
    <3>1. PICK k \in 1..Len(q) : i \in q[k].clears
      BY <2>1 DEF Clears
    <3>2. k \in 1..Len(w) /\ w[k] = q[k]
      BY <1>1, <1>2
    <3> QED BY <3>1, <3>2 DEF Clears
  <2>2. ASSUME Clears(u, i) PROVE Clears(w, i)
    <3>1. PICK k \in 1..Len(u) : i \in u[k].clears
      BY <2>2 DEF Clears
    <3>2. Len(q) + k \in 1..Len(w) /\ w[Len(q) + k] = u[k]
      BY <1>1, <1>2
    <3> QED BY <3>1, <3>2 DEF Clears
  <2>3. ASSUME Clears(w, i) PROVE Clears(q, i) \/ Clears(u, i)
    <3>1. PICK k \in 1..Len(w) : i \in w[k].clears
      BY <2>3 DEF Clears
    <3> QED BY <1>2, <3>1 DEF Clears
  <2> QED BY <2>1, <2>2, <2>3
<1>5. Orders(d, f, w)
  BY <1>2, <1>3 DEF Orders
<1> QED BY <1>4, <1>5 DEF w

\* The sector in a window can be written, and its copy too if it is of the FAT
\* (write_window).
LEMMA InWindowIs ==
  ASSUME NEW d, NEW f, NEW p, NEW t, Whole(d, p, t), Cache(d, f, p, t),
         NEW i \in Slots, f.tag[i] # 0
  PROVE  /\ f.tag[i] \in Sectors /\ f.tag[i] \in Loadable(p)
         /\ InFat(f.tag[i]) => /\ f.tag[i] + FatSectors \in Copies /\ f.tag[i] + FatSectors \in Sectors
                               /\ f.tag[i] \in FatPart
<1>1. f.tag[i] \in Loadable(p) /\ p \in Seq(Own)
  BY CacheFacts, WholeFacts
<1>2. f.tag[i] \in Sectors
  BY <1>1, LoadableIs
<1>3. InFat(f.tag[i]) => f.tag[i] \in FatPart
  BY DEF InFat, FatPart
<1> QED BY <1>1, <1>2, <1>3, Apart

\* write_window saves the window it is given, makes the copies of a FAT sector,
\* and clears its flag.
LEMMA WriteBackIs ==
  ASSUME NEW d, NEW f, NEW p, NEW t, Whole(d, p, t), Cache(d, f, p, t),
         NEW i \in Slots, f.tag[i] # 0
  PROVE  Orders(d, f, WriteBack(f, i)) /\ Clears(WriteBack(f, i), i)
<1> DEFINE a == [op |-> "write", slot |-> i, sector |-> f.tag[i], tag |-> i,
                 clears |-> {i}, must |-> TRUE]
           b == [op |-> "write", slot |-> i, sector |-> f.tag[i] + FatSectors, tag |-> i,
                 clears |-> {}, must |-> FALSE]
<1>1. f.tag[i] \in Sectors
  BY InWindowIs
<1>2. {i} # Slots /\ {} # Slots /\ {i} \in SUBSET Slots /\ {} \in SUBSET Slots
  BY DEF Slots
<1>3. Orders(d, f, <<a>>) /\ Clears(<<a>>, i)
  <2>1. a \in Accesses /\ Saving(a, f) /\ a.clears = {i}
    BY <1>1, <1>2 DEF Accesses, Saving
  <2> QED BY <2>1, <1>2, OneOrder
<1>4. CASE InFat(f.tag[i])
  <2>1. b \in Accesses /\ Copying(b, f) /\ b.clears = {}
    BY <1>2, <1>4, InWindowIs DEF Accesses, Copying
  <2>2. Orders(d, f, <<b>>)
    BY <2>1, <1>2, OneOrder
  <2>3. WriteBack(f, i) = <<a>> \o <<b>>
    BY <1>4 DEF WriteBack, Write
  <2> HIDE DEF a, b
  <2>4. Orders(d, f, <<a>> \o <<b>>)
    BY <1>3, <2>2, MoreOrders
  <2>5. Clears(<<a>> \o <<b>>, i)
    BY <1>3, <2>2, MoreOrders
  <2> QED BY <2>3, <2>4, <2>5
<1>5. CASE ~InFat(f.tag[i])
  <2>1. WriteBack(f, i) = <<a>> \o <<>>
    BY <1>5 DEF WriteBack, Write
  <2>2. WriteBack(f, i) = <<a>>
    BY <2>1
  <2> QED BY <1>3, <2>2
<1> QED BY <1>4, <1>5

\* write_window with two windows of adjacent sectors saves both before it
\* clears both flags.
LEMMA WriteBothIs ==
  ASSUME NEW d, NEW f, NEW p, NEW t, Whole(d, p, t), Cache(d, f, p, t),
         f.tag[0] # 0, f.tag[1] # 0, f.tag[0] + 1 = f.tag[1]
  PROVE  Orders(d, f, WriteBoth(f)) /\ \A i \in Slots : Clears(WriteBoth(f), i)
<1> DEFINE a == [op |-> "write", slot |-> 0, sector |-> f.tag[0], tag |-> 0,
                 clears |-> {}, must |-> TRUE]
           b == [op |-> "write", slot |-> 1, sector |-> f.tag[1], tag |-> 1,
                 clears |-> Slots, must |-> TRUE]
           ac == [op |-> "write", slot |-> 0, sector |-> f.tag[0] + FatSectors, tag |-> 0,
                 clears |-> {}, must |-> FALSE]
           bc == [op |-> "write", slot |-> 1, sector |-> f.tag[1] + FatSectors, tag |-> 1,
                 clears |-> {}, must |-> FALSE]
           q == <<a>> \o <<b>>
<1>1. f.tag[0] \in Sectors /\ f.tag[1] \in Sectors /\ 0 \in Slots /\ 1 \in Slots /\ {} # Slots
  BY InWindowIs DEF Slots
<1>2. a \in Accesses /\ Saving(a, f) /\ b \in Accesses /\ Saving(b, f)
  BY <1>1 DEF Accesses, Saving
<1>3. /\ a.clears = {} /\ a.slot = 0 /\ b.slot = 1 /\ b.clears = Slots
  OBVIOUS
<1> HIDE DEF a, b
<1>4. q \in Seq(Accesses) /\ Len(q) = 2 /\ q[1] = a /\ q[2] = b
  BY <1>2
<1> HIDE DEF q
<1>5. \A k \in 1..Len(q) : k = 1 \/ k = 2
  BY <1>4
<1>6. BothSaved(d, f, q, 1)
  BY <1>1, <1>3, <1>4 DEF BothSaved
<1>7. BothSaved(d, f, q, 2)
  <2>1. 1 \in 1..(2 - 1) /\ Saving(q[1], f) /\ q[1].slot = 0
    BY <1>2, <1>3, <1>4
  <2>2. \A i \in Slots \ {q[2].slot} : i = 0
    BY <1>3, <1>4 DEF Slots
  <2> QED BY <2>1, <2>2 DEF BothSaved
<1>8. Orders(d, f, q) /\ \A i \in Slots : Clears(q, i)
  <2>1. Orders(d, f, q)
    BY <1>2, <1>4, <1>5, <1>6, <1>7 DEF Orders
  <2>2. 2 \in 1..Len(q) /\ q[2].clears = Slots
    BY <1>3, <1>4
  <2> QED BY <2>1, <2>2 DEF Clears
<1>9. CASE InFat(f.tag[0])
  <2>1. f.tag[0] + FatSectors \in Copies
    BY <1>9, <1>1, InWindowIs
  <2>2. f.tag[1] + FatSectors \in Copies
    <3>1. CASE InFat(f.tag[1])
      BY <1>1, <3>1, InWindowIs
    <3>2. CASE ~InFat(f.tag[1])
      <4>1. f.tag[1] = FatBase + FatSectors /\ FatSectors > 0
        BY <1>9, <3>2, Numbers DEF InFat
      <4>2. f.tag[1] \in Copies
        BY <4>1, Numbers DEF Copies
      <4>3. p \in Seq(Own) /\ f.tag[1] \in Loadable(p)
        BY <1>1, WholeFacts, InWindowIs
      <4> QED BY <4>2, <4>3, LoadableIs
    <3> QED BY <3>1, <3>2
  <2>3. ac \in Accesses /\ Copying(ac, f) /\ bc \in Accesses /\ Copying(bc, f)
        /\ ac.clears = {} /\ bc.clears = {}
    BY <2>1, <2>2, <1>1, Apart DEF Accesses, Copying
  <2>4. Orders(d, f, <<ac>>) /\ Orders(d, f, <<bc>>)
    BY <2>3, <1>1, OneOrder
  <2>5. WriteBoth(f) = <<a>> \o <<b>> \o (<<ac>> \o <<bc>>)
    BY <1>9 DEF WriteBoth, Write, a, b
  <2> HIDE DEF ac, bc
  <2>6. Orders(d, f, <<ac>> \o <<bc>>)
    BY <2>4, MoreOrders
  <2>7. WriteBoth(f) = q \o (<<ac>> \o <<bc>>)
    BY <2>5 DEF q
  <2>8. Orders(d, f, q \o (<<ac>> \o <<bc>>))
    BY <2>6, <1>8, MoreOrders
  <2>9. \A i \in Slots : Clears(q \o (<<ac>> \o <<bc>>), i)
    BY <2>6, <1>8, MoreOrders
  <2> QED BY <2>7, <2>8, <2>9
<1>10. CASE ~InFat(f.tag[0])
  <2>1. WriteBoth(f) = q \o <<>>
    BY <1>10 DEF WriteBoth, Write, a, b, q
  <2>2. WriteBoth(f) = q
    BY <2>1, <1>4, ConcatEmptySeq
  <2> QED BY <1>8, <2>2
<1> QED BY <1>9, <1>10

\* sync_window saves the window if it is dirty and otherwise does nothing.
LEMMA SyncIs ==
  ASSUME NEW d, NEW f, NEW p, NEW t, Whole(d, p, t), Cache(d, f, p, t), NEW i \in Slots
  PROVE  /\ Orders(d, f, Sync(f, i))
         /\ i \in f.dirty => Clears(Sync(f, i), i)
         /\ f.tag[i] = 0 \/ i \notin f.dirty => Sync(f, i) = <<>>
<1> DEFINE other == 1 - i
           both == f.last = i /\ other \in f.dirty
<1>1. CASE f.tag[i] = 0 \/ i \notin f.dirty
  <2>1. Sync(f, i) = <<>>
    BY <1>1 DEF Sync
  <2>2. i \notin f.dirty
    BY <1>1 DEF Cache
  <2> QED BY <2>1, <2>2, NoOrders
<1>2. CASE f.tag[i] # 0 /\ i \in f.dirty /\ both /\ f.tag[0] + 1 = f.tag[1]
  <2>1. Sync(f, i) = WriteBoth(f)
    BY <1>2 DEF Sync
  <2>2. f.tag[0] # 0 /\ f.tag[1] # 0
    BY <1>2 DEF Cache, Slots
  <2> QED BY <1>2, <2>1, <2>2, WriteBothIs
<1>3. CASE f.tag[i] # 0 /\ i \in f.dirty /\ both /\ f.tag[0] + 1 # f.tag[1]
  <2>1. Sync(f, i) = WriteBack(f, other) \o WriteBack(f, i)
    BY <1>3 DEF Sync
  <2>2. other \in Slots /\ f.tag[other] # 0
    BY <1>3 DEF Cache, Slots
  <2>3. Orders(d, f, WriteBack(f, other)) /\ Orders(d, f, WriteBack(f, i))
        /\ Clears(WriteBack(f, i), i)
    BY <1>3, <2>2, WriteBackIs
  <2> HIDE DEF other
  <2>4. Orders(d, f, WriteBack(f, other) \o WriteBack(f, i))
    BY <2>3, MoreOrders
  <2>5. Clears(WriteBack(f, other) \o WriteBack(f, i), i)
    BY <2>3, MoreOrders
  <2> QED BY <1>3, <2>1, <2>4, <2>5
<1>4. CASE f.tag[i] # 0 /\ i \in f.dirty /\ ~both
  <2>1. Sync(f, i) = <<>> \o WriteBack(f, i)
    BY <1>4 DEF Sync
  <2>2. Orders(d, f, WriteBack(f, i)) /\ Clears(WriteBack(f, i), i)
    BY <1>4, WriteBackIs
  <2>3. Sync(f, i) = WriteBack(f, i)
    BY <2>1, <2>2, ConcatEmptySeq DEF Orders
  <2> QED BY <1>4, <2>2, <2>3
<1> QED BY <1>1, <1>2, <1>3, <1>4

\* Writes that are in order can be what is to come.
LEMMA SyncPending ==
  ASSUME NEW d, NEW f, NEW p, NEW q, Orders(d, f, q)
  PROVE  Pending(d, f, q, p)
BY DEF Orders, Pending

\* f with another current window.
SameBut(f, g) ==
    /\ g \in Fss /\ g.tag = f.tag /\ g.buf = f.buf /\ g.last = f.last /\ g.dirty = f.dirty
    /\ g.lastClust = f.lastClust /\ g.fsiFlag = f.fsiFlag /\ g.fsiValid = f.fsiValid

\* move_window chooses the window that has the sector, or else the one used
\* less recently.
LEMMA MovedIs ==
  ASSUME NEW f \in Fss, NEW s
  PROVE  /\ SameBut(f, Moved(f, s)) /\ Moved(f, s).win \in Slots
         /\ Holding(f, s) = {} => Moved(f, s).win = Victim(f)
         /\ Holding(f, s) # {} => f.tag[Moved(f, s).win] = s
<1>1. Victim(f) \in Slots /\ Holding(f, s) \subseteq Slots
  BY DEF Victim, Holding, Fss, Slots
<1>2. \A w \in Slots : /\ SameBut(f, [f EXCEPT !.win = w]) /\ [f EXCEPT !.win = w].win = w
  BY DEF SameBut, Fss
<1>3. Holding(f, s) # {} /\ 0 \notin Holding(f, s) => 1 \in Holding(f, s)
  BY <1>1 DEF Slots
<1>4. 0 \in Slots /\ 1 \in Slots
  BY DEF Slots
<1>5. CASE Holding(f, s) = {}
  BY <1>1, <1>2, <1>5 DEF Moved
<1>6. CASE Holding(f, s) # {} /\ 0 \in Holding(f, s)
  <2>1. Moved(f, s) = [f EXCEPT !.win = 0]
    BY <1>6 DEF Moved
  <2>2. f.tag[0] = s
    BY <1>6 DEF Holding
  <2> QED BY <1>2, <1>4, <1>6, <2>1, <2>2
<1>7. CASE Holding(f, s) # {} /\ 0 \notin Holding(f, s)
  <2>1. Moved(f, s) = [f EXCEPT !.win = 1]
    BY <1>7 DEF Moved
  <2>2. f.tag[1] = s
    BY <1>3, <1>7 DEF Holding
  <2> QED BY <1>2, <1>4, <1>7, <2>1, <2>2
<1> QED BY <1>5, <1>6, <1>7

\* Which window is the current one matters neither to what they hold nor to
\* writes to come.
LEMMA SameCache ==
  ASSUME NEW d, NEW f, NEW g, NEW p, NEW t, Cache(d, f, p, t), SameBut(f, g)
  PROVE  Cache(d, g, p, t) /\ \A q : Orders(d, f, q) => Orders(d, g, q)
<1>1. Cache(d, g, p, t)
  BY DEF Cache, SameBut
<1>2. ASSUME NEW q, Orders(d, f, q) PROVE Orders(d, g, q)
  BY <1>2 DEF Orders, SameBut, Saving, Copying, BothSaved
<1> QED BY <1>1, <1>2

\* move_window: what it asks for leaves all in order, and when it is done the
\* sector is in the current window.
LEMMA MoveIs ==
  ASSUME NEW d, NEW f, NEW p, NEW t, Whole(d, p, t), Cache(d, f, p, t),
         NEW s \in Loadable(p), f.tag[f.win] # 0,
         NEW g, g = Moved(f, s), NEW q, q = MoveIo(f, s)
  PROVE  /\ Good(d, g, q, p, t) /\ SameBut(f, g)
         /\ g.tag[g.win] # 0 \/ Reads(q)
         /\ \A r : Comes(g, q, r, s)
         /\ f.dirty \subseteq {f.last} => q = <<>> \/ Reads(q)
         /\ (\A i \in Slots : f.tag[i] # s) => q # <<>>
<1>1. /\ f \in Fss /\ f.win \in Slots /\ f.last \in Slots /\ s # 0 /\ s \in Sectors
      /\ f.tag \in [Slots -> Sectors \cup {0}] /\ f.dirty \subseteq Slots
  BY WholeFacts, CacheFacts, LoadableIs DEF Fss
<1>2. /\ SameBut(f, g) /\ g.win \in Slots /\ g.tag = f.tag
      /\ Holding(f, s) = {} => g.win = Victim(f)
      /\ Holding(f, s) # {} => f.tag[g.win] = s
  BY <1>1, MovedIs DEF SameBut
<1>3. Cache(d, g, p, t) /\ \A x : Orders(d, f, x) => Orders(d, g, x)
  BY <1>2, SameCache
<1>4. CASE Holding(f, s) # {}
  <2>1. q = <<>> /\ g.tag[g.win] = s
    BY <1>2, <1>4 DEF MoveIo
  <2>2. Good(d, g, q, p, t)
    BY <2>1, <1>3, NoAccess DEF Good
  <2>3. \E i \in Slots : f.tag[i] = s
    BY <1>4 DEF Holding
  <2> QED BY <1>1, <1>2, <2>1, <2>2, <2>3 DEF Comes
<1>5. CASE Holding(f, s) = {}
  <2> DEFINE v == Victim(f)
             y == Sync(f, v)
             a == [op |-> "read", slot |-> v, sector |-> s, tag |-> v, clears |-> {},
                   must |-> TRUE]
  <2>1. v = 1 - f.last /\ v \in Slots /\ g.win = v
    BY <1>1, <1>2, <1>5 DEF Victim, Slots
  <2>2. q = y \o <<a>>
    BY <1>1, <1>5 DEF MoveIo, Read
  <2>3. \A i \in Slots : f.tag[i] # s
    BY <1>5 DEF Holding
  <2> HIDE DEF v
  <2>4. a \in Accesses /\ Loading(a, g, p) /\ a.op = "read" /\ a.sector = s /\ a.clears = {}
    BY <1>1, <1>2, <2>1, <2>3 DEF Accesses, Loading, SameBut
  <2>5. Orders(d, g, y) /\ (v \in f.dirty => Clears(y, v))
        /\ (f.tag[v] = 0 \/ v \notin f.dirty => y = <<>>)
    BY <1>3, <2>1, SyncIs
  <2> HIDE DEF y, a
  <2>6. y \in Seq(Accesses) /\ <<a>> \in Seq(Accesses) /\ Len(<<a>>) = 1 /\ <<a>>[1] = a
        /\ Len(y) \in Nat
    BY <2>4, <2>5 DEF Orders
  <2>7. /\ q \in Seq(Accesses) /\ Len(q) = Len(y) + 1
        /\ \A k \in 1..Len(y) : q[k] = y[k]
        /\ q[Len(y) + 1] = a
        /\ \A k \in 1..Len(q) : k \in 1..Len(y) \/ k = Len(y) + 1
    <3>1. q \in Seq(Accesses) /\ Len(q) = Len(y) + Len(<<a>>)
          /\ \A k \in 1..Len(y) : q[k] = y[k]
      BY <2>2, <2>6, Joined
    <3>2. q[Len(y) + 1] = <<a>>[1]
      <4>1. 1 \in 1..Len(<<a>>)
        BY <2>6
      <4> QED BY <2>2, <2>6, <4>1, Joined
    <3> QED BY <3>1, <3>2, <2>6
  <2>8. q # <<>> /\ Len(q) \in Nat \ {0}
    BY <2>7, <2>6, EmptySeq
  <2>9. Pending(d, g, q, p)
    <3>1. ASSUME NEW k \in 1..Len(y)
          PROVE  (Saving(q[k], g) \/ Copying(q[k], g)) /\ BothSaved(d, g, q, k)
      <4>1. q[k] = y[k] /\ \A l \in 1..(k - 1) : l \in 1..Len(y) /\ q[l] = y[l]
        BY <2>6, <2>7
      <4> QED BY <4>1, <2>5 DEF Orders, BothSaved
    <3>2. Loading(q[Len(y) + 1], g, p) /\ Len(y) + 1 = Len(q)
      BY <2>4, <2>7
    <3>3. ASSUME g.win \in g.dirty
          PROVE  \E l \in 1..((Len(y) + 1) - 1) : g.win \in q[l].clears
      <4>1. Clears(y, v)
        BY <3>3, <2>1, <2>5, <1>2 DEF SameBut
      <4>2. PICK l \in 1..Len(y) : v \in y[l].clears
        BY <4>1 DEF Clears
      <4>3. l \in 1..((Len(y) + 1) - 1) /\ q[l] = y[l]
        BY <2>6, <2>7
      <4> QED BY <4>2, <4>3, <2>1
    <3>4. BothSaved(d, g, q, Len(y) + 1)
      BY <2>4, <2>7 DEF BothSaved, Slots
    <3> QED BY <2>7, <3>1, <3>2, <3>3, <3>4 DEF Pending
  <2>10. Good(d, g, q, p, t)
    BY <1>3, <2>9 DEF Good
  <2>11. \A r : Comes(g, q, r, s)
    BY <2>4, <2>7, <2>8 DEF Comes
  <2>12. y = <<>> => Reads(q)
    <3>1. y = <<>> => Len(y) = 0
      OBVIOUS
    <3> QED BY <3>1, <2>4, <2>7 DEF Reads
  <2>13. f.dirty \subseteq {f.last} => v \notin f.dirty
    BY <1>1, <2>1 DEF Slots
  <2> QED BY <1>2, <2>1, <2>5, <2>8, <2>10, <2>11, <2>12, <2>13
<1> QED BY <1>4, <1>5

-----------------------------------------------------------------------------
(* A window is edited.                                                      *)

Edited(f, g, b) ==
    /\ g \in Fss /\ g.tag = f.tag /\ g.win = f.win /\ g.last = f.last
    /\ g.dirty = f.dirty \cup {f.win} /\ g.buf[f.win] = b
    /\ \A i \in Slots \ {f.win} : g.buf[i] = f.buf[i]

\* A step that stores into the current window sets its dirty flag and changes
\* nothing else.
LEMMA EditIs ==
  ASSUME NEW f \in Fss, NEW b \in [Cells -> Nat]
  PROVE  /\ Edited(f, [f EXCEPT !.buf[f.win] = b, !.dirty = @ \cup {f.win}], b)
         /\ Edited(f, [f EXCEPT !.dirty = @ \cup {f.win}], f.buf[f.win])
<1> DEFINE g == [f EXCEPT !.buf[f.win] = b, !.dirty = @ \cup {f.win}]
           h == [f EXCEPT !.dirty = @ \cup {f.win}]
<1>1. f.win \in Slots /\ f.dirty \subseteq Slots /\ f.buf \in [Slots -> [Cells -> Nat]]
  BY DEF Fss
<1>2. /\ g.tag = f.tag /\ g.win = f.win /\ g.last = f.last /\ g.dirty = f.dirty \cup {f.win}
      /\ g.buf = [f.buf EXCEPT ![f.win] = b]
  BY DEF Fss
<1>3. g \in Fss
  BY <1>1 DEF Fss
<1>4. g.buf[f.win] = b /\ \A i \in Slots \ {f.win} : g.buf[i] = f.buf[i]
  BY <1>1, <1>2
<1>5. /\ h.tag = f.tag /\ h.win = f.win /\ h.last = f.last /\ h.dirty = f.dirty \cup {f.win}
      /\ h.buf = f.buf /\ h \in Fss
  BY <1>1 DEF Fss
<1> QED BY <1>2, <1>3, <1>4, <1>5 DEF Edited

\* Storing one value into the current window is such a step.
LEMMA ChangedIs ==
  ASSUME NEW f \in Fss, NEW i \in Cells, NEW v \in Nat
  PROVE  /\ Edited(f, Changed(f, i, v), [f.buf[f.win] EXCEPT ![i] = v])
         /\ [f.buf[f.win] EXCEPT ![i] = v] \in [Cells -> Nat]
<1>1. f.win \in Slots /\ f.buf \in [Slots -> [Cells -> Nat]] /\ f.buf[f.win] \in [Cells -> Nat]
  BY DEF Fss
<1>2. [f.buf[f.win] EXCEPT ![i] = v] \in [Cells -> Nat]
  BY <1>1
<1>3. Changed(f, i, v) = [f EXCEPT !.buf[f.win] = [f.buf[f.win] EXCEPT ![i] = v],
                                   !.dirty = @ \cup {f.win}]
  BY <1>1 DEF Changed, Fss
<1> QED BY <1>1, <1>2, <1>3, EditIs

\* Two stores into the current window are one step that edits it.
LEMMA EditedTwice ==
  ASSUME NEW f, NEW g, NEW h, NEW b, NEW c, Edited(f, g, b), Edited(g, h, c)
  PROVE  Edited(f, h, c)
BY DEF Edited

\* Keeping last_clust and fsi_flag edits nothing more.
LEMMA TakenIs ==
  ASSUME NEW f, NEW g, NEW b, Edited(f, g, b), chain.ncl \in 0..LastCluster
  PROVE  Edited(f, Taken(g), b)
<1>1. g \in Fss
  BY DEF Edited
<1>2. /\ Taken(g) \in Fss /\ Taken(g).tag = g.tag /\ Taken(g).win = g.win
      /\ Taken(g).last = g.last /\ Taken(g).dirty = g.dirty /\ Taken(g).buf = g.buf
  BY <1>1 DEF Taken, Fss
<1> QED BY <1>2 DEF Edited

\* The cache stays right when the current window is edited to what it may hold.
LEMMA CacheEdited ==
  ASSUME NEW d, NEW f, NEW p, NEW t, Cache(d, f, p, t), NEW g, NEW b, Edited(f, g, b),
         f.tag[f.win] # 0, Window(d, f.tag[f.win], b, p, t)
  PROVE  Cache(d, g, p, t)
<1>1. f.win \in Slots /\ f.dirty \subseteq Slots
  BY CacheFacts
<1>2. \A i \in Slots : Window(d, g.tag[i], g.buf[i], p, t)
  BY <1>1, CacheFacts DEF Edited
<1>3. \A i \in g.dirty : g.tag[i] # 0
  BY DEF Edited, Cache
<1>4. \A i \in Slots \ g.dirty : g.tag[i] \in Meta => g.buf[i] = d[g.tag[i]]
  BY DEF Edited, Cache
<1> QED BY <1>2, <1>3, <1>4 DEF Edited, Cache

\* The text of the line survives an edit of a window of the FAT or the
\* directory.
LEMMA EditedText ==
  ASSUME NEW d, NEW f, NEW g, NEW b, Edited(f, g, b), NEW p, NEW t, NEW n, NEW m,
         NewText(d, f, p, t, n, m), f.tag[f.win] \notin DataOf(p) \/ b = f.buf[f.win]
  PROVE  NewText(d, g, p, t, n, m)
<1> SUFFICES ASSUME NEW k \in 1..Len(p), NEW i \in Cells, Len(t) <= Pos(k, i), Pos(k, i) < n
             PROVE  /\ \A j \in Slots : g.tag[j] = Sector(p[k]) => g.buf[j][i] = m
                    /\ d[Sector(p[k])][i] = m \/ \E j \in g.dirty : g.tag[j] = Sector(p[k])
  BY DEF NewText
<1>1. /\ \A j \in Slots : f.tag[j] = Sector(p[k]) => f.buf[j][i] = m
      /\ d[Sector(p[k])][i] = m \/ \E j \in f.dirty : f.tag[j] = Sector(p[k])
  BY DEF NewText
<1>2. Sector(p[k]) \in DataOf(p)
  BY DEF DataOf
<1> QED BY <1>1, <1>2 DEF Edited

\* The entry of the log survives an edit that does not clear its name.
LEMMA EditedEntry ==
  ASSUME NEW d, NEW f, NEW g, NEW b, Edited(f, g, b), Entered(d, f),
         f.tag[f.win] # Dir \/ b[0] = f.buf[f.win][0]
  PROVE  Entered(d, g)
BY DEF Edited, Entered

\* put_fat marks a free cluster as the end of the chain: no entry that the
\* chain follows changes in the windows.
LEMMA Marked ==
  ASSUME NEW d, NEW f, NEW p, NEW t, Whole(d, p, t), Cache(d, f, p, t), FatClean(d, f),
         NEW n \in Clusters, f.tag[f.win] = FatSector(n), NextOf(d, n) = 0,
         NEW b, b = [f.buf[f.win] EXCEPT ![FatCell(n)] = EndOfChain], NEW g, Edited(f, g, b)
  PROVE  /\ Cache(d, g, p, t)
         /\ \A c \in Clusters : NextOf(d, c) = EndOfChain =>
              \A i \in Slots : g.tag[i] = FatSector(c) => g.buf[i][FatCell(c)] = EndOfChain
<1>1. /\ f.win \in Slots /\ f.buf[f.win] \in [Cells -> Nat]
      /\ Window(d, f.tag[f.win], f.buf[f.win], p, t)
  BY CacheFacts
<1>2. /\ FatCell(n) \in Cells /\ FatSector(n) \in FatPart /\ FatSector(n) # 0
      /\ FatSector(n) # Dir
  BY FatPlace, Apart
<1>3. \A c \in Clusters : FatSector(c) = FatSector(n) =>
          /\ FatCell(c) \in Cells /\ f.buf[f.win][FatCell(c)] = NextOf(d, c)
          /\ b[FatCell(c)] = IF c = n THEN EndOfChain ELSE NextOf(d, c)
  <2> SUFFICES ASSUME NEW c \in Clusters, FatSector(c) = FatSector(n)
               PROVE  /\ FatCell(c) \in Cells /\ f.buf[f.win][FatCell(c)] = NextOf(d, c)
                      /\ b[FatCell(c)] = IF c = n THEN EndOfChain ELSE NextOf(d, c)
    OBVIOUS
  <2>1. FatCell(c) \in Cells /\ f.buf[f.win][FatCell(c)] = NextOf(d, c)
    BY <1>1, <1>2, FatPlace DEF FatClean, NextOf
  <2>2. c # n => FatCell(c) # FatCell(n)
    BY FatPlaceOnce
  <2> QED BY <1>1, <1>2, <2>1, <2>2
<1>4. Window(d, f.tag[f.win], b, p, t)
  <2>1. FatWindow(d, FatSector(n), b, p)
    BY <1>3 DEF FatWindow, EntryOk
  <2>2. DataWindow(FatSector(n), b, p, t)
    BY <1>2, WholeFacts, SectorPlace DEF DataWindow
  <2> QED BY <1>1, <1>2, <2>1, <2>2 DEF Window
<1>5. Cache(d, g, p, t)
  BY <1>2, <1>4, CacheEdited
<1>6. ASSUME NEW c \in Clusters, NextOf(d, c) = EndOfChain, NEW i \in Slots,
             g.tag[i] = FatSector(c)
      PROVE  g.buf[i][FatCell(c)] = EndOfChain
  <2>1. CASE i = f.win
    <3>1. FatSector(c) = FatSector(n) /\ g.buf[i] = b
      BY <1>6, <2>1 DEF Edited
    <3>2. b[FatCell(c)] = EndOfChain
      BY <3>1, <1>3, <1>6
    <3> QED BY <3>1, <3>2
  <2>2. CASE i # f.win
    <3>1. g.buf[i] = f.buf[i] /\ f.tag[i] = FatSector(c)
      BY <1>6, <2>2 DEF Edited
    <3>2. FatSector(c) \in FatPart
      BY FatPlace
    <3>3. f.buf[i] = d[FatSector(c)]
      BY <3>1, <3>2 DEF FatClean
    <3> QED BY <1>6, <3>1, <3>3 DEF NextOf
  <2> QED BY <2>1, <2>2
<1> QED BY <1>5, <1>6

\* put_fat links the last cluster of the log to the one that was marked: it
\* becomes the next one of the log.
LEMMA Linked ==
  ASSUME NEW d, NEW f, NEW p, NEW t, Whole(d, p, t), Cache(d, f, p, t),
         Len(p) > 0, NEW c, c = p[Len(p)], NextOf(d, c) = EndOfChain,
         f.tag[f.win] = FatSector(c), NEW n, Linkable(d, n, p),
         NEW b, b = [f.buf[f.win] EXCEPT ![FatCell(c)] = n], NEW g, Edited(f, g, b)
  PROVE  Cache(d, g, p, t) /\ g.win \in g.dirty /\ g.tag[g.win] = FatSector(c)
         /\ g.buf[g.win][FatCell(c)] = n
<1>1. /\ f.win \in Slots /\ f.buf[f.win] \in [Cells -> Nat]
      /\ Window(d, f.tag[f.win], f.buf[f.win], p, t)
  BY CacheFacts
<1>2. c \in Clusters /\ Len(p) \in Nat
  BY WholeFacts
<1>3. /\ FatCell(c) \in Cells /\ FatSector(c) \in FatPart /\ FatSector(c) # 0
      /\ FatSector(c) # Dir
  BY <1>2, FatPlace, Apart
<1>4. ASSUME NEW e \in Clusters, FatSector(e) = FatSector(c) PROVE EntryOk(d, b[FatCell(e)], e, p)
  <2>1. FatCell(e) \in Cells /\ EntryOk(d, f.buf[f.win][FatCell(e)], e, p)
    BY <1>1, <1>4, FatPlace DEF Window, FatWindow
  <2>2. CASE e = c
    <3>1. b[FatCell(e)] = n
      BY <2>1, <2>2, <1>1
    <3> QED BY <2>2, <3>1 DEF EntryOk
  <2>3. CASE e # c
    <3>1. FatCell(e) # FatCell(c)
      BY <1>2, <1>4, <2>3, FatPlaceOnce
    <3>2. b[FatCell(e)] = f.buf[f.win][FatCell(e)]
      BY <2>1, <3>1, <1>1
    <3> QED BY <2>1, <3>2
  <2> QED BY <2>2, <2>3
<1>5. Window(d, f.tag[f.win], b, p, t)
  <2>1. FatWindow(d, FatSector(c), b, p)
    BY <1>4 DEF FatWindow
  <2>2. DataWindow(FatSector(c), b, p, t)
    BY <1>3, WholeFacts, SectorPlace DEF DataWindow
  <2> QED BY <1>1, <1>3, <2>1, <2>2 DEF Window
<1>6. Cache(d, g, p, t)
  BY <1>3, <1>5, CacheEdited
<1>7. b[FatCell(c)] = n
  BY <1>1, <1>3
<1> QED BY <1>6, <1>7 DEF Edited

\* f_open and f_sync edit the entry: the cache stays right if the entry names
\* no more than the chain holds.
LEMMA EntryEdited ==
  ASSUME NEW d, NEW f, NEW p, NEW t, Whole(d, p, t), Cache(d, f, p, t), f.tag[f.win] = Dir,
         NEW b \in [Cells -> Nat], DirOk(b, p, t), NEW g, Edited(f, g, b)
  PROVE  Cache(d, g, p, t)
<1>1. Dir # 0 /\ Dir \notin FatPart /\ Dir \in Loadable(p)
  BY Apart DEF Loadable, Meta
<1>2. FatWindow(d, Dir, b, p)
  BY <1>1, FatPlace DEF FatWindow
<1>3. DataWindow(Dir, b, p, t)
  BY WholeFacts, SectorPlace DEF DataWindow
<1>4. Window(d, f.tag[f.win], b, p, t)
  BY <1>1, <1>2, <1>3 DEF Window
<1> QED BY <1>1, <1>4, CacheEdited

\* f_write edits a sector of the log: the cache stays right if the text that is
\* kept stays.
LEMMA DataEdited ==
  ASSUME NEW d, NEW f, NEW p, NEW t, Whole(d, p, t), Cache(d, f, p, t),
         NEW k \in 1..Len(p), f.tag[f.win] = Sector(p[k]),
         NEW b \in [Cells -> Nat], OldText(b, k, t), NEW g, Edited(f, g, b)
  PROVE  Cache(d, g, p, t)
<1>1. p[k] \in Clusters /\ p[k] # 2 /\ Sector(p[k]) # 0
  <2>1. p[k] \in Clusters /\ p[k] # 2
    BY WholeFacts
  <2> QED BY ONLY <2>1, SectorPlace
<1>2. Sector(p[k]) # Dir /\ Sector(p[k]) \notin FatPart /\ Sector(p[k]) \in Loadable(p)
  BY <1>1, SectorPlace DEF Loadable, DataOf
<1>3. FatWindow(d, Sector(p[k]), b, p)
  BY <1>2, FatPlace DEF FatWindow
<1>4. DataWindow(Sector(p[k]), b, p, t)
  <2> SUFFICES ASSUME NEW j \in 1..Len(p), Sector(p[k]) = Sector(p[j]) PROVE OldText(b, j, t)
    BY DEF DataWindow
  <2>1. p[j] \in Clusters /\ p[k] \in Clusters
    BY WholeFacts
  <2>2. p[j] = p[k]
    BY <2>1, SectorPlace
  <2>3. j = k
    BY <2>2 DEF Whole, Path
  <2> QED BY <2>3
<1>5. Window(d, f.tag[f.win], b, p, t)
  BY <1>1, <1>2, <1>3, <1>4 DEF Window
<1> QED BY <1>1, <1>5, CacheEdited

-----------------------------------------------------------------------------
(* The chain that the code follows is the path of the invariant.            *)

\* A set of numbers has a least one; a loop over positions ends at it.
LEMMA LeastNat ==
  ASSUME NEW T, T \subseteq Nat, T # {}
  PROVE  \E x \in T : \A y \in T : x <= y
<1> DEFINE R == OpToRel(<, Nat)
<1>1. \E x \in T : \A y \in T : ~ (<<y, x>> \in R)
  BY NatLessThanWellFounded, WFMin, Zenon
<1>2. \A x, y \in Nat : x < y => <<x, y>> \in R
  BY DEF OpToRel
<1> HIDE DEF R
<1>3. PICK x \in T : \A y \in T : ~ (<<y, x>> \in R)
  BY <1>1
<1>4. ASSUME NEW y \in T PROVE x <= y
  <2>1. x \in Nat /\ y \in Nat /\ ~ (<<y, x>> \in R)
    BY <1>3
  <2> QED BY <2>1, <1>2
<1> QED BY <1>4

\* What holds of 0, and of n + 1 when it holds of n, holds up to N: a loop that
\* counts up to N.
LEMMA Upward ==
  ASSUME NEW N \in Nat, NEW S, 0 \in S,
         \A n \in 0..(N - 1) : n \in S => n + 1 \in S
  PROVE  \A n \in 0..N : n \in S
<1> DEFINE T == {n \in 0..N : n \notin S}
<1> SUFFICES ASSUME T # {} PROVE FALSE
  OBVIOUS
<1>1. PICK x \in T : \A y \in T : x <= y
  <2>1. T \subseteq Nat
    OBVIOUS
  <2> HIDE DEF T
  <2> QED BY <2>1, LeastNat
<1>2. x # 0 /\ x \in 0..N
  BY <1>1
<1>3. x - 1 \in 0..(N - 1) /\ x - 1 \notin T
  BY <1>1, <1>2
<1> QED BY <1>1, <1>2, <1>3

\* One more cluster of the chain that begins with c.
Further(d, c, s) ==
    LET next == IF s = <<>> THEN c ELSE NextOf(d, s[Len(s)])
    IN  IF next \in Clusters THEN Append(s, next) ELSE s

\* Following the chain for n steps takes one step after the other (get_fat in
\* f_lseek).
LEMMA ChainSteps ==
  ASSUME NEW d, NEW c, NEW n \in Nat
  PROVE  \E g : /\ g[0] = <<>> /\ \A k \in 1..n : g[k] = Further(d, c, g[k - 1])
                /\ g[n] = Chain(d, c, n)
<1> DEFINE More(s) == Further(d, c, s)
           Goes(g, m) == g = [k \in 0..m |-> IF k = 0 THEN <<>> ELSE More(g[k - 1])]
           S == {m \in 0..n : \E g : Goes(g, m)}
           first == CHOOSE g : Goes(g, n)
<1>1. Chain(d, c, n) = first[n]
  BY DEF Chain, Further
<1> HIDE DEF More
<1>2. 0 \in S
  <2>1. Goes([k \in 0..0 |-> <<>>], 0) /\ 0 \in 0..n
    OBVIOUS
  <2> HIDE DEF Goes
  <2> QED BY <2>1
<1>3. ASSUME NEW m \in 0..(n - 1), m \in S
      PROVE  m + 1 \in S
  <2>1. PICK g : Goes(g, m)
    BY <1>3
  <2>2. Goes([k \in 0..(m + 1) |-> IF k <= m THEN g[k] ELSE More(g[m])], m + 1)
    BY <2>1
  <2>3. m + 1 \in 0..n
    OBVIOUS
  <2> HIDE DEF Goes
  <2> QED BY <2>2, <2>3
<1>4. n \in S
  <2> HIDE DEF S, Goes
  <2>1. \A m \in 0..n : m \in S
    BY <1>2, <1>3, Upward
  <2> QED BY <2>1
<1>5. Goes(first, n)
  <2>1. PICK g : Goes(g, n)
    BY <1>4
  <2> HIDE DEF Goes
  <2> QED BY <2>1
<1>6. first[0] = <<>> /\ \A k \in 1..n : first[k] = More(first[k - 1])
  <2> HIDE DEF first
  <2> QED BY <1>5
<1> QED BY <1>1, <1>6 DEF More

\* The chain that get_fat follows from the entry's cluster is the path of the
\* invariant.
LEMMA ChainIs ==
  ASSUME NEW d, NEW p, Path(d, p), NEW n \in Nat
  PROVE  /\ Chain(d, First(p), n) \in Seq(Own)
         /\ Len(Chain(d, First(p), n)) = IF n <= Len(p) THEN n ELSE Len(p)
         /\ \A k \in 1..Len(Chain(d, First(p), n)) : Chain(d, First(p), n)[k] = p[k]
<1> DEFINE c == First(p)
           Part(s, m) == /\ s \in Seq(Own) /\ Len(s) = IF m <= Len(p) THEN m ELSE Len(p)
                         /\ \A k \in 1..Len(s) : s[k] = p[k]
<1>1. PICK g : /\ g[0] = <<>> /\ \A k \in 1..n : g[k] = Further(d, c, g[k - 1])
               /\ g[n] = Chain(d, c, n)
  BY ChainSteps
<1>2. /\ p \in Seq(Own) /\ Len(p) \in Nat
      /\ \A k \in 1..Len(p) : p[k] \in Own /\ p[k] \in Clusters
      /\ First(p) \in Own \cup {0} /\ (First(p) = 0 <=> Len(p) = 0)
  BY PathFacts
<1> DEFINE S == {m \in 0..n : Part(g[m], m)}
<1>3. 0 \in S
  <2>1. g[0] \in Seq(Own) /\ Len(g[0]) = 0
    BY <1>1, EmptySeq
  <2>2. Part(g[0], 0)
    BY <2>1, <1>2
  <2> HIDE DEF Part
  <2> QED BY <2>2
<1>4. ASSUME NEW m \in 0..(n - 1), m \in S PROVE m + 1 \in S
  <2> DEFINE s == g[m]
             next == IF s = <<>> THEN c ELSE NextOf(d, s[Len(s)])
  <2>1. Part(s, m) /\ m + 1 \in 1..n /\ (m + 1) - 1 = m
    BY <1>4
  <2>2. g[m + 1] = IF next \in Clusters THEN Append(s, next) ELSE s
    <3>1. g[m + 1] = Further(d, c, g[m])
      BY <1>1, <2>1
    <3> QED BY <3>1 DEF Further
  <2> HIDE DEF s
  <2>3. CASE m < Len(p)
    <3>1. Len(s) = m /\ s \in Seq(Own)
      BY <2>1, <2>3, <1>2
    <3>2. next = p[m + 1]
      <4>1. CASE m = 0
        <5>1. s = <<>>
          BY <3>1, <4>1, EmptySeq
        <5> QED BY <5>1, <4>1, <1>2, <2>3 DEF First
      <4>2. CASE m # 0
        <5>1. s # <<>> /\ m \in 1..Len(s) /\ m \in 1..Len(p)
          BY <3>1, <4>2, <2>3, <1>2, EmptySeq
        <5>2. s[Len(s)] = p[m] /\ NextOf(d, p[m]) = p[m + 1]
          BY <2>1, <2>3, <3>1, <5>1 DEF Path
        <5> QED BY <5>1, <5>2
      <4> QED BY <4>1, <4>2
    <3>3. next \in Own /\ next \in Clusters
      BY <3>2, <1>2, <2>3
    <3>4. g[m + 1] = Append(s, next)
      BY <2>2, <3>3
    <3> HIDE DEF next
    <3>5. Append(s, next) \in Seq(Own) /\ Len(Append(s, next)) = m + 1
          /\ \A k \in 1..(m + 1) : Append(s, next)[k] = p[k]
      BY <3>1, <3>2, <3>3, <2>1
    <3>6. Part(g[m + 1], m + 1)
      BY <3>4, <3>5, <2>3, <1>2
    <3> HIDE DEF Part
    <3> QED BY <3>6, <2>1
  <2>4. CASE m >= Len(p)
    <3>1. Len(s) = Len(p) /\ s \in Seq(Own)
      BY <2>1, <2>4, <1>2
    <3>2. next \notin Clusters
      <4>1. CASE Len(p) = 0
        <5>1. s = <<>>
          BY <3>1, <4>1, EmptySeq
        <5> QED BY <5>1, <4>1, <1>2, Ends
      <4>2. CASE Len(p) # 0
        <5>1. s # <<>> /\ Len(p) \in 1..Len(s) /\ Len(p) > 0
          BY <3>1, <4>2, <1>2, EmptySeq
        <5>2. s[Len(s)] = p[Len(p)]
          BY <2>1, <3>1, <5>1
        <5>3. NextOf(d, p[Len(p)]) \in {0, EndOfChain}
          BY <5>1 DEF Path
        <5> QED BY <5>1, <5>2, <5>3, Ends, Numbers
      <4> QED BY <4>1, <4>2
    <3>3. g[m + 1] = s
      BY <2>2, <3>2
    <3>4. Part(g[m + 1], m + 1)
      BY <3>3, <3>1, <2>1, <2>4, <1>2
    <3> HIDE DEF Part
    <3> QED BY <3>4, <2>1
  <2> QED BY <2>3, <2>4, <1>2
<1>5. n \in S
  <2> HIDE DEF S
  <2>1. \A m \in 0..n : m \in S
    BY <1>3, <1>4, Upward
  <2> QED BY <2>1
<1> QED BY <1>1, <1>5

\* The log has no more clusters than there are, since no cluster is in its
\* chain twice.
LEMMA PathLength ==
  ASSUME NEW d, NEW p, Path(d, p)
  PROVE  Len(p) <= LastCluster
<1>1. p \in Seq(Own) /\ Len(p) \in Nat /\ \A k \in 1..Len(p) : p[k] \in Own
  BY PathFacts
<1>2. LastCluster \in Nat /\ \A c \in Own : c \in 1..LastCluster
  BY Numbers DEF Own, Clusters
<1> DEFINE g == [k \in 1..Len(p) |-> p[k]]
<1>3. g \in [1..Len(p) -> 1..LastCluster]
  BY <1>1, <1>2
<1>4. \A j, k \in 1..Len(p) : g[j] = g[k] => j = k
  BY DEF Path
<1>5. g \in Injection(1..Len(p), 1..LastCluster)
  BY <1>3, <1>4 DEF Injection, IsInjective
<1>6. ExistsInjection(1..Len(p), 1..LastCluster)
  BY <1>5 DEF ExistsInjection
<1> QED BY <1>1, <1>2, <1>6, Fun_NatInjLeq

-----------------------------------------------------------------------------
(* The text.                                                                *)

\* The size in the entry needs no more clusters than the chain has.
LEMMA NeededIs ==
  ASSUME NEW d, NEW p, NEW t, Whole(d, p, t)
  PROVE  /\ Size(d) = d[Dir][1] /\ Size(d) \in Nat /\ Needed(d) \in Nat
         /\ Needed(d) <= Len(p) /\ Size(d) <= Needed(d) * Width
         /\ Size(d) <= Len(p) * Width /\ Len(t) <= Size(d) /\ Needed(d) * Width \in Nat
<1> DEFINE size == Size(d)
           n == Needed(d)
<1>1. /\ d[Dir] \in [Cells -> Nat] /\ DirOk(d[Dir], p, t) /\ Len(p) \in Nat
      /\ Len(p) * Width \in Nat
  BY WholeFacts DEF Whole
<1>2. size = d[Dir][1] /\ size \in Nat /\ size <= Len(p) * Width /\ Len(t) <= size
  BY <1>1, Ends DEF DirOk, Size
<1> HIDE DEF size
<1>3. Width \in Nat /\ Width >= 3 /\ size + Width - 1 \in Nat /\ size + (Width - 1) \in Nat
  BY <1>2, Numbers
<1>4. n = (size + Width - 1) \div Width
  BY DEF Needed, size
<1> HIDE DEF n
<1>5. PICK r \in Cells : n \in Nat /\ size + Width - 1 = n * Width + r
  BY <1>3, <1>4, Division
<1>6. r \in Nat /\ r <= Width - 1 /\ n * Width \in Nat
  BY <1>3, <1>5 DEF Cells
<1>7. size <= n * Width
  BY <1>2, <1>3, <1>5, <1>6
<1>8. n <= Len(p)
  <2>1. SUFFICES ASSUME n > Len(p) PROVE FALSE
    BY <1>1, <1>5
  <2>2. n - (Len(p) + 1) \in Nat
    BY <1>1, <1>5, <2>1
  <2>3. (n - (Len(p) + 1)) * Width \in Nat
    BY <2>2, <1>3
  <2>4. (n - (Len(p) + 1)) * Width = n * Width - Len(p) * Width - Width
    BY <1>1, <1>3, <1>5
  <2> QED BY <2>3, <2>4, <1>1, <1>2, <1>3, <1>5, <1>6
<1> QED BY <1>2, <1>5, <1>6, <1>7, <1>8 DEF size, n

\* The text that f_read would find: the contents of the chain's sectors up to
\* the size in the entry.
LEMMA TextIs ==
  ASSUME NEW d, NEW p, NEW t, Whole(d, p, t), d[Dir][2] = First(p)
  PROVE  /\ Text(d) \in Seq(Nat) /\ Len(Text(d)) = d[Dir][1]
         /\ \A k \in 1..Len(p), i \in Cells :
               Pos(k, i) < d[Dir][1] => Text(d)[Pos(k, i) + 1] = d[Sector(p[k])][i]
<1> DEFINE size == Size(d)
           n == Needed(d)
           c == Chain(d, d[Dir][2], n)
           T == [x \in 1..size |-> d[Sector(c[1 + (x - 1) \div Width])][(x - 1) % Width]]
<1>1. /\ size = d[Dir][1] /\ size \in Nat /\ n \in Nat /\ n <= Len(p)
      /\ size <= n * Width /\ size <= Len(p) * Width
  BY NeededIs
<1>2. Path(d, p) /\ Len(p) \in Nat /\ \A k \in 1..Len(p) : d[Sector(p[k])] \in [Cells -> Nat]
  BY WholeFacts DEF Whole
<1>3. Len(c) = n /\ \A k \in 1..n : c[k] = p[k]
  BY <1>1, <1>2, ChainIs
<1>4. Text(d) = T
  <2>1. (IF size < Len(c) * Width THEN size ELSE Len(c) * Width) = size
    <3>1. n * Width \in Nat
      BY <1>1, Numbers
    <3> HIDE DEF size, n, c
    <3> QED BY <1>1, <1>3, <3>1
  <2>2. Text(d) = [x \in 1..(IF size < Len(c) * Width THEN size ELSE Len(c) * Width) |->
                     d[Sector(c[1 + (x - 1) \div Width])][(x - 1) % Width]]
    BY DEF Text
  <2> HIDE DEF size, n, c
  <2> QED BY <2>1, <2>2
<1> HIDE DEF size, n, c
<1>5. ASSUME NEW x \in 1..size
      PROVE  \E k \in 1..Len(p) : \E i \in Cells :
                /\ x - 1 = Pos(k, i) /\ T[x] = d[Sector(p[k])][i]
  <2> DEFINE y == x - 1
             k == (y \div Width) + 1
             i == y % Width
  <2>1. y \in Nat /\ y < size
    BY <1>1
  <2> HIDE DEF y
  <2>2. k \in Nat \ {0} /\ i \in Cells /\ y = Pos(k, i)
    BY <2>1, PosOf
  <2>3. T[x] = d[Sector(c[k])][i]
    <3>1. T[x] = d[Sector(c[1 + (x - 1) \div Width])][(x - 1) % Width]
      OBVIOUS
    <3> HIDE DEF T
    <3>2. 1 + (y \div Width) = (y \div Width) + 1
      BY <2>1, Numbers, Division
    <3> QED BY <3>1, <3>2 DEF y
  <2> HIDE DEF k, i, T
  <2>4. k <= n
    <3>1. n * Width \in Nat
      BY <1>1, Numbers
    <3>2. Pos(k, i) < n * Width
      BY <1>1, <2>1, <2>2, <3>1
    <3> QED BY <1>1, <2>2, <3>2, PosWithin
  <2>5. k \in 1..Len(p) /\ c[k] = p[k]
    BY <1>1, <1>2, <1>3, <2>2, <2>4
  <2> QED BY <2>2, <2>3, <2>5 DEF y
<1>6. T \in Seq(Nat) /\ Len(T) = size
  <2>1. \A x \in 1..size : T[x] \in Nat
    <3> HIDE DEF T
    <3> QED BY <1>2, <1>5
  <2>2. DOMAIN T = 1..size
    OBVIOUS
  <2>3. T = [x \in 1..size |-> T[x]]
    OBVIOUS
  <2> HIDE DEF T
  <2>4. T \in [1..size -> Nat]
    BY <2>1, <2>3
  <2> QED BY <1>1, <2>4
<1>7. ASSUME NEW k \in 1..Len(p), NEW i \in Cells, Pos(k, i) < size
      PROVE  T[Pos(k, i) + 1] = d[Sector(p[k])][i]
  <2>1. k \in Nat \ {0} /\ Pos(k, i) \in Nat /\ Pos(k, i) \div Width = k - 1
        /\ Pos(k, i) % Width = i
    <3>1. k \in Nat \ {0} /\ i \in Cells
      BY <1>2
    <3> QED BY ONLY <3>1, PosIs
  <2> DEFINE x == Pos(k, i) + 1
  <2>2. x \in 1..size /\ x - 1 = Pos(k, i)
    BY <1>1, <1>7, <2>1
  <2> HIDE DEF x
  <2>3. PICK j \in 1..Len(p) : \E l \in Cells : x - 1 = Pos(j, l) /\ T[x] = d[Sector(p[j])][l]
    BY <1>5, <2>2
  <2>4. PICK l \in Cells : x - 1 = Pos(j, l) /\ T[x] = d[Sector(p[j])][l]
    BY <2>3
  <2>5. j - 1 = k - 1 /\ l = i
    <3>1. j \in Nat \ {0}
      BY <1>2
    <3>2. Pos(j, l) \div Width = j - 1 /\ Pos(j, l) % Width = l
      BY <3>1, PosIs
    <3> QED BY <3>2, <2>1, <2>2, <2>4
  <2>6. j = k
    BY <2>5, <2>1, <1>2
  <2> QED BY <2>4, <2>5, <2>6 DEF x
<1> QED BY <1>1, <1>4, <1>6, <1>7 DEF size

\* A whole volume keeps all of the text it holds, of which the kept text is the
\* beginning.
LEMMA WholeText ==
  ASSUME NEW d, NEW p, NEW t, Whole(d, p, t), d[Dir][2] = First(p)
  PROVE  Whole(d, p, Text(d)) /\ IsStart(t, Text(d))
<1>1. /\ Text(d) \in Seq(Nat) /\ Len(Text(d)) = d[Dir][1]
      /\ \A k \in 1..Len(p), i \in Cells :
            Pos(k, i) < d[Dir][1] => Text(d)[Pos(k, i) + 1] = d[Sector(p[k])][i]
  BY TextIs
<1>2. DirOk(d[Dir], p, t) /\ d[Dir][1] \in Nat /\ Len(t) \in Nat /\ Len(p) \in Nat
      /\ Len(t) <= d[Dir][1] /\ Len(t) <= Len(p) * Width /\ Len(p) * Width \in Nat
  BY WholeFacts, Ends DEF Whole, DirOk
<1>3. DirOk(d[Dir], p, Text(d))
  BY <1>1, <1>2 DEF DirOk
<1>4. TextKept(d, p, Text(d))
  BY <1>1 DEF TextKept, OldText
<1>5. ASSUME NEW x \in 1..Len(t) PROVE t[x] = Text(d)[x]
  <2> DEFINE y == x - 1
  <2>1. y \in Nat /\ y < Len(t) /\ y + 1 = x
    BY <1>2
  <2> HIDE DEF y
  <2> DEFINE k == (y \div Width) + 1
             i == y % Width
  <2>2. k \in Nat \ {0} /\ i \in Cells /\ y = Pos(k, i)
    <3>1. y \div Width \in Nat /\ y % Width \in Cells /\ y = Pos((y \div Width) + 1, y % Width)
      BY <2>1, PosOf
    <3> QED BY <3>1
  <2> HIDE DEF k, i
  <2>3. k <= Len(p)
    <3>1. Pos(k, i) < Len(p) * Width
      BY <1>2, <2>1, <2>2
    <3> QED BY <1>2, <2>2, <3>1, PosWithin
  <2>4. k \in 1..Len(p)
    BY <1>2, <2>2, <2>3
  <2>5. OldText(d[Sector(p[k])], k, t)
    BY <2>4 DEF Whole, TextKept
  <2>6. d[Sector(p[k])][i] = t[x]
    BY <2>1, <2>2, <2>5 DEF OldText
  <2>7. Text(d)[x] = d[Sector(p[k])][i]
    <3>1. Pos(k, i) < d[Dir][1]
      BY <1>2, <2>1, <2>2
    <3> QED BY <1>1, <2>1, <2>2, <2>4, <3>1
  <2> QED BY <2>6, <2>7
<1> QED BY <1>1, <1>2, <1>3, <1>4, <1>5 DEF Whole, IsStart

\* The beginning of a beginning is a beginning.
LEMMA StartOfStart ==
  ASSUME NEW s \in Seq(Nat), NEW t \in Seq(Nat), NEW u \in Seq(Nat), IsStart(s, t), IsStart(t, u)
  PROVE  IsStart(s, u)
<1>1. Len(s) \in Nat /\ Len(t) \in Nat /\ Len(u) \in Nat
  OBVIOUS
<1> QED BY <1>1 DEF IsStart

\* A volume that keeps a text keeps every beginning of it.
LEMMA WholeShorter ==
  ASSUME NEW d, NEW p, NEW t, Whole(d, p, t), NEW s \in Seq(Nat), IsStart(s, t)
  PROVE  Whole(d, p, s)
<1>1. /\ Len(s) \in Nat /\ Len(t) \in Nat /\ Len(s) <= Len(t) /\ t \in Seq(Nat) /\ Len(p) \in Nat
      /\ \A k \in 1..Len(s) : s[k] = t[k]
  BY WholeFacts DEF IsStart
<1>2. DirOk(d[Dir], p, s)
  <2>1. d[Dir][1] \in Nat /\ DirOk(d[Dir], p, t)
    BY WholeFacts, Ends DEF Whole
  <2> QED BY <1>1, <2>1 DEF DirOk
<1>3. TextKept(d, p, s)
  <2> SUFFICES ASSUME NEW k \in 1..Len(p), NEW i \in Cells, Pos(k, i) < Len(s)
               PROVE  d[Sector(p[k])][i] = s[Pos(k, i) + 1]
    BY DEF TextKept, OldText
  <2>1. Pos(k, i) \in Nat
    BY <1>1, PosIs
  <2>2. Pos(k, i) < Len(t) /\ Pos(k, i) + 1 \in 1..Len(s)
    BY <1>1, <2>1
  <2> QED BY <1>1, <2>2 DEF Whole, TextKept, OldText
<1> QED BY <1>2, <1>3 DEF Whole

\* What f_open of the next append finds, also after a loss of power: if the
\* entry names no cluster, the log is empty, and what had been linked is lost
\* but harmful to nobody.
LEMMA WholeAgain ==
  ASSUME NEW d, NEW p, NEW t, Whole(d, p, t)
  PROVE  \E w \in Seq(Own) : Whole(d, w, t) /\ d[Dir][2] = First(w)
<1>1. DirOk(d[Dir], p, t) /\ p \in Seq(Own) /\ Len(t) \in Nat /\ d[Dir][1] \in Nat
  BY WholeFacts, Ends DEF Whole
<1>2. CASE d[Dir][2] = First(p)
  BY <1>1, <1>2
<1>3. CASE d[Dir][2] # First(p)
  <2>1. d[Dir][2] = 0 /\ d[Dir][1] = 0 /\ Len(t) = 0
    BY <1>1, <1>3 DEF DirOk
  <2>2. PICK w \in Seq(Own) : w = <<>>
    BY EmptySeq
  <2>3. Len(w) = 0 /\ First(w) = 0
    BY <2>2 DEF First
  <2>4. Len(w) * Width = 0
    BY <2>3, Numbers
  <2>5. DirOk(d[Dir], w, t)
    BY <1>1, <2>1, <2>3, <2>4 DEF DirOk
  <2>6. Path(d, w) /\ TextKept(d, w, t)
    BY <2>2, <2>3 DEF Path, TextKept
  <2>7. Whole(d, w, t)
    BY <2>5, <2>6 DEF Whole
  <2> QED BY <2>1, <2>3, <2>7
<1> QED BY <1>2, <1>3

\* f_mount clears the work area: an empty cache is right for every whole
\* volume.
LEMMA NoFsIs ==
  ASSUME NEW d, NEW p, NEW t, Whole(d, p, t)
  PROVE  Good(d, NoFs, <<>>, p, t)
<1>1. NoFs \in Fss /\ \A i \in Slots : NoFs.tag[i] = 0
  <2>1. Blank \in [Cells -> Nat] /\ 0 \in Slots /\ 0 \in 0..LastCluster
    BY Numbers DEF Blank, Slots
  <2> QED BY <2>1 DEF NoFs, Fss
<1>2. NoFs.dirty = {} /\ 0 \in Slots /\ 1 \in Slots
  BY DEF NoFs, Slots
<1>3. ASSUME NEW b PROVE Window(d, 0, b, p, t)
  <2>1. \A c \in Clusters : FatSector(c) # 0
    BY FatPlace, Apart
  <2>2. \A k \in 1..Len(p) : Sector(p[k]) # 0
    BY WholeFacts, SectorPlace
  <2> QED BY <2>1, <2>2, Apart DEF Window, FatWindow, DataWindow
<1>4. 0 \notin Meta
  BY Apart DEF Meta
<1>5. Cache(d, NoFs, p, t)
  BY <1>1, <1>2, <1>3, <1>4 DEF Cache
<1> QED BY <1>5, NoAccess DEF Good

-----------------------------------------------------------------------------
(* Changes of the cache that only some of the steps make.                   *)

\* create_chain for a log that had no cluster: the first one may be taken.
LEMMA FirstCluster ==
  ASSUME NEW d, NEW f, NEW q, NEW p, NEW t, Good(d, f, q, p, t), Len(p) = 0,
         NEW n, Linkable(d, n, p)
  PROVE  /\ <<n>> \in Seq(Own) /\ Len(<<n>>) = 1 /\ First(<<n>>) = n /\ Len(t) = 0
         /\ Whole(d, <<n>>, t) /\ Cache(d, f, <<n>>, t)
<1> DEFINE w == <<n>>
<1>1. w \in Seq(Own) /\ Len(w) = 1 /\ w[1] = n /\ First(w) = n
  BY DEF Linkable, First
<1>2. Len(t) = 0 /\ t \in Seq(Nat) /\ d \in Disks /\ d[Dir] \in [Cells -> Nat] /\ p \in Seq(Own)
  <2>1. Len(t) \in Nat /\ Len(t) <= Len(p) * Width /\ Len(p) * Width = 0
    BY WholeFacts, Numbers DEF Good
  <2> QED BY <2>1, WholeFacts DEF Good
<1>3. /\ \A x \in {0} \cup Nat : x <= Len(p) * Width => x <= Len(w) * Width
      /\ Loadable(p) \subseteq Loadable(w)
  <2>1. Len(p) * Width = 0 /\ Len(w) * Width = Width /\ Width \in Nat
    BY <1>1, Numbers
  <2>2. DataOf(p) = {}
    BY DEF DataOf
  <2> QED BY <2>1, <2>2 DEF Loadable
<1> HIDE DEF w
<1>4. ASSUME NEW b, b[1] \in Nat, DirOk(b, p, t) PROVE DirOk(b, w, t)
  BY <1>3, <1>4 DEF DirOk, First
<1>5. ASSUME NEW b, NEW k \in 1..Len(w) PROVE OldText(b, k, t)
  <2>1. k \in Nat \ {0} /\ \A i \in Cells : Pos(k, i) \in Nat
    BY <1>1, PosIs
  <2> QED BY <1>2, <2>1 DEF OldText
<1>6. Whole(d, w, t)
  <2>1. Path(d, w)
    BY <1>1 DEF Path, Linkable
  <2>2. DirOk(d[Dir], w, t)
    BY <1>2, <1>4, Ends DEF Good, Whole
  <2>3. TextKept(d, w, t)
    BY <1>5 DEF TextKept
  <2> QED BY <2>1, <2>2, <2>3 DEF Good, Whole
<1>7. Cache(d, f, w, t)
  <2>1. ASSUME NEW i \in Slots PROVE Window(d, f.tag[i], f.buf[i], w, t)
    <3>1. Window(d, f.tag[i], f.buf[i], p, t) /\ f.buf[i] \in [Cells -> Nat]
      BY CacheFacts DEF Good
    <3>2. FatWindow(d, f.tag[i], f.buf[i], w)
      BY <3>1 DEF Window, FatWindow, EntryOk
    <3>3. DataWindow(f.tag[i], f.buf[i], w, t)
      BY <1>5 DEF DataWindow
    <3>4. f.tag[i] = Dir => DirOk(f.buf[i], w, t)
      BY <3>1, <1>4, Ends DEF Window
    <3> QED BY <3>1, <3>2, <3>3, <3>4, <1>3 DEF Window
  <2> QED BY <2>1 DEF Good, Cache
<1> QED BY <1>1, <1>2, <1>6, <1>7 DEF w

Retag(f, s) == [f EXCEPT !.tag[f.win] = s]

\* f_write gives a clean window to a sector behind the end of the text without
\* reading it.
LEMMA RetagIs ==
  ASSUME NEW d, NEW f, NEW p, NEW t, Whole(d, p, t), Cache(d, f, p, t),
         NEW k \in 1..Len(p), NEW s, s = Sector(p[k]), f.win \notin f.dirty,
         Len(t) <= Pos(k, 0), \A i \in Slots \ {f.win} : f.tag[i] # s
  PROVE  /\ Cache(d, Retag(f, s), p, t)
         /\ Retag(f, s).tag[f.win] = s /\ Retag(f, s).win = f.win
         /\ Retag(f, s).dirty = f.dirty
         /\ \A m : NewText(d, f, p, t, Pos(k, 0), m) => NewText(d, Retag(f, s), p, t, Pos(k, 0), m)
         /\ Entered(d, f) => Entered(d, Retag(f, s))
<1> DEFINE g == Retag(f, s)
<1>1. /\ f \in Fss /\ f.dirty \subseteq Slots /\ f.win \in Slots
      /\ \A i \in Slots : f.tag[i] \in Sectors \cup {0} /\ Window(d, f.tag[i], f.buf[i], p, t)
      /\ s \in DataOf(p) /\ s \in Sectors /\ s # Dir /\ s \notin FatPart /\ s # 0
      /\ s \notin Meta /\ p[k] \in Clusters /\ k \in Nat \ {0}
  BY CacheFacts, WholeFacts, SectorPlace, Apart DEF DataOf, Meta
<1>2. /\ g \in Fss /\ g.tag[f.win] = s /\ g.win = f.win /\ g.dirty = f.dirty /\ g.buf = f.buf
      /\ \A i \in Slots \ {f.win} : g.tag[i] = f.tag[i]
  BY <1>1 DEF Fss, Retag
<1> HIDE DEF g
<1>3. ASSUME NEW j \in 1..Len(p), s = Sector(p[j]) PROVE j = k
  <2>1. p[j] \in Clusters /\ p[j] = p[k]
    BY <1>1, <1>3, WholeFacts, SectorPlace
  <2> QED BY <2>1 DEF Whole, Path
<1>4. Window(d, s, f.buf[f.win], p, t)
  <2>1. FatWindow(d, s, f.buf[f.win], p)
    BY <1>1, FatPlace DEF FatWindow
  <2>2. DataWindow(s, f.buf[f.win], p, t)
    <3> SUFFICES ASSUME NEW i \in Cells, Pos(k, i) < Len(t) PROVE FALSE
      BY <1>3 DEF DataWindow, OldText
    <3>1. Pos(k, 0) \in Nat /\ Pos(k, i) \in Nat /\ Len(t) \in Nat
      BY <1>1, PosIs, Ends, WholeFacts
    <3>2. Pos(k, 0) <= Pos(k, i)
      <4>1. (k - 1) * Width \in Nat /\ i \in Nat
        <5>1. k - 1 \in Nat /\ Width \in Nat
          BY <1>1, Numbers
        <5>2. \A a, b \in Nat : a * b \in Nat
          OBVIOUS
        <5>3. i \in Nat
          BY <5>1 DEF Cells
        <5> QED BY ONLY <5>1, <5>2, <5>3
      <4> QED BY ONLY <4>1 DEF Pos
    <3> QED BY <3>1, <3>2
  <2> QED BY <1>1, <2>1, <2>2 DEF Window, Loadable
<1>5. Cache(d, g, p, t)
  <2>1. \A i \in Slots : Window(d, g.tag[i], g.buf[i], p, t)
    BY <1>1, <1>2, <1>4
  <2>2. g.tag[0] = g.tag[1] => g.tag[0] = 0
    BY <1>1, <1>2 DEF Slots, Cache
  <2>3. \A i \in g.dirty : g.tag[i] # 0
    BY <1>1, <1>2 DEF Cache
  <2>4. \A i \in Slots \ g.dirty : g.tag[i] \in Meta => g.buf[i] = d[g.tag[i]]
    BY <1>1, <1>2 DEF Cache
  <2> QED BY <1>2, <2>1, <2>2, <2>3, <2>4 DEF Cache
<1>6. ASSUME NEW m, NewText(d, f, p, t, Pos(k, 0), m)
      PROVE  NewText(d, g, p, t, Pos(k, 0), m)
  <2> SUFFICES ASSUME NEW j \in 1..Len(p), NEW i \in Cells,
                      Len(t) <= Pos(j, i), Pos(j, i) < Pos(k, 0)
               PROVE  /\ \A x \in Slots : g.tag[x] = Sector(p[j]) => g.buf[x][i] = m
                      /\ \/ d[Sector(p[j])][i] = m
                         \/ \E x \in g.dirty : g.tag[x] = Sector(p[j])
    BY DEF NewText
  <2>1. /\ \A x \in Slots : f.tag[x] = Sector(p[j]) => f.buf[x][i] = m
        /\ d[Sector(p[j])][i] = m \/ \E x \in f.dirty : f.tag[x] = Sector(p[j])
    BY <1>6 DEF NewText
  <2>2. s # Sector(p[j])
    <3> SUFFICES ASSUME j = k PROVE FALSE
      BY <1>3
    <3>1. (k - 1) * Width \in Nat /\ i \in Nat
      BY <1>1, Numbers DEF Cells
    <3> QED BY <3>1 DEF Pos
  <2> QED BY <1>1, <1>2, <2>1, <2>2
<1>7. Entered(d, f) => Entered(d, g)
  BY <1>1, <1>2 DEF Entered
<1> QED BY <1>2, <1>5, <1>6, <1>7 DEF g

\* Choosing another window changes nothing of what they hold.
LEMMA SameIs ==
  ASSUME NEW d, NEW f, NEW g, SameBut(f, g)
  PROVE  /\ \A p, t, n, m : NewText(d, f, p, t, n, m) => NewText(d, g, p, t, n, m)
         /\ Entered(d, f) => Entered(d, g)
         /\ \A x, y : Updated(d, f, x, y) => Updated(d, g, x, y)
         /\ FatClean(d, f) => FatClean(d, g)
         /\ \A s : OneFile(f, s) => OneFile(g, s)
         /\ g.dirty = f.dirty /\ g.last = f.last /\ g.tag = f.tag /\ g.buf = f.buf
BY DEF SameBut, NewText, Entered, Updated, FatClean, OneFile

\* The first access of an append.
Mounted(l, v) == [NoFs EXCEPT !.lastClust = l, !.fsiValid = v]

\* The first access of an append is to the directory, into an empty cache.
LEMMA MountIs ==
  ASSUME NEW d, NEW p, NEW t, Whole(d, p, t), NEW l \in 0..LastCluster, NEW v \in BOOLEAN,
         NEW f, f = Mounted(l, v),
         NEW g, g = Moved(f, Dir), NEW q, q = MoveIo(f, Dir)
  PROVE  /\ Good(d, g, q, p, t) /\ Reads(q) /\ \A r : Comes(g, q, r, Dir)
         /\ g.dirty = {} /\ g.win = 0 /\ g.last = 0 /\ \A i \in Slots : g.tag[i] = 0
<1>1. Good(d, NoFs, <<>>, p, t)
  BY NoFsIs
<1>2. /\ f \in Fss /\ f.tag = NoFs.tag /\ f.buf = NoFs.buf /\ f.dirty = NoFs.dirty
      /\ f.win = 0 /\ f.last = 0 /\ NoFs \in Fss
  BY <1>1, CacheFacts DEF Good, Fss, NoFs, Mounted
<1>3. Cache(d, f, p, t)
  BY <1>1, <1>2 DEF Good, Cache
<1>4. f.dirty = {} /\ \A i \in Slots : f.tag[i] = 0
  BY <1>2 DEF NoFs
<1> HIDE DEF NoFs
<1>5. Dir # 0 /\ Dir \in Loadable(p) /\ Dir \in Sectors /\ 0 \in Slots
  BY Apart DEF Loadable, Meta, Slots
<1>6. Holding(f, Dir) = {} /\ Victim(f) = 0 /\ f.tag[f.win] = 0
  BY <1>2, <1>4, <1>5 DEF Holding, Victim
<1>7. Sync(f, 0) = <<>>
  BY <1>4 DEF Sync
<1>8. q = <<>> \o Read(0, Dir, 0)
  BY <1>6, <1>7 DEF MoveIo
<1>9. q = <<[op |-> "read", slot |-> 0, sector |-> Dir, tag |-> 0, clears |-> {}, must |-> TRUE]>>
  <2>1. \A a : <<>> \o <<a>> = <<a>>
    OBVIOUS
  <2> QED BY <1>8, <2>1 DEF Read
<1>10. SameBut(f, g) /\ g.win = 0
  BY <1>2, <1>6, MovedIs
<1>11. g.dirty = {} /\ g.last = 0 /\ \A i \in Slots : g.tag[i] = 0
  BY <1>2, <1>4, <1>10 DEF SameBut
<1>12. Cache(d, g, p, t)
  BY <1>3, <1>10, SameCache
<1> DEFINE a == [op |-> "read", slot |-> 0, sector |-> Dir, tag |-> 0, clears |-> {}, must |-> TRUE]
<1>13. /\ a \in Accesses /\ a.op = "read" /\ a.must /\ a.clears = {} /\ a.slot = 0 /\ a.tag = 0
       /\ a.sector = Dir
  BY <1>5 DEF Accesses
<1>14. q = <<a>>
  BY <1>9
<1> HIDE DEF a
<1>15. Len(q) = 1 /\ q[1] = a /\ q # <<>> /\ q \in Seq(Accesses)
  <2>1. \A S : \A x \in S : <<x>> \in Seq(S) /\ Len(<<x>>) = 1 /\ <<x>>[1] = x /\ <<x>> # <<>>
    OBVIOUS
  <2> QED BY <2>1, <1>13, <1>14
<1>16. Loading(a, g, p)
  BY <1>5, <1>10, <1>11, <1>13 DEF Loading
<1>17. Pending(d, g, q, p)
  <2>1. BothSaved(d, g, q, 1)
    <3>1. q[1].clears # Slots
      BY <1>5, <1>13, <1>15
    <3> QED BY <3>1 DEF BothSaved
  <2>2. \A k \in 1..Len(q) : k = 1 /\ k = Len(q)
    BY <1>15
  <2>3. Loading(q[1], g, p) /\ g.win \notin g.dirty
    BY <1>11, <1>15, <1>16
  <2> QED BY <1>15, <2>1, <2>2, <2>3 DEF Pending
<1> QED BY <1>10, <1>11, <1>12, <1>13, <1>15, <1>17 DEF Good, Reads, Comes

-----------------------------------------------------------------------------
(* A line's text is copied into the window.                                 *)

\* The positions of a cluster are behind each other and behind those of the
\* clusters before it.
LEMMA PosParts ==
  ASSUME NEW k \in Nat \ {0}
  PROVE  /\ (k - 1) * Width \in Nat /\ k * Width \in Nat /\ Pos(k, 0) = (k - 1) * Width
         /\ k * Width = (k - 1) * Width + Width
         /\ \A i \in Cells : Pos(k, i) = Pos(k, 0) + i /\ Pos(k, i) \in Nat
         /\ \A j \in Nat \ {0} : j < k => j * Width <= Pos(k, 0)
<1>1. (k - 1) * Width \in Nat /\ k * Width \in Nat /\ k * Width = (k - 1) * Width + Width
      /\ Width \in Nat /\ k - 1 \in Nat
  BY Numbers
<1>2. \A j \in Nat \ {0} : j < k => j * Width <= (k - 1) * Width
  <2> SUFFICES ASSUME NEW j \in Nat \ {0}, j < k PROVE j * Width <= (k - 1) * Width
    OBVIOUS
  <2>1. k - 1 - j \in Nat
    OBVIOUS
  <2>2. (k - 1 - j) * Width \in Nat /\ (k - 1 - j) * Width = (k - 1) * Width - j * Width
        /\ j * Width \in Nat
    BY <1>1, <2>1
  <2> QED BY <1>1, <2>2
<1>3. Pos(k, 0) = (k - 1) * Width /\ \A i \in Cells : i \in Nat /\ Pos(k, i) = (k - 1) * Width + i
  BY <1>1 DEF Pos, Cells
<1> QED BY <1>1, <1>2, <1>3

\* Positions are ordered as the clusters are.
LEMMA PosOrder ==
  ASSUME NEW k \in Nat \ {0}, NEW j \in Nat \ {0}, k < j, NEW i \in Cells, NEW l \in Cells
  PROVE  /\ Pos(k, i) < Pos(j, l)
         /\ \A n \in Nat : i + n <= Width => Pos(k, i) + n <= Pos(j, l)
<1> DEFINE x == (k - 1) * Width
           y == (j - 1) * Width
           z == (j - 1 - k) * Width
<1>1. x \in Nat /\ y \in Nat /\ z \in Nat /\ y = x + Width + z /\ Width \in Nat
  <2>1. j - 1 - k \in Nat /\ k - 1 \in Nat /\ j - 1 \in Nat
    OBVIOUS
  <2> QED BY <2>1, Numbers
<1>2. i \in Nat /\ i < Width /\ l \in Nat
  BY Numbers DEF Cells
<1>3. Pos(k, i) = x + i /\ Pos(j, l) = y + l
  BY DEF Pos
<1> HIDE DEF x, y, z
<1> QED BY <1>1, <1>2, <1>3

Copied(b, from, n, m) == [i \in Cells |-> IF i \in from..(from + n - 1) THEN m ELSE b[i]]

\* f_write copies a part of the line into the window: the old text stays and
\* the new one is longer.
LEMMA CopyIs ==
  ASSUME NEW d, NEW f, NEW p, NEW t, Whole(d, p, t), Cache(d, f, p, t),
         NEW j \in 1..Len(p), f.tag[f.win] = Sector(p[j]),
         NEW from \in Cells, NEW n \in Nat, from + n <= Width, NEW m \in Nat,
         NewText(d, f, p, t, Pos(j, from), m), Len(t) <= Pos(j, from),
         NEW b, b = Copied(f.buf[f.win], from, n, m),
         NEW g, g = [f EXCEPT !.buf[f.win] = b, !.dirty = @ \cup {f.win}]
  PROVE  /\ Edited(f, g, b) /\ Cache(d, g, p, t)
         /\ NewText(d, g, p, t, Pos(j, from) + n, m)
<1>1. /\ f \in Fss /\ f.win \in Slots /\ \A i \in Slots : f.buf[i] \in [Cells -> Nat]
      /\ Window(d, f.tag[f.win], f.buf[f.win], p, t)
      /\ \A i, k \in Slots : f.tag[i] = f.tag[k] /\ f.tag[i] # 0 => i = k
  BY CacheFacts
<1>2. b \in [Cells -> Nat]
  BY <1>1 DEF Copied
<1>3. Edited(f, g, b)
  BY <1>1, <1>2, EditIs
<1>4. /\ j \in Nat \ {0} /\ Len(t) \in Nat /\ from \in Nat /\ Width \in Nat
      /\ Pos(j, from) = Pos(j, 0) + from /\ Pos(j, 0) \in Nat /\ j * Width \in Nat
      /\ j * Width = Pos(j, 0) + Width /\ p[j] \in Clusters
      /\ \A i \in Cells : i \in Nat /\ i < Width /\ Pos(j, i) = Pos(j, 0) + i
      /\ Sector(p[j]) # 0
  <2>1. j \in Nat \ {0} /\ p[j] \in Clusters /\ Len(t) \in Nat
    BY WholeFacts
  <2>2. from \in Nat /\ Width \in Nat /\ \A i \in Cells : i \in Nat /\ i < Width
    BY Numbers DEF Cells
  <2>3. /\ Pos(j, 0) \in Nat /\ j * Width \in Nat /\ j * Width = Pos(j, 0) + Width
        /\ \A i \in Cells : Pos(j, i) = Pos(j, 0) + i
    BY <2>1, <2>2, PosParts
  <2>4. Sector(p[j]) # 0
    BY <2>1, SectorPlace
  <2> QED BY <2>1, <2>2, <2>3, <2>4
<1>5. \A i \in Cells : b[i] = IF i >= from /\ i < from + n THEN m ELSE f.buf[f.win][i]
  <2>1. \A i \in Cells : b[i] = IF i \in from..(from + n - 1) THEN m ELSE f.buf[f.win][i]
    BY DEF Copied
  <2>2. n \in Nat
    OBVIOUS
  <2>3. \A i \in Cells : i \in from..(from + n - 1) <=> i >= from /\ i < from + n
    BY ONLY <1>4, <2>2
  <2> QED BY ONLY <2>1, <2>3
<1>6. OldText(b, j, t)
  <2> SUFFICES ASSUME NEW i \in Cells, Pos(j, i) < Len(t) PROVE b[i] = t[Pos(j, i) + 1]
    BY DEF OldText
  <2>1. i < from
    BY <1>4
  <2>2. b[i] = f.buf[f.win][i]
    BY <1>4, <1>5, <2>1
  <2> QED BY <1>1, <2>2 DEF Window, DataWindow, OldText
<1>7. Cache(d, g, p, t)
  BY <1>2, <1>3, <1>6, DataEdited
<1>8. NewText(d, g, p, t, Pos(j, from) + n, m)
  <2> SUFFICES ASSUME NEW k \in 1..Len(p), NEW i \in Cells,
                      Len(t) <= Pos(k, i), Pos(k, i) < Pos(j, from) + n
               PROVE  /\ \A x \in Slots : g.tag[x] = Sector(p[k]) => g.buf[x][i] = m
                      /\ \/ d[Sector(p[k])][i] = m
                         \/ \E x \in g.dirty : g.tag[x] = Sector(p[k])
    BY DEF NewText
  <2>1. /\ g.tag = f.tag /\ g.win = f.win /\ g.dirty = f.dirty \cup {f.win}
        /\ g.buf[f.win] = b /\ \A x \in Slots \ {f.win} : g.buf[x] = f.buf[x]
    BY <1>3 DEF Edited
  <2>2. k \in Nat \ {0} /\ p[k] \in Clusters /\ Pos(k, i) = Pos(k, 0) + i /\ Pos(k, 0) \in Nat
        /\ Pos(k, i) \in Nat
    <3>1. k \in Nat \ {0} /\ p[k] \in Clusters
      BY WholeFacts
    <3> QED BY <3>1, PosParts
  <2>3. ASSUME Pos(k, i) < Pos(j, from)
        PROVE  /\ \A x \in Slots : f.tag[x] = Sector(p[k]) => f.buf[x][i] = m
               /\ d[Sector(p[k])][i] = m \/ \E x \in f.dirty : f.tag[x] = Sector(p[k])
    BY <2>3 DEF NewText
  <2>4. CASE k = j
    <3>1. f.win \in g.dirty /\ g.tag[f.win] = Sector(p[k])
      BY <2>1, <2>4
    <3>2. \A x \in Slots : g.tag[x] = Sector(p[k]) => x = f.win
      BY <1>1, <1>4, <2>1, <2>4
    <3>3. b[i] = m
      <4>1. CASE i < from
        <5>1. Pos(k, i) < Pos(j, from)
          BY <4>1, <1>4, <2>2, <2>4
        <5>2. f.buf[f.win][i] = m
          BY <5>1, <2>3, <2>4, <1>1
        <5> QED BY <5>2, <4>1, <1>4, <1>5
      <4>2. CASE i >= from
        <5>1. i < from + n
          BY <1>4, <2>2, <2>4
        <5> QED BY <5>1, <4>2, <1>5
      <4> QED BY <4>1, <4>2, <1>4
    <3> QED BY <2>1, <3>1, <3>2, <3>3
  <2>5. CASE k # j
    <3>1. Sector(p[k]) # Sector(p[j])
      <4>1. p[k] # p[j]
        BY <2>5 DEF Whole, Path
      <4> QED BY <4>1, <1>4, <2>2, SectorPlace
    <3>2. k < j
      <4> SUFFICES ASSUME j < k PROVE FALSE
        BY <1>4, <2>2, <2>5
      <4>1. Pos(j, from) + n <= Pos(k, i)
        BY <1>4, <2>2, PosOrder
      <4>2. Pos(j, from) + n \in Nat
        <5>1. n \in Nat
          OBVIOUS
        <5> QED BY ONLY <1>4, <5>1
      <4> QED BY <4>1, <4>2, <2>2
    <3>3. Pos(k, i) < Pos(j, from)
      <4> QED BY <1>4, <2>2, <3>2, PosOrder
    <3>4. \A x \in Slots : g.tag[x] = Sector(p[k]) => x # f.win
      BY <3>1, <2>1
    <3> QED BY <3>3, <3>4, <2>1, <2>3
  <2> QED BY <2>4, <2>5
<1> QED BY <1>3, <1>7, <1>8

-----------------------------------------------------------------------------
(* FSInfo is written from an empty cache.                                   *)

Informed(f) == [ClearBuff(f) EXCEPT !.buf[0] = [Blank EXCEPT ![0] = f.lastClust], !.fsiFlag = FALSE]

\* sync_fs uses a clean window for FSInfo: nothing of the volume's text, entry
\* or FAT is in it any more.
LEMMA InfoIs ==
  ASSUME NEW d, NEW f, NEW p, NEW t, Whole(d, p, t), Cache(d, f, p, t), f.dirty = {},
         NEW g, g = Informed(f), NEW q, q = Write(0, Fsi, {}, FALSE)
  PROVE  /\ Good(d, g, q, p, t) /\ g.dirty = {}
         /\ \A n, m : NewText(d, f, p, t, n, m) => NewText(d, g, p, t, n, m)
         /\ Entered(d, f) => Entered(d, g)
         /\ \A x, y : Updated(d, f, x, y) => Updated(d, g, x, y)
<1>1. f \in Fss /\ Fss # {} /\ 0 \in Slots /\ 0 \in Cells
  BY CacheFacts, Ends DEF Slots
<1>2. [Blank EXCEPT ![0] = f.lastClust] \in [Cells -> Nat] /\ [Blank EXCEPT ![0] = f.lastClust][0] = f.lastClust
      /\ f.lastClust \in 0..LastCluster
  BY <1>1, Numbers DEF Blank, Fss
<1>3. /\ g \in Fss /\ g.dirty = {} /\ \A i \in Slots : g.tag[i] = 0
      /\ g.buf[0] = [Blank EXCEPT ![0] = f.lastClust]
  <2>1. ClearBuff(f) = [f EXCEPT !.tag = [i \in Slots |-> 0], !.win = 0, !.last = 0]
    BY DEF ClearBuff
  <2>2. ClearBuff(f) \in Fss /\ ClearBuff(f).dirty = {} /\ ClearBuff(f).tag = [i \in Slots |-> 0]
    <3>1. [i \in Slots |-> 0] \in [Slots -> Sectors \cup {0}]
      OBVIOUS
    <3> DEFINE z == [i \in Slots |-> 0]
    <3> HIDE DEF z
    <3>2. z \in [Slots -> Sectors \cup {0}]
      BY <3>1 DEF z
    <3>3. ClearBuff(f) = [f EXCEPT !.tag = z, !.win = 0, !.last = 0]
      BY <2>1 DEF z
    <3>4. ClearBuff(f) \in Fss /\ ClearBuff(f).dirty = {} /\ ClearBuff(f).tag = z
      BY <1>1, <3>2, <3>3 DEF Fss
    <3> QED BY <3>4 DEF z
  <2> QED BY <1>1, <1>2, <2>2 DEF Fss, Informed
<1>4. Cache(d, g, p, t)
  <2>1. ASSUME NEW b PROVE Window(d, 0, b, p, t)
    <3>1. \A c \in Clusters : FatSector(c) # 0
      BY FatPlace, Apart
    <3>2. \A k \in 1..Len(p) : Sector(p[k]) # 0
      BY WholeFacts, SectorPlace
    <3> QED BY <3>1, <3>2, Apart DEF Window, FatWindow, DataWindow
  <2>2. 0 \notin Meta /\ 1 \in Slots
    BY Apart DEF Meta, Slots
  <2> QED BY <1>1, <1>3, <2>1, <2>2 DEF Cache
<1>5. Pending(d, g, q, p)
  <2> DEFINE a == [op |-> "write", slot |-> 0, sector |-> Fsi, tag |-> 0, clears |-> {}, must |-> FALSE]
  <2>1. q = <<a>>
    BY DEF Write
  <2>2. a \in Accesses /\ a.op = "write" /\ ~a.must /\ a.clears = {} /\ a.slot = 0 /\ a.sector = Fsi
    BY <1>1, Apart DEF Accesses
  <2> HIDE DEF a
  <2>3. Copying(a, g)
    BY <1>2, <1>3, <2>2 DEF Copying
  <2>4. a.clears # Slots
    BY <1>1, <2>2
  <2>5. Orders(d, g, <<a>>)
    BY <2>2, <2>3, <2>4, OneOrder
  <2> QED BY <2>1, <2>5, SyncPending
<1>6. ASSUME NEW n, NEW m, NewText(d, f, p, t, n, m) PROVE NewText(d, g, p, t, n, m)
  <2>1. \A k \in 1..Len(p) : Sector(p[k]) # 0
    BY WholeFacts, SectorPlace
  <2> QED BY <1>3, <1>6, <2>1 DEF NewText
<1>7. Entered(d, f) => Entered(d, g)
  BY <1>3, Apart DEF Entered
<1>8. \A x, y : Updated(d, f, x, y) => Updated(d, g, x, y)
  BY <1>3, Apart DEF Updated
<1> QED BY <1>3, <1>4, <1>5, <1>6, <1>7, <1>8 DEF Good

-----------------------------------------------------------------------------
(* The card at the beginning.                                               *)

\* Sectors of a log of the given size, and its clusters.
Filled(size) == (size + Width - 1) \div Width
FirstPath(size) == [k \in 1..Filled(size) |-> k + 2]

\* The clusters that the volume of the start gives to a log of that size are
\* enough for it and belong to nobody else.
LEMMA FilledIs ==
  ASSUME NEW size \in Sizes
  PROVE  /\ size \in Nat /\ Filled(size) \in Nat /\ size <= Filled(size) * Width
         /\ (Filled(size) = 0 <=> size = 0)
         /\ \A c \in Others \cup {LastCluster + 1} : Filled(size) + 2 < c
<1> DEFINE n == Filled(size)
<1>1. size \in Nat /\ Width \in Nat /\ Width >= 3 /\ size + Width - 1 \in Nat
  BY Numbers, VolumeAssumption
<1>2. PICK r \in Cells : n \in Nat /\ size + Width - 1 = n * Width + r
  BY <1>1, Division DEF Filled
<1>3. r \in Nat /\ r < Width /\ n * Width \in Nat
  BY <1>1, <1>2 DEF Cells
<1> HIDE DEF n
<1>4. size <= n * Width
  BY <1>1, <1>2, <1>3
<1>5. n = 0 <=> size = 0
  <2>1. CASE n = 0
    BY <2>1, <1>1, <1>4
  <2>2. CASE n > 0
    <3>1. n - 1 \in Nat
      BY <1>2, <2>2
    <3> DEFINE m == n - 1
    <3>2. m \in Nat /\ n = m + 1
      BY <1>2, <3>1
    <3> HIDE DEF m
    <3>4. m * Width \in Nat /\ n * Width = m * Width + Width
      BY <1>1, <3>2
    <3> QED BY <1>1, <1>2, <1>3, <2>2, <3>4
  <2> QED BY <1>2, <2>1, <2>2
<1>6. ASSUME NEW c \in Others \cup {LastCluster + 1} PROVE n + 2 < c
  <2>1. c \in Nat /\ c >= 3 /\ size <= (c - 3) * Width
    BY VolumeAssumption
  <2> SUFFICES ASSUME c <= n + 2 PROVE FALSE
    BY <1>2, <2>1
  <2>2. n - (c - 2) \in Nat
    BY <1>2, <2>1
  <2>3. (n - (c - 2)) * Width \in Nat /\ (c - 3) * Width \in Nat
        /\ n * Width = (n - (c - 2)) * Width + (c - 3) * Width + Width
    BY <1>1, <1>2, <2>1, <2>2
  <2> QED BY <1>1, <1>2, <1>3, <2>1, <2>3
<1> QED BY <1>1, <1>2, <1>4, <1>5, <1>6 DEF n

\* What cluster c is followed by.
FirstLink(size, c) ==
    IF c \in 3..(Filled(size) + 2) THEN IF c < Filled(size) + 2 THEN c + 1 ELSE EndOfChain
    ELSE IF c \in Others \cup {2} THEN EndOfChain ELSE 0

\* What is on the volume of the start: the links of the log, the other files
\* and the directory entry.
LEMMA VolumeSectors ==
  ASSUME NEW size \in Nat, Filled(size) \in Nat,
         \A c \in Others \cup {LastCluster + 1} : Filled(size) + 2 < c
  PROVE  /\ Volume(size) \in Disks
         /\ Volume(size)[Fsi][0] \in 0..LastCluster
         /\ \A c \in Clusters : NextOf(Volume(size), c) = FirstLink(size, c)
         /\ OthersKept(Volume(size))
         /\ Volume(size)[Dir] = IF size = 0 THEN Blank
                                ELSE [Blank EXCEPT ![0] = 1, ![1] = size, ![2] = 3]
<1> DEFINE n == Filled(size)
           used == 3..(2 + (size + Width - 1) \div Width)
           link(c) == CASE c \in used -> IF c + 1 \in used THEN c + 1 ELSE EndOfChain
                        [] c \in Others \cup {2} -> EndOfChain
                        [] OTHER -> 0
           fat(k) == [i \in Cells |-> link(k * Width + i)]
           text(c) == [i \in Cells |-> IF c \in Others THEN 7
                                       ELSE IF (c - 3) * Width + i < size THEN 8 ELSE 0]
           dir == IF size = 0 THEN Blank ELSE [Blank EXCEPT ![0] = 1, ![1] = size, ![2] = 3]
           info == [Blank EXCEPT ![0] = 2]
           d == Volume(size)
<1>1. d = [s \in Sectors |->
             CASE s = Fsi -> info
               [] s \in FatBase..(DataBase - 1) -> fat((s - FatBase) % FatSectors)
               [] s = Dir -> dir
               [] OTHER -> text(s - DataBase + 2)]
  BY DEF Volume
<1>2. /\ size \in Nat /\ n \in Nat /\ used = 3..(n + 2)
      /\ \A c \in Others \cup {LastCluster + 1} : n + 2 < c
  <2>1. /\ size \in Nat /\ n \in Nat
        /\ \A c \in Others \cup {LastCluster + 1} : n + 2 < c
    OBVIOUS
  <2>2. n = (size + Width - 1) \div Width
    BY DEF Filled
  <2> HIDE DEF n
  <2>3. used = 3..(2 + n)
    BY <2>2
  <2>4. 2 + n = n + 2
    BY <2>1
  <2> QED BY <2>1, <2>3, <2>4
<1> HIDE DEF n, used
<1>3. \A c \in Int : link(c) \in Nat /\ link(c) = FirstLink(size, c)
  <2> SUFFICES ASSUME NEW c \in Int PROVE link(c) \in Nat /\ link(c) = FirstLink(size, c)
    OBVIOUS
  <2>1. CASE c \in used
    <3>1. c + 1 \in used <=> c < n + 2
      BY <1>2, <2>1
    <3>2. c \in 3..(Filled(size) + 2)
      BY <1>2, <2>1 DEF n
    <3>3. c \in Nat
      BY <1>2, <2>1
    <3>4. link(c) = IF c + 1 \in used THEN c + 1 ELSE EndOfChain
      <4>1. c \notin Others \cup {2}
        BY <1>2, <2>1
      <4> QED BY <2>1, <4>1
    <3>5. FirstLink(size, c) = IF c < n + 2 THEN c + 1 ELSE EndOfChain
      BY <3>2 DEF FirstLink, n
    <3> QED BY <3>1, <3>3, <3>4, <3>5, Numbers
  <2>2. CASE c \notin used
    <3>1. c \notin 3..(Filled(size) + 2)
      BY <1>2, <2>2 DEF n
    <3> QED BY <2>2, <3>1, Numbers DEF FirstLink
  <2> QED BY <2>1, <2>2
<1> HIDE DEF link
<1>4. \A k \in Nat : fat(k) \in [Cells -> Nat]
  <2>1. \A k \in Nat, i \in Cells : k * Width + i \in Int
    BY Numbers DEF Cells
  <2> QED BY <1>3, <2>1
<1>5. \A c : text(c) \in [Cells -> Nat]
  OBVIOUS
<1>6. info \in [Cells -> Nat] /\ dir \in [Cells -> Nat] /\ info[0] = 2 /\ Blank \in [Cells -> Nat]
  <2>1. 0 \in Cells /\ 1 \in Cells /\ 2 \in Cells
    BY Ends
  <2>2. Blank \in [Cells -> Nat]
    BY DEF Blank
  <2> QED BY <1>2, <2>1, <2>2
<1> DEFINE x(s) == (s - FatBase) % FatSectors
<1>7. FatSectors > 0 /\ FatSectors \in Nat
  <2> SUFFICES ASSUME FatSectors = 0 PROVE FALSE
    BY Numbers
  <2>1. FatSectors * Width = 0
    BY Numbers
  <2> QED BY <2>1, Numbers
<1>8. \A s \in FatBase..(DataBase - 1) : x(s) \in Nat
  BY <1>7, Numbers
<1> HIDE DEF fat, text, dir, info, d
<1>14. ASSUME NEW s \in Sectors
       PROVE  /\ s = Fsi => d[s] = info
              /\ s \in FatBase..(DataBase - 1) => d[s] = fat(x(s)) /\ s # Fsi
              /\ s = Dir => d[s] = dir
              /\ s # Fsi /\ s \notin FatBase..(DataBase - 1) /\ s # Dir =>
                   d[s] = text(s - DataBase + 2)
  <2> DEFINE y == x(s)
             z == s - DataBase + 2
  <2>1. d[s] = CASE s = Fsi -> info
                 [] s \in FatBase..(DataBase - 1) -> fat(y)
                 [] s = Dir -> dir
                 [] OTHER -> text(z)
    BY <1>1
  <2> HIDE DEF y, z, x
  <2>2. /\ ~(s = Fsi /\ s \in FatBase..(DataBase - 1)) /\ ~(s = Fsi /\ s = Dir)
        /\ ~(s \in FatBase..(DataBase - 1) /\ s = Dir)
    BY Numbers
  <2>3. CASE s = Fsi
    BY <2>1, <2>2, <2>3
  <2>4. CASE s \in FatBase..(DataBase - 1)
    <3>1. d[s] = fat(y)
      BY <2>1, <2>2, <2>4
    <3> QED BY <2>2, <2>4, <3>1 DEF y
  <2>5. CASE s = Dir
    BY <2>1, <2>2, <2>5
  <2>6. CASE s # Fsi /\ s \notin FatBase..(DataBase - 1) /\ s # Dir
    <3>1. d[s] = text(z)
      BY <2>1, <2>6
    <3> QED BY <2>6, <3>1 DEF z
  <2> QED BY <2>3, <2>4, <2>5, <2>6
<1>9. d \in Disks
  <2> SUFFICES ASSUME NEW s \in Sectors PROVE d[s] \in [Cells -> Nat]
    <3>1. d = [s \in Sectors |-> d[s]]
      BY <1>1
    <3> QED BY <3>1 DEF Disks
  <2>1. CASE s = Fsi
    BY <1>14, <1>6, <2>1
  <2>2. CASE s # Fsi /\ s \in FatBase..(DataBase - 1)
    <3>1. d[s] = fat(x(s))
      BY <1>14, <2>2
    <3> QED BY <3>1, <1>4, <1>8, <2>2
  <2>3. CASE s # Fsi /\ s \notin FatBase..(DataBase - 1) /\ s = Dir
    <3>1. d[s] = dir
      BY <1>14, <2>3
    <3> QED BY <3>1, <1>6
  <2>4. CASE s # Fsi /\ s \notin FatBase..(DataBase - 1) /\ s # Dir
    <3>1. d[s] = text(s - DataBase + 2)
      BY <1>14, <2>4
    <3> QED BY <3>1, <1>5
  <2> QED BY <2>1, <2>2, <2>3, <2>4
<1>10. d[Fsi] = info
  BY <1>14, Apart
<1>11. d[Dir] = dir
  <2>1. Dir \in Sectors /\ Dir # Fsi
    BY Apart
  <2> QED BY <1>14, <2>1
<1>12. ASSUME NEW c \in Clusters PROVE NextOf(d, c) = FirstLink(size, c)
  <2> DEFINE q == c \div Width
  <2>1. c \in Nat /\ q \in Nat /\ FatCell(c) \in Cells /\ c = q * Width + FatCell(c)
    <3>1. c \in Nat
      BY Numbers DEF Clusters
    <3> QED BY <3>1, Division DEF FatCell
  <2>2. FatSector(c) = FatBase + q
    BY DEF FatSector
  <2> HIDE DEF q
  <2> DEFINE s == FatSector(c)
  <2>3. s \in Sectors /\ s # Fsi /\ s \in FatBase..(DataBase - 1) /\ q < FatSectors
    <3>1. s \in FatPart
      BY FatPlace
    <3> QED BY <3>1, <2>1, <2>2, Apart, Numbers DEF FatPart
  <2>4. x(s) = q
    <3>1. s - FatBase = q
      BY <2>1, <2>2, Numbers
    <3>2. q % FatSectors = q
      BY <1>7, <2>1, <2>3
    <3> QED BY <3>1, <3>2
  <2>5. d[s] = fat(q)
    <3>1. d[s] = fat(x(s))
      BY <1>14, <2>3
    <3> QED BY <3>1, <2>4
  <2>6. fat(q)[FatCell(c)] = link(q * Width + FatCell(c))
    BY <2>1 DEF fat
  <2> QED BY <1>3, <2>1, <2>5, <2>6 DEF NextOf
<1>13. OthersKept(d)
  <2> SUFFICES ASSUME NEW c \in Others PROVE d[Sector(c)] = [i \in Cells |-> 7]
    BY DEF OthersKept
  <2>1. c \in Clusters /\ c \in Nat /\ c >= 3
    BY Numbers DEF Clusters
  <2>2. Sector(c) \in Sectors /\ Sector(c) # Fsi /\ Sector(c) # Dir
    BY <2>1, SectorPlace
  <2>3. Sector(c) \notin FatBase..(DataBase - 1) /\ Sector(c) - DataBase + 2 = c
    BY <2>1, Numbers DEF Sector
  <2>4. d[Sector(c)] = text(Sector(c) - DataBase + 2)
    BY <1>14, <2>2, <2>3
  <2>5. text(c) = [i \in Cells |-> 7]
    BY DEF text
  <2> QED BY <2>3, <2>4, <2>5
<1> QED BY <1>6, <1>9, <1>10, <1>11, <1>12, <1>13, Numbers DEF dir, d

\* A volume with a log of any of the sizes is whole.
LEMMA VolumeIs ==
  ASSUME NEW size \in Sizes
  PROVE  \E p \in Seq(Own) : /\ Whole(Volume(size), p, <<>>)
                             /\ Volume(size)[Dir][2] = First(p)
<1> DEFINE n == Filled(size)
           p == FirstPath(size)
           d == Volume(size)
<1>1. /\ size \in Nat /\ n \in Nat /\ size <= n * Width /\ (n = 0 <=> size = 0)
      /\ \A c \in Others \cup {LastCluster + 1} : n + 2 < c
  BY FilledIs
<1>2. /\ d \in Disks /\ d[Fsi][0] \in 0..LastCluster
      /\ \A c \in Clusters : NextOf(d, c) = FirstLink(size, c)
      /\ OthersKept(d)
      /\ d[Dir] = IF size = 0 THEN Blank ELSE [Blank EXCEPT ![0] = 1, ![1] = size, ![2] = 3]
  BY FilledIs, VolumeSectors
<1>3. \A c \in 3..(n + 2) : c \in Own
  <2>1. LastCluster + 1 \in Others \cup {LastCluster + 1}
    OBVIOUS
  <2>2. n + 2 < LastCluster + 1 /\ \A c \in 3..(n + 2) : c \notin Others
    BY <1>1, <2>1
  <2> QED BY <1>1, <2>2, Numbers DEF Own, Clusters
<1>4. p = [k \in 1..n |-> k + 2]
  BY DEF FirstPath
<1> HIDE DEF n, p, d
<1>5. p \in Seq(Own) /\ Len(p) = n /\ \A k \in 1..n : p[k] = k + 2
  <2>1. \A k \in 1..n : k + 2 \in Own
    BY <1>1, <1>3
  <2>2. p \in [1..n -> Own]
    BY <1>4, <2>1
  <2> QED BY <1>1, <1>4, <2>2
<1>6. \A c \in Clusters :
        FirstLink(size, c) = IF c \in 3..(n + 2) THEN IF c < n + 2 THEN c + 1 ELSE EndOfChain
                             ELSE IF c \in Others \cup {2} THEN EndOfChain ELSE 0
  BY DEF FirstLink, n
<1>7. FatOk(d)
  <2>1. ASSUME NEW c \in Clusters PROVE NextOf(d, c) \in Entries
    <3>1. CASE c \in 3..(n + 2) /\ c < n + 2
      <4>1. c + 1 \in 3..(n + 2)
        BY <1>1, <3>1
      <4> QED BY <1>2, <1>3, <1>6, <3>1, <4>1 DEF Entries
    <3>2. CASE ~(c \in 3..(n + 2) /\ c < n + 2)
      BY <1>2, <1>6, <3>2 DEF Entries
    <3> QED BY <3>1, <3>2
  <2>2. ASSUME NEW c \in Others \cup {2} PROVE NextOf(d, c) = EndOfChain
    <3>1. c \in Clusters
      BY Numbers DEF Clusters
    <3>2. c \notin 3..(n + 2)
      BY <1>1, Numbers
    <3> QED BY <1>2, <1>6, <3>1, <3>2
  <2> QED BY <2>1, <2>2 DEF FatOk
<1>8. Path(d, p)
  <2>1. \A k \in 1..n : p[k] \in Clusters /\ p[k] \in 3..(n + 2)
    BY <1>1, <1>5, Apart
  <2>2. \A j, k \in 1..n : p[j] = p[k] => j = k
    BY <1>1, <1>5
  <2>3. ASSUME NEW k \in 1..n, k < n PROVE NextOf(d, p[k]) = p[k + 1]
    <3>1. p[k] < n + 2 /\ p[k] + 1 = p[k + 1]
      BY <1>1, <1>5, <2>3
    <3> QED BY <1>2, <1>6, <2>1, <3>1
  <2>4. ASSUME n > 0 PROVE NextOf(d, p[n]) = EndOfChain
    <3>1. n \in 1..n /\ ~(p[n] < n + 2)
      BY <1>1, <1>5, <2>4
    <3> QED BY <1>2, <1>6, <2>1, <3>1
  <2> QED BY <1>1, <1>5, <2>2, <2>3, <2>4 DEF Path
<1>9. /\ d[Dir][0] = (IF size = 0 THEN 0 ELSE 1) /\ d[Dir][1] = size
      /\ d[Dir][2] = (IF size = 0 THEN 0 ELSE 3)
  <2>1. 0 \in Cells /\ 1 \in Cells /\ 2 \in Cells
    BY Ends
  <2>2. Blank \in [Cells -> Nat] /\ \A i \in Cells : Blank[i] = 0
    BY DEF Blank
  <2> QED BY <1>2, <2>1, <2>2
<1>10. First(p) = d[Dir][2]
  BY <1>1, <1>5, <1>9 DEF First
<1>11. DirOk(d[Dir], p, <<>>)
  BY <1>1, <1>5, <1>9, <1>10 DEF DirOk
<1>12. TextKept(d, p, <<>>)
  <2>1. \A k \in 1..n, i \in Cells : Pos(k, i) \in Nat
    BY <1>1, PosIs
  <2> QED BY <1>5, <2>1 DEF TextKept, OldText
<1>13. Whole(d, p, <<>>)
  <2>1. <<>> \in Seq(Nat)
    OBVIOUS
  <2> QED BY <1>2, <1>7, <1>8, <1>11, <1>12, <2>1 DEF Whole
<1> QED BY <1>5, <1>10, <1>13 DEF d

-----------------------------------------------------------------------------
(* The steps of append.                                                     *)

Inner == call.pc \notin {"idle", "entry"}

\* What the invariant says inside of f_lseek, f_write and f_close.
LEMMA Here ==
  ASSUME NEW p \in Seq(Own), Typed, LogIs(p), Inner
  PROVE  /\ Good(disk, fs, io, p, old) /\ Whole(disk, p, old) /\ Cache(disk, fs, p, old)
         /\ FileOk(p) /\ (call.pc # "done" => InUse) /\ Place(p)
         /\ (call.pc # "done" /\ io = <<>> => fs.tag[fs.win] # 0)
         /\ fs \in Fss /\ fp \in Files /\ call \in Calls /\ chain \in Chains
         /\ Len(old) \in Nat /\ Len(p) \in Nat /\ made \in Nat
<1>1. Good(disk, fs, io, p, old) /\ FileOk(p) /\ (call.pc # "done" => InUse) /\ Place(p)
  BY DEF LogIs, Held, Inner, Begun
<1>2. Whole(disk, p, old) /\ Cache(disk, fs, p, old)
  BY <1>1 DEF Good
<1>3. fs \in Fss
  BY <1>2, CacheFacts
<1>4. io = <<>> => ~Reads(io)
  BY DEF Reads
<1>5. call.pc # "done" /\ io = <<>> => fs.tag[fs.win] # 0
  BY <1>1, <1>4 DEF InUse
<1> QED BY <1>1, <1>2, <1>3, <1>5 DEF Typed

\* What a step has to establish for the invariant to hold after it.
LEMMA Goes ==
  ASSUME NEW p \in Seq(Own), Good(disk', fs', io', p, old'), FileOk(p)', Inner',
         call'.pc # "done" => InUse', Place(p)'
  PROVE  LogIs(p)'
BY DEF LogIs, Held, Inner, Begun

\* Where in the file: the cluster and the place in it of fptr, and of fptr a
\* cluster further.
LEMMA PtrIs ==
  ASSUME NEW n \in Nat
  PROVE  /\ n \div Width \in Nat /\ n % Width \in Cells
         /\ n = Pos((n \div Width) + 1, n % Width)
         /\ \A m \in Nat : n < m * Width => (n \div Width) + 1 <= m
         /\ (n % Width) = 0 => n = (n \div Width) * Width
                           /\ (n + Width) \div Width = (n \div Width) + 1 /\ ((n + Width) % Width) = 0
                           /\ (n > 0 => n \div Width > 0)
                           /\ \A m \in Nat : n <= m * Width => n \div Width <= m
         /\ (n = 0 => n \div Width = 0 /\ (n % Width) = 0)
<1> DEFINE q == n \div Width
           r == n % Width
<1>1. q \in Nat /\ r \in Cells /\ n = q * Width + r
  BY Division
<1>2. n = Pos(q + 1, r)
  BY PosOf
<1>3. Width \in Nat /\ Width >= 3 /\ 0 \in Cells /\ r \in Nat /\ q * Width \in Nat
  BY <1>1, Numbers, Ends DEF Cells
<1> HIDE DEF q, r
<1>4. ASSUME NEW m \in Nat, n < m * Width PROVE q + 1 <= m
  BY <1>1, <1>2, <1>4, PosWithin
<1>5. ASSUME r = 0
      PROVE  /\ n = q * Width /\ (n + Width) \div Width = q + 1 /\ ((n + Width) % Width) = 0
             /\ (n > 0 => q > 0) /\ \A m \in Nat : n <= m * Width => q <= m
  <2>1. n = q * Width
    BY <1>1, <1>3, <1>5
  <2>2. (q + 1) * Width + 0 = n + Width
    BY <1>1, <1>3, <2>1
  <2>3. (n + Width) \div Width = q + 1 /\ ((n + Width) % Width) = 0
    <3>1. q + 1 \in Nat
      BY <1>1
    <3>2. ((q + 1) * Width + 0) \div Width = q + 1 /\ ((q + 1) * Width + 0) % Width = 0
      BY <3>1, <1>3, Divided
    <3> QED BY <3>2, <2>2
  <2>4. n > 0 => q > 0
    BY <1>1, <1>3, <2>1
  <2>5. ASSUME NEW m \in Nat, n <= m * Width PROVE q <= m
    <3> SUFFICES ASSUME q > m PROVE FALSE
      BY <1>1
    <3>1. q - m - 1 \in Nat
      BY <1>1
    <3>2. (q - m - 1) * Width \in Nat /\ m * Width \in Nat
          /\ q * Width = (q - m - 1) * Width + m * Width + Width
      BY <1>1, <1>3, <3>1
    <3> QED BY <1>3, <2>1, <2>5, <3>2
  <2> QED BY <2>1, <2>3, <2>4, <2>5
<1>6. n = 0 => q = 0 /\ r = 0
  <2> SUFFICES ASSUME n = 0 PROVE q = 0 /\ r = 0
    OBVIOUS
  <2>1. r = 0 /\ q * Width = 0
    BY <1>1, <1>3
  <2> QED BY <1>1, <1>3, <2>1
<1> QED BY <1>1, <1>2, <1>4, <1>5, <1>6 DEF q, r

\* A step that leaves the file, the card, the line and the entry alone keeps
\* what is said about them.
LEMMA FileKept ==
  ASSUME NEW p, FileOk(p), UNCHANGED <<disk, made, old, fp>>, call'.len = call.len,
         NewText(disk, fs, p, old, fp.ptr, made) => NewText(disk, fs', p, old, fp.ptr, made),
         Entered(disk, fs) => Entered(disk, fs')
  PROVE  FileOk(p)'
BY DEF FileOk, NoError

\* A step that ends in move_window.
LEMMA MoveStep ==
  ASSUME NEW p, NEW f, Whole(disk, p, old), Cache(disk, f, p, old), f.tag[f.win] # 0,
         NEW s \in Loadable(p), Move(f, s)
  PROVE  /\ Good(disk, fs', io', p, old) /\ InUse' /\ SameBut(f, fs')
         /\ \A r : Comes(fs', io', r, s)
         /\ f.dirty \subseteq {f.last} => io' = <<>> \/ Reads(io')
         /\ (\A i \in Slots : f.tag[i] # s) => io' # <<>>
<1>1. fs' = Moved(f, s) /\ io' = MoveIo(f, s)
  BY DEF Move
<1>2. /\ Good(disk, fs', io', p, old) /\ SameBut(f, fs')
      /\ fs'.tag[fs'.win] # 0 \/ Reads(io')
      /\ \A r : Comes(fs', io', r, s)
      /\ f.dirty \subseteq {f.last} => io' = <<>> \/ Reads(io')
      /\ (\A i \in Slots : f.tag[i] # s) => io' # <<>>
  <2> DEFINE g == Moved(f, s)
             q == MoveIo(f, s)
  <2> HIDE DEF g, q
  <2>1. /\ Good(disk, g, q, p, old) /\ SameBut(f, g)
        /\ g.tag[g.win] # 0 \/ Reads(q)
        /\ \A r : Comes(g, q, r, s)
        /\ f.dirty \subseteq {f.last} => q = <<>> \/ Reads(q)
        /\ (\A i \in Slots : f.tag[i] # s) => q # <<>>
    <3>1. g = Moved(f, s) /\ q = MoveIo(f, s)
      BY DEF g, q
    <3> QED BY <3>1, MoveIs
  <2>2. fs' = g /\ io' = q
    BY <1>1 DEF g, q
  <2> QED BY <2>1, <2>2
<1> QED BY <1>2 DEF InUse

\* A step that ends in get_fat.
LEMMA AskStep ==
  ASSUME NEW p, Whole(disk, p, old), Cache(disk, fs, p, old), io = <<>>, fs.tag[fs.win] # 0,
         NEW c, Ask(c)
  PROVE  /\ Good(disk, fs', io', p, old) /\ InUse' /\ SameBut(fs, fs')
         /\ \A r : Arrives(fs', io', r, c)
         /\ fs.dirty \subseteq {fs.last} => io' = <<>> \/ Reads(io')
<1>1. CASE c \in Clusters
  <2>1. Move(fs, FatSector(c))
    BY <1>1 DEF Ask
  <2>2. FatSector(c) \in Loadable(p)
    BY <1>1, FatPlace DEF Loadable, Meta
  <2> QED BY <1>1, <2>1, <2>2, MoveStep DEF Arrives
<1>2. CASE c \notin Clusters
  <2>1. fs' = fs /\ io' = <<>>
    BY <1>2 DEF Ask, NoIo
  <2>2. SameBut(fs, fs)
    BY CacheFacts DEF SameBut
  <2>3. Good(disk, fs, <<>>, p, old)
    BY NoAccess DEF Good
  <2> QED BY <1>2, <2>1, <2>2, <2>3 DEF InUse, Arrives
<1> QED BY <1>1, <1>2

-----------------------------------------------------------------------------
(* create_chain.                                                            *)

\* create_chain returns to f_write with a cluster or without.
LEMMA ToCluster ==
  ASSUME NEW p \in Seq(Own), Typed, Inner, Writing(p), Behind(p), call.then = "cluster",
         InChain, NEW c \in Nat, Return(c), io' = <<>>, chain' \in Chains,
         Good(disk, fs', <<>>, p, old), FileOk(p)', fs'.tag[fs'.win] # 0, OneFile(fs', fp.dsect),
         c \in Clusters => NextIs(disk, fs', p, J, c)
  PROVE  Typed' /\ LogIs(p)' /\ Inner'
<1>1. /\ disk' = disk /\ made' = made /\ old' = old /\ fp' = fp /\ kept' = kept /\ res' = "ok"
      /\ call' = [call EXCEPT !.pc = "cluster", !.ret = c] /\ call \in Calls /\ fp \in Files
  BY DEF InChain, Step, Return, Typed
<1>2. Typed'
  BY <1>1 DEF Typed, Calls, Places, Inner
<1>3. AtCluster(p)'
  BY <1>1 DEF AtCluster, Writing, Behind, NoError, J, Failed, Calls
<1>4. Place(p)' /\ Inner'
  BY <1>1, <1>3 DEF Place, Inner, Calls
<1>5. InUse' /\ Good(disk', fs', io', p, old')
  BY <1>1 DEF InUse
<1> QED BY <1>2, <1>4, <1>5, Goes

\* What create_chain is asked for is the same when only the window has changed.
LEMMA SameStretch ==
  ASSUME NEW p, Stretching(p), InChain, SameBut(fs, fs'), call'.left = call.left, call'.len = call.len,
         call'.then = call.then, chain'.clst = chain.clst
  PROVE  Stretching(p)' /\ (\A j : Ended(disk, p, j) => Ended(disk', p, j)) /\ J' = J
<1>1. disk' = disk /\ made' = made /\ old' = old /\ fp' = fp
  BY DEF InChain, Step
<1>2. FatClean(disk, fs) => FatClean(disk, fs')
  BY SameIs
<1>3. \A s : OneFile(fs, s) => OneFile(fs', s)
  BY SameIs
<1>4. (FatClean(disk, fs) => FatClean(disk, fs')) /\ Writing(p)' /\ Behind(p)' /\ J' = J
  BY <1>1, <1>2, <1>3 DEF Stretching, Writing, Behind, NoError, J
<1> QED BY <1>1, <1>4 DEF Stretching

\* create_chain goes to the next cluster in its search for a free one.
LEMMA ScanStep ==
  ASSUME NEW p \in Seq(Own), Typed, LogIs(p), Scan
  PROVE  Typed' /\ LogIs(p)' /\ Inner'
<1>1. call.pc = "scan" /\ io = <<>> /\ Inner /\ InChain
      /\ disk' = disk /\ made' = made /\ old' = old /\ fp' = fp /\ kept' = kept /\ res' = "ok"
  BY DEF Scan, At, InChain, Step, Inner
<1>2. /\ Good(disk, fs, io, p, old) /\ Whole(disk, p, old) /\ Cache(disk, fs, p, old)
      /\ FileOk(p) /\ Place(p) /\ fs.tag[fs.win] # 0 /\ InUse
      /\ fs \in Fss /\ fp \in Files /\ call \in Calls /\ chain \in Chains
  BY <1>1, Here
<1>3. Stretching(p) /\ Ended(disk, p, J)
  BY <1>1, <1>2 DEF Place, AtScan
<1> DEFINE next == IF Wraps THEN 2 ELSE chain.ncl + 1
<1>4. CASE Return(NoCluster) /\ NoIo /\ UNCHANGED chain
  <2>1. call'.len = call.len
    BY <1>2, <1>4 DEF Return, Calls
  <2>2. FileOk(p)'
    BY <1>1, <1>2, <1>4, <2>1, FileKept DEF NoIo
  <2> QED BY <1>1, <1>2, <1>3, <1>4, <2>2, ToCluster, Ends DEF NoIo, Stretching, Behind, NoCluster
<1>5. CASE /\ chain' = [chain EXCEPT !.ncl = next, !.tries = @ + IF Wraps /\ chain.many THEN 1 ELSE 0]
           /\ Ask(next) /\ Goto("found")
  <2>1. call' = [call EXCEPT !.pc = "found"]
    BY <1>5 DEF Goto
  <2>2. chain'.ncl = next /\ chain'.clst = chain.clst /\ chain' \in Chains
    <3>1. next \in 0..LastCluster
      BY <1>2, Numbers DEF Wraps, Chains
    <3> DEFINE more == IF Wraps /\ chain.many THEN 1 ELSE 0
    <3>2. more \in Nat
      OBVIOUS
    <3>3. chain' = [chain EXCEPT !.ncl = next, !.tries = chain.tries + more]
      BY <1>5
    <3> HIDE DEF next, more
    <3>4. chain.tries + more \in Nat
      BY <1>2, <3>2 DEF Chains
    <3> DEFINE sum == chain.tries + more
    <3> HIDE DEF sum
    <3>5. chain' = [chain EXCEPT !.ncl = next, !.tries = sum] /\ sum \in Nat
      BY <3>3, <3>4 DEF sum
    <3> QED BY <1>2, <3>1, <3>5 DEF Chains
  <2> HIDE DEF next
  <2>3. /\ Good(disk, fs', io', p, old) /\ InUse' /\ SameBut(fs, fs')
        /\ \A r : Arrives(fs', io', r, next)
    BY <1>1, <1>2, <1>5, AskStep
  <2>4. Typed'
    BY <1>1, <1>2, <2>1, <2>2 DEF Typed, Calls, Places
  <2>5. call'.len = call.len /\ call'.left = call.left /\ call'.then = call.then /\ call'.pc = "found"
    BY <1>2, <2>1 DEF Calls
  <2>6. AtFound(p)'
    BY <1>1, <1>3, <2>2, <2>3, <2>5, SameStretch DEF AtFound
  <2>7. Place(p)' /\ Inner'
    BY <2>5, <2>6 DEF Place, Inner
  <2>8. FileOk(p)'
    BY <1>1, <1>2, <2>3, <2>5, SameIs, FileKept
  <2> QED BY <1>1, <2>3, <2>4, <2>7, <2>8, Goes
<1> QED BY <1>4, <1>5 DEF Scan
\* create_chain finds the cluster free and marks it, or finds it taken and goes
\* on, starts again or gives up.
LEMMA FoundStep ==
  ASSUME NEW p \in Seq(Own), Typed, LogIs(p), Found
  PROVE  Typed' /\ LogIs(p)' /\ Inner'
<1> DEFINE n == chain.ncl
           c == chain.clst
           cs == Got(n)
           marked == Changed(fs, FatCell(n), EndOfChain)
           b == [fs.buf[fs.win] EXCEPT ![FatCell(n)] = EndOfChain]
<1>1. call.pc = "found" /\ io = <<>> /\ Inner /\ InChain
      /\ disk' = disk /\ made' = made /\ old' = old /\ fp' = fp /\ kept' = kept /\ res' = "ok"
  BY DEF Found, At, InChain, Step, Inner
<1>2. /\ Good(disk, fs, io, p, old) /\ Whole(disk, p, old) /\ Cache(disk, fs, p, old)
      /\ FileOk(p) /\ Place(p) /\ fs.tag[fs.win] # 0 /\ InUse
      /\ fs \in Fss /\ fp \in Files /\ call \in Calls /\ chain \in Chains
  BY <1>1, Here
<1>3. Stretching(p) /\ Ended(disk, p, J) /\ Arrives(fs, io, res, n)
  BY <1>1, <1>2 DEF Place, AtFound
<1>4. n \in 0..LastCluster /\ Writing(p) /\ Behind(p) /\ call.then = "cluster" /\ FatClean(disk, fs)
      /\ OneFile(fs, fp.dsect)
  BY <1>2, <1>3 DEF Stretching, Chains, Behind
<1>5. ASSUME NEW x \in Nat, x \notin Clusters, Return(x), NoIo, UNCHANGED chain
      PROVE  Typed' /\ LogIs(p)' /\ Inner'
  <2>1. call'.len = call.len
    BY <1>2, <1>5 DEF Return, Calls
  <2>2. FileOk(p)'
    BY <1>1, <1>2, <1>5, <2>1, FileKept DEF NoIo
  <2> QED BY <1>1, <1>2, <1>3, <1>4, <1>5, <2>2, ToCluster DEF NoIo
\* A cluster is free and is marked in the window.
<1>6. ASSUME cs = 0
      PROVE  /\ n \in Clusters /\ Linkable(disk, n, p) /\ Edited(fs, marked, b)
             /\ Cache(disk, marked, p, old)
             /\ marked.tag[marked.win] # 0 /\ OneFile(marked, fp.dsect)
             /\ NewText(disk, fs, p, old, fp.ptr, made) => NewText(disk, marked, p, old, fp.ptr, made)
             /\ Entered(disk, fs) => Entered(disk, marked)
             /\ \A e \in Clusters : NextOf(disk, e) = EndOfChain =>
                  \A i \in Slots : marked.tag[i] = FatSector(e) => marked.buf[i][FatCell(e)] = EndOfChain
  <2>1. n \in Clusters /\ ~Failed
    BY <1>6, Numbers DEF Got, IntError
  <2>2. fs.tag[fs.win] = FatSector(n)
    BY <1>1, <1>3, <2>1 DEF Arrives, Comes, Failed
  <2>3. fs.win \in Slots /\ FatSector(n) \in FatPart /\ FatCell(n) \in Cells
        /\ \A i \in Slots : fs.buf[i] \in [Cells -> Nat]
    BY <1>2, <2>1, FatPlace, CacheFacts
  <2>4. NextOf(disk, n) = 0
    <3>1. fs.buf[fs.win] = disk[FatSector(n)]
      BY <1>4, <2>2, <2>3 DEF FatClean
    <3>2. fs.buf[fs.win][FatCell(n)] = 0
      BY <1>6, <2>1 DEF Got, InWindow
    <3> QED BY <3>1, <3>2 DEF NextOf
  <2>5. Linkable(disk, n, p)
    <3>1. n \in Own
      BY <1>2, <2>1, <2>4, Ends DEF Whole, FatOk, Own
    <3>2. ASSUME NEW k \in 1..Len(p), p[k] = n PROVE FALSE
      <4>1. Len(p) \in Nat /\ Len(p) = J /\ (Len(p) > 0 => NextOf(disk, p[Len(p)]) = EndOfChain)
        BY <1>2, <1>3, WholeFacts DEF Ended
      <4>2. CASE k = Len(p)
        BY <2>4, <3>2, <4>1, <4>2, Ends
      <4>3. CASE k < Len(p)
        <5>1. NextOf(disk, n) = p[k + 1]
          BY <1>2, <3>2, <4>3 DEF Whole, Path
        <5>2. p[k + 1] \in Own
          BY <4>1, <4>3, <1>2, WholeFacts
        <5> QED BY <2>4, <5>1, <5>2, Ends
      <4> QED BY <4>1, <4>2, <4>3
    <3> QED BY <2>4, <3>1, <3>2 DEF Linkable
  <2>6. Edited(fs, marked, b)
    BY <1>2, <2>3, ChangedIs, Ends, Numbers
  <2> HIDE DEF marked
  <2>7. /\ Cache(disk, marked, p, old)
        /\ \A e \in Clusters : NextOf(disk, e) = EndOfChain =>
             \A i \in Slots : marked.tag[i] = FatSector(e) => marked.buf[i][FatCell(e)] = EndOfChain
    <3>1. b = [fs.buf[fs.win] EXCEPT ![FatCell(n)] = EndOfChain]
      OBVIOUS
    <3> HIDE DEF n, b
    <3> QED BY <1>2, <1>4, <2>1, <2>2, <2>4, <2>6, <3>1, Marked
  <2>8. marked.tag = fs.tag /\ marked.win = fs.win
    BY <2>6 DEF Edited
  <2>9. FatSector(n) \notin DataOf(p) /\ FatSector(n) # Dir
    BY <1>2, <2>3, WholeFacts, SectorPlace, Apart DEF DataOf
  <2>10. NewText(disk, fs, p, old, fp.ptr, made) => NewText(disk, marked, p, old, fp.ptr, made)
    BY <2>2, <2>6, <2>9, EditedText
  <2>11. Entered(disk, fs) => Entered(disk, marked)
    BY <2>2, <2>6, <2>9, EditedEntry
  <2> QED BY <1>2, <1>4, <2>1, <2>5, <2>6, <2>7, <2>8, <2>10, <2>11 DEF OneFile
<1> HIDE DEF marked, b
<1>7. CASE cs = 0 /\ c # NoCluster /\ Move(marked, FatSector(c)) /\ Goto("link") /\ UNCHANGED chain
  <2>1. call' = [call EXCEPT !.pc = "link"]
    BY <1>7 DEF Goto
  <2>2. c \in Clusters /\ FatSector(c) \in Loadable(p)
    BY <1>2, <1>7, FatPlace DEF Chains, NoCluster, Loadable, Meta
  <2>3. /\ Good(disk, fs', io', p, old) /\ InUse' /\ SameBut(marked, fs')
        /\ \A r : Comes(fs', io', r, FatSector(c))
    BY <1>2, <1>6, <1>7, <2>2, MoveStep
  <2>4. /\ NewText(disk, fs, p, old, fp.ptr, made) => NewText(disk, fs', p, old, fp.ptr, made)
        /\ Entered(disk, fs) => Entered(disk, fs')
        /\ OneFile(fs', fp.dsect)
        /\ fs'.tag = marked.tag /\ fs'.buf = marked.buf
    BY <1>6, <1>7, <2>3, SameIs
  <2>5. call'.len = call.len /\ call'.left = call.left /\ call'.then = call.then /\ call'.pc = "link"
    BY <1>2, <2>1 DEF Calls
  <2>6. FileOk(p)'
    BY <1>1, <1>2, <2>4, <2>5, FileKept
  <2>7. Typed'
    BY <1>1, <1>2, <1>7, <2>1 DEF Typed, Calls, Places
  <2>8. J > 0 /\ c = p[J] /\ J <= Len(p) /\ J' = J
    BY <1>1, <1>3, <1>7 DEF Stretching, NoCluster, J
  <2>9. \A i \in Slots : fs'.tag[i] = FatSector(p[J]) => fs'.buf[i][FatCell(p[J])] = EndOfChain
    <3>1. NextOf(disk, c) = EndOfChain
      BY <1>3, <2>8 DEF Ended
    <3> HIDE DEF c
    <3>2. \A i \in Slots : fs'.tag[i] = FatSector(c) => fs'.buf[i][FatCell(c)] = EndOfChain
      BY <1>6, <1>7, <2>2, <2>4, <3>1
    <3> QED BY <2>8, <3>2
  <2>10. Writing(p)' /\ Behind(p)'
    <3>1. OneFile(fs', fp'.dsect)
      BY <1>1, <2>4
    <3> QED BY <1>1, <1>4, <2>5, <2>8, <3>1 DEF Writing, Behind, NoError
  <2>11. Linkable(disk, n, p)
    BY <1>6, <1>7
  <2>12. AtLink(p)'
    BY <1>1, <1>3, <1>4, <1>7, <2>3, <2>5, <2>8, <2>9, <2>10, <2>11 DEF AtLink
  <2>13. Place(p)' /\ Inner'
    BY <2>5, <2>12 DEF Place, Inner
  <2> QED BY <1>1, <2>3, <2>6, <2>7, <2>13, Goes
<1>8. CASE cs = 0 /\ c = NoCluster /\ fs' = Taken(marked) /\ Return(n) /\ UNCHANGED <<io, chain>>
  <2>1. Edited(fs, fs', b)
    BY <1>4, <1>6, <1>8, TakenIs
  <2>2. Cache(disk, fs', p, old)
    <3>1. marked.tag = fs.tag /\ marked.win = fs.win /\ marked.buf[fs.win] = b /\ fs.win \in Slots
      BY <1>2, <1>6, <1>8, CacheFacts DEF Edited
    <3>2. Window(disk, fs.tag[fs.win], b, p, old)
      BY <1>6, <1>8, <3>1 DEF Cache
    <3> QED BY <1>2, <2>1, <3>2, CacheEdited
  <2>3. /\ fs'.tag = marked.tag /\ fs'.win = marked.win /\ fs'.buf = marked.buf
        /\ fs'.dirty = marked.dirty
    <3>1. marked \in Fss
      BY <1>6, <1>8 DEF Edited
    <3> QED BY <1>8, <3>1 DEF Taken, Fss
  <2>4. Good(disk, fs', <<>>, p, old)
    BY <1>2, <2>2, NoAccess DEF Good
  <2>5. FileOk(p)'
    <3>1. NewText(disk, fs, p, old, fp.ptr, made) => NewText(disk, fs', p, old, fp.ptr, made)
      BY <1>6, <1>8, <2>3 DEF NewText
    <3>2. Entered(disk, fs) => Entered(disk, fs')
      BY <1>6, <1>8, <2>3 DEF Entered
    <3>3. call'.len = call.len
      BY <1>2, <1>8 DEF Return, Calls
    <3> QED BY <1>1, <1>2, <3>1, <3>2, <3>3, FileKept
  <2>6. NextIs(disk, fs', p, J, n)
    <3>1. J = 0
      <4>1. fp.ptr = 0
        <5>1. J \in Nat
          BY <1>2, PtrIs DEF J, Files
        <5> QED BY <1>2, <1>3, <1>8, <5>1, WholeFacts DEF Stretching, NoCluster
      <4> QED BY <4>1, PtrIs DEF J
    <3> QED BY <1>3, <1>6, <1>8, <3>1 DEF NextIs, Ended
  <2>7. fs'.tag[fs'.win] # 0 /\ OneFile(fs', fp.dsect)
    BY <1>6, <1>8, <2>3 DEF OneFile
  <2> HIDE DEF n
  <2>8. n \in Nat /\ io' = <<>> /\ chain' \in Chains
    BY <1>1, <1>2, <1>4, <1>8
  <2>9. Return(n)
    BY <1>8
  <2> QED BY <1>1, <1>4, <2>4, <2>5, <2>6, <2>7, <2>8, <2>9, ToCluster
<1>9. CASE cs \in {IntError, DiskError} /\ Return(cs) /\ NoIo /\ UNCHANGED chain
  BY <1>5, <1>9, Ends, Numbers DEF IntError
<1>10. CASE Return(NoCluster) /\ NoIo /\ UNCHANGED chain
  BY <1>5, <1>10, Ends DEF NoCluster
<1>11. CASE chain' = [NoChain EXCEPT !.clst = chain.clst] /\ Goto("stretch") /\ NoIo
  <2>1. call' = [call EXCEPT !.pc = "stretch"] /\ fs' = fs /\ io' = <<>>
    BY <1>1, <1>11 DEF Goto, NoIo
  <2>2. chain'.clst = chain.clst /\ chain' \in Chains
    <3>1. NoChain \in Chains
      BY Numbers DEF NoChain, Chains
    <3> HIDE DEF NoChain
    <3> QED BY <1>2, <1>11, <3>1 DEF Chains
  <2>3. Typed'
    BY <1>1, <1>2, <2>1, <2>2 DEF Typed, Calls, Places
  <2>4. call'.len = call.len /\ call'.left = call.left /\ call'.then = call.then /\ call'.pc = "stretch"
    BY <1>2, <2>1 DEF Calls
  <2>5. SameBut(fs, fs')
    BY <1>2, <2>1 DEF SameBut
  <2>6. AtStretch(p)'
    BY <1>1, <1>3, <2>1, <2>2, <2>4, <2>5, SameStretch DEF AtStretch
  <2>7. Place(p)' /\ Inner'
    BY <2>4, <2>6 DEF Place, Inner
  <2>8. FileOk(p)' /\ InUse'
    BY <1>1, <1>2, <2>1, <2>4, FileKept DEF InUse
  <2> QED BY <1>1, <1>2, <2>1, <2>3, <2>7, <2>8, Goes
<1>12. CASE /\ chain' = chain \/ chain' = [chain EXCEPT !.tries = chain.tries + 1]
            /\ Goto("scan") /\ NoIo
  <2>1. call' = [call EXCEPT !.pc = "scan"] /\ fs' = fs /\ io' = <<>>
    BY <1>1, <1>12 DEF Goto, NoIo
  <2>2. chain'.clst = chain.clst /\ chain' \in Chains
    <3>1. chain.tries + 1 \in Nat
      BY <1>2 DEF Chains
    <3> DEFINE sum == chain.tries + 1
    <3>2. sum \in Nat /\ (chain' = chain \/ chain' = [chain EXCEPT !.tries = sum])
      BY <1>12, <3>1
    <3> HIDE DEF sum
    <3> QED BY <1>2, <3>2 DEF Chains
  <2>3. Typed'
    BY <1>1, <1>2, <2>1, <2>2 DEF Typed, Calls, Places
  <2>4. call'.len = call.len /\ call'.left = call.left /\ call'.then = call.then /\ call'.pc = "scan"
    BY <1>2, <2>1 DEF Calls
  <2>5. SameBut(fs, fs')
    BY <1>2, <2>1 DEF SameBut
  <2>6. AtScan(p)'
    BY <1>1, <1>3, <2>1, <2>2, <2>4, <2>5, SameStretch DEF AtScan
  <2>7. Place(p)' /\ Inner'
    BY <2>4, <2>6 DEF Place, Inner
  <2>8. FileOk(p)' /\ InUse'
    BY <1>1, <1>2, <2>1, <2>4, FileKept DEF InUse
  <2> QED BY <1>1, <1>2, <2>1, <2>3, <2>7, <2>8, Goes
<1>13. CASE /\ cs \notin {0, IntError, DiskError} /\ ~Around
            /\ IF chain.many /\ chain.tries + 1 >= 2
               THEN /\ chain' = [NoChain EXCEPT !.clst = chain.clst] /\ Goto("stretch")
               ELSE /\ chain' = IF chain.many THEN [chain EXCEPT !.tries = chain.tries + 1] ELSE chain
                    /\ Goto("scan")
            /\ NoIo
  BY <1>11, <1>12, <1>13
<1> QED BY <1>7, <1>8, <1>9, <1>10, <1>13 DEF Found, marked

\* Where f_lseek is stays the same when only the window has changed.
LEMMA SameSeek ==
  ASSUME NEW p, Seeking(p), InChain, SameBut(fs, fs'), call'.left = call.left,
         call'.len = call.len, call'.rest = call.rest
  PROVE  Seeking(p)' /\ J' = J
<1>1. disk' = disk /\ made' = made /\ old' = old /\ fp' = fp /\ res' = "ok"
  BY DEF InChain, Step
<1>2. OneFile(fs', 0) /\ fs'.dirty = {}
  BY SameIs DEF Seeking
<1> QED BY <1>1, <1>2 DEF Seeking, J, Failed

\* create_chain begins with the cluster it was given, or with the hint of
\* FSInfo.
LEMMA StretchStep ==
  ASSUME NEW p \in Seq(Own), Typed, LogIs(p), Stretch
  PROVE  Typed' /\ LogIs(p)' /\ Inner'
<1> DEFINE c == chain.clst
<1>1. call.pc = "stretch" /\ io = <<>> /\ Inner /\ InChain
      /\ disk' = disk /\ made' = made /\ old' = old /\ fp' = fp /\ kept' = kept /\ res' = "ok"
  BY DEF Stretch, At, InChain, Step, Inner
<1>2. /\ Good(disk, fs, io, p, old) /\ Whole(disk, p, old) /\ Cache(disk, fs, p, old)
      /\ FileOk(p) /\ Place(p) /\ fs.tag[fs.win] # 0 /\ InUse
      /\ fs \in Fss /\ fp \in Files /\ call \in Calls /\ chain \in Chains
  BY <1>1, Here
<1>3. SeekingOn(p) \/ (Stretching(p) /\ (fs.dirty \subseteq {fs.last} \/ Ended(disk, p, J)))
  BY <1>1, <1>2 DEF Place, AtStretch
<1>4. J \in Nat /\ Len(p) \in Nat /\ \A k \in 1..Len(p) : p[k] # 0
  BY <1>2, PtrIs, WholeFacts DEF J, Files
<1>5. CASE /\ c = NoCluster
           /\ \E first \in 0..LastCluster : chain' = [chain EXCEPT !.scl = first, !.ncl = first]
           /\ Goto("scan") /\ NoIo
  <2>1. call' = [call EXCEPT !.pc = "scan"] /\ fs' = fs /\ io' = <<>>
    BY <1>1, <1>5 DEF Goto, NoIo
  <2>2. chain'.clst = chain.clst /\ chain' \in Chains
    BY <1>2, <1>5 DEF Chains
  <2>3. Typed'
    BY <1>1, <1>2, <2>1, <2>2 DEF Typed, Calls, Places
  <2>4. call'.len = call.len /\ call'.left = call.left /\ call'.then = call.then /\ call'.pc = "scan"
    BY <1>2, <2>1 DEF Calls
  <2>5. SameBut(fs, fs')
    BY <1>2, <2>1 DEF SameBut
  <2>6. ~SeekingOn(p)
    <3>1. J + 1 \in 1..Len(p) => p[J + 1] # 0
      BY <1>4
    <3> QED BY <1>4, <1>5, <3>1 DEF SeekingOn, Seeking, NoCluster
  <2>7. Stretching(p)
    BY <1>3, <2>6
  <2>8. Ended(disk, p, J)
    <3>1. fp.ptr = 0 /\ fp.start = 0
      BY <1>4, <1>5, <2>7 DEF Stretching, NoCluster
    <3>2. J = 0
      BY <3>1, PtrIs DEF J
    <3>3. Len(p) = 0
      BY <1>2, <3>1, PathFacts DEF FileOk, Whole
    <3> QED BY <3>2, <3>3 DEF Ended
  <2>9. AtScan(p)'
    BY <1>1, <2>1, <2>2, <2>4, <2>5, <2>7, <2>8, SameStretch DEF AtScan
  <2>10. Place(p)' /\ Inner'
    BY <2>4, <2>9 DEF Place, Inner
  <2>11. FileOk(p)' /\ InUse'
    BY <1>1, <1>2, <2>1, <2>4, FileKept DEF InUse
  <2> QED BY <1>1, <1>2, <2>1, <2>3, <2>10, <2>11, Goes
<1>6. CASE c # NoCluster /\ Ask(c) /\ Goto("status") /\ UNCHANGED chain
  <2>1. call' = [call EXCEPT !.pc = "status"] /\ chain' = chain
    BY <1>6 DEF Goto
  <2> HIDE DEF c
  <2>2. /\ Good(disk, fs', io', p, old) /\ InUse' /\ SameBut(fs, fs')
        /\ \A r : Arrives(fs', io', r, c)
        /\ fs.dirty \subseteq {fs.last} => io' = <<>> \/ Reads(io')
    BY <1>1, <1>2, <1>6, AskStep
  <2>3. Typed'
    BY <1>1, <1>2, <2>1 DEF Typed, Calls, Places
  <2>4. /\ call'.len = call.len /\ call'.left = call.left /\ call'.then = call.then
        /\ call'.pc = "status" /\ call'.rest = call.rest
    BY <1>2, <2>1 DEF Calls
  <2>5. /\ \A r : Arrives(fs', io', r, chain'.clst)
        /\ chain'.clst # 0
    BY <1>6, <2>1, <2>2 DEF c, NoCluster
  <2>6. SeekingOn(p) => SeekingOn(p)' /\ ~Failed' /\ (io' = <<>> \/ Reads(io'))
    <3> SUFFICES ASSUME SeekingOn(p) PROVE SeekingOn(p)' /\ ~Failed' /\ (io' = <<>> \/ Reads(io'))
      OBVIOUS
    <3>1. Seeking(p)'
      BY <1>1, <2>2, <2>4, SameSeek DEF SeekingOn
    <3>2. io' = <<>> \/ Reads(io')
      BY <2>2 DEF SeekingOn, Seeking
    <3> QED BY <1>1, <2>1, <2>4, <3>1, <3>2 DEF SeekingOn, Failed
  <2>7. Stretching(p) => Stretching(p)' /\ J' = J /\ (Ended(disk, p, J) => Ended(disk', p, J'))
    BY <1>1, <2>1, <2>2, <2>4, SameStretch
  <2>8. AtStatus(p)'
    BY <1>1, <1>3, <2>2, <2>5, <2>6, <2>7 DEF AtStatus, Failed
  <2>9. Place(p)' /\ Inner'
    BY <2>4, <2>8 DEF Place, Inner
  <2>10. FileOk(p)'
    BY <1>1, <1>2, <2>2, <2>4, SameIs, FileKept
  <2> QED BY <1>1, <2>2, <2>3, <2>9, <2>10, Goes
<1>7. (IF fs.lastClust \in 1..LastCluster THEN fs.lastClust ELSE 1) \in 0..LastCluster
  BY Numbers
<1> QED BY <1>5, <1>6, <1>7 DEF Stretch

\* create_chain reads the entry of the cluster it was given.
LEMMA StatusStep ==
  ASSUME NEW p \in Seq(Own), Typed, LogIs(p), Status
  PROVE  Typed' /\ LogIs(p)' /\ Inner'
<1> DEFINE c == chain.clst
           cs == Got(c)
<1>1. call.pc = "status" /\ io = <<>> /\ Inner /\ InChain
      /\ disk' = disk /\ made' = made /\ old' = old /\ fp' = fp /\ kept' = kept /\ res' = "ok"
  BY DEF Status, At, InChain, Step, Inner
<1>2. /\ Good(disk, fs, io, p, old) /\ Whole(disk, p, old) /\ Cache(disk, fs, p, old)
      /\ FileOk(p) /\ Place(p) /\ fs.tag[fs.win] # 0 /\ InUse
      /\ fs \in Fss /\ fp \in Files /\ call \in Calls /\ chain \in Chains
  BY <1>1, Here
<1>3. /\ Arrives(fs, io, res, c) /\ c \in Clusters
      /\ \/ (SeekingOn(p) \/ Stretching(p)) /\ ~Failed
         \/ Stretching(p) /\ Ended(disk, p, J)
  BY <1>1, <1>2 DEF Place, AtStatus, Chains
<1>4. /\ J \in Nat /\ Len(p) \in Nat
      /\ \A k \in 1..Len(p) : p[k] \in Own /\ p[k] \in Clusters /\ p[k] # 0 /\ p[k] >= 3
  BY <1>2, PtrIs, WholeFacts, Apart DEF J, Files
<1>5. ASSUME ~Failed
      PROVE  /\ fs.win \in Slots /\ fs.tag[fs.win] \in FatPart /\ fs.tag[fs.win] = FatSector(c)
             /\ fs.buf[fs.win] = disk[FatSector(c)] => cs = NextOf(disk, c)
  <2>1. fs.tag[fs.win] = FatSector(c) /\ FatSector(c) \in FatPart /\ fs.win \in Slots
    BY <1>1, <1>2, <1>3, <1>5, FatPlace, CacheFacts DEF Arrives, Comes, Failed
  <2>2. cs = fs.buf[fs.win][FatCell(c)]
    BY <1>3, <1>5 DEF Got, InWindow
  <2> QED BY <2>1, <2>2 DEF NextOf
<1>6. SeekingOn(p) =>
        J + 2 <= Len(p) /\ cs = p[J + 2] /\ p[J + 2] \in Clusters /\ p[J + 2] >= 3 /\ ~chain.many
  <2> SUFFICES ASSUME SeekingOn(p)
               PROVE  J + 2 <= Len(p) /\ cs = p[J + 2] /\ p[J + 2] \in Clusters /\ p[J + 2] >= 3
                      /\ ~chain.many
    OBVIOUS
  <2>1. /\ ~Failed /\ fs.dirty = {} /\ call.rest > Width /\ fp.ptr + call.rest = fp.size
        /\ (fp.ptr % Width) = 0 /\ J + 1 <= Len(p) /\ c = p[J + 1] /\ ~chain.many
        /\ fp.size <= Len(p) * Width
    BY <1>2 DEF SeekingOn, Seeking, FileOk
  <2>2. J + 2 <= Len(p)
    <3>1. fp.ptr + Width \in Nat /\ fp.ptr \in Nat /\ Len(p) * Width \in Nat /\ call.rest \in Nat
          /\ Width \in Nat
      BY <1>2, <1>4, Numbers DEF Files, Calls
    <3>2. (fp.ptr + Width) \div Width = J + 1
      BY <2>1, <3>1, PtrIs DEF J
    <3>3. fp.ptr + Width < Len(p) * Width
      BY <2>1, <3>1 DEF FileOk
    <3>4. ((fp.ptr + Width) \div Width) + 1 <= Len(p)
      BY <1>4, <3>1, <3>3, PtrIs
    <3> QED BY <1>4, <3>2, <3>4
  <2>3. cs = NextOf(disk, c)
    <3>1. fs.buf[fs.win] = disk[FatSector(c)]
      BY <1>2, <1>5, <2>1 DEF Cache, Meta
    <3> QED BY <1>5, <2>1, <3>1
  <2>4. NextOf(disk, p[J + 1]) = p[J + 2]
    <3>1. J + 1 \in 1..Len(p) /\ J + 1 < Len(p) /\ (J + 1) + 1 = J + 2
      BY <1>4, <2>2
    <3> QED BY <1>2, <3>1 DEF Whole, Path
  <2>5. J + 2 \in 1..Len(p)
    BY <1>4, <2>2
  <2> QED BY <1>4, <2>1, <2>2, <2>3, <2>4, <2>5
<1>7. Stretching(p) =>
        /\ J > 0 /\ J <= Len(p) /\ c = p[J]
        /\ \/ J + 1 <= Len(p) /\ cs = p[J + 1] /\ p[J + 1] \in Clusters /\ p[J + 1] >= 3
           \/ cs = 0
           \/ cs > LastCluster /\ cs \in Nat /\ Ended(disk, p, J)
  <2> SUFFICES ASSUME Stretching(p)
               PROVE /\ J > 0 /\ J <= Len(p) /\ c = p[J]
                     /\ \/ J + 1 <= Len(p) /\ cs = p[J + 1] /\ p[J + 1] \in Clusters /\ p[J + 1] >= 3
                        \/ cs = 0
                        \/ cs > LastCluster /\ cs \in Nat /\ Ended(disk, p, J)
    OBVIOUS
  <2>1. J > 0 /\ J <= Len(p) /\ c = p[J] /\ FatClean(disk, fs)
    BY <1>3, Ends DEF Stretching
  <2>2. CASE Failed
    <3>1. cs = DiskError /\ Ended(disk, p, J)
      BY <1>3, <2>2, <1>1, Numbers DEF Got, SeekingOn, Seeking
    <3> QED BY <2>1, <3>1, Numbers
  <2>3. CASE ~Failed
    <3>1. cs = NextOf(disk, p[J])
      <4>1. fs.buf[fs.win] = disk[FatSector(c)]
        BY <1>5, <2>1, <2>3 DEF FatClean
      <4> QED BY <1>5, <2>1, <2>3, <4>1
    <3>2. CASE J < Len(p)
      <4>1. J \in 1..Len(p) /\ J + 1 \in 1..Len(p) /\ J + 1 <= Len(p)
        BY <1>4, <2>1, <3>2
      <4>2. NextOf(disk, p[J]) = p[J + 1]
        BY <1>2, <3>2, <4>1 DEF Whole, Path
      <4> QED BY <1>4, <2>1, <3>1, <4>1, <4>2
    <3>3. CASE J = Len(p)
      <4>1. cs \in {0, EndOfChain}
        BY <1>2, <1>4, <2>1, <3>1, <3>3 DEF Whole, Path
      <4>2. cs = EndOfChain => cs > LastCluster /\ cs \in Nat /\ Ended(disk, p, J)
        BY <3>1, <3>3, Numbers DEF Ended
      <4> QED BY <2>1, <4>1, <4>2
    <3> QED BY <1>4, <2>1, <3>2, <3>3
  <2> QED BY <2>2, <2>3
<1>8. SeekingOn(p) \/ Stretching(p)
  BY <1>3
<1>9. ASSUME NEW x, Return(x), NoIo
      PROVE  /\ call' = [call EXCEPT !.pc = call.then, !.ret = x] /\ fs' = fs /\ io' = <<>>
             /\ FileOk(p)' /\ InUse' /\ SameBut(fs, fs') /\ Good(disk, fs', <<>>, p, old)
  <2>1. call' = [call EXCEPT !.pc = call.then, !.ret = x] /\ fs' = fs /\ io' = <<>>
    BY <1>1, <1>9 DEF Return, NoIo
  <2>2. call'.len = call.len
    BY <1>2, <2>1 DEF Calls
  <2> QED BY <1>1, <1>2, <2>1, <2>2, FileKept DEF InUse, SameBut
<1>10. ASSUME NEW x \in Nat, Stretching(p), Return(x), NoIo, UNCHANGED chain,
              x \in Clusters => J + 1 <= Len(p) /\ x = p[J + 1]
       PROVE  Typed' /\ LogIs(p)' /\ Inner'
  <2>1. /\ Writing(p) /\ Behind(p) /\ call.then = "cluster" /\ OneFile(fs, fp.dsect)
    BY <1>10 DEF Stretching, Behind
  <2>2. FileOk(p)' /\ io' = <<>> /\ fs' = fs /\ Good(disk, fs', <<>>, p, old)
    BY <1>9, <1>10
  <2>3. x \in Clusters => NextIs(disk, fs', p, J, x)
    BY <1>10 DEF NextIs
  <2>4. Return(x) /\ chain' \in Chains
    BY <1>2, <1>10
  <2> QED BY <1>1, <1>2, <2>1, <2>2, <2>3, <2>4, ToCluster
<1>11. CASE cs < 2 /\ Return(IntError) /\ NoIo /\ UNCHANGED chain
  <2>1. Stretching(p)
    <3>1. \A x \in Clusters : x \in Nat /\ ~(x < 2)
      BY Numbers DEF Clusters
    <3> QED BY <1>6, <1>8, <1>11, <3>1
  <2> QED BY <2>1, <1>10, <1>11, Ends DEF IntError
<1>12. CASE cs \in Clusters /\ ~chain.many /\ Return(cs) /\ NoIo /\ UNCHANGED chain
  <2>1. CASE Stretching(p)
    <3>1. cs \in Nat /\ (cs \in Clusters => J + 1 <= Len(p) /\ cs = p[J + 1])
      <4>1. \A x \in Clusters : x \in Nat /\ x <= LastCluster /\ x # 0
        BY Numbers DEF Clusters
      <4> QED BY <1>7, <1>12, <2>1, <4>1, Numbers
    <3> HIDE DEF cs
    <3> QED BY <1>10, <1>12, <2>1, <3>1
  <2>2. CASE SeekingOn(p)
    <3>1. /\ J + 2 <= Len(p) /\ cs = p[J + 2] /\ Seeking(p) /\ call.rest > Width
          /\ call.then = "sought"
      BY <1>6, <2>2 DEF SeekingOn
    <3>2. /\ call' = [call EXCEPT !.pc = "sought", !.ret = cs] /\ fs' = fs /\ io' = <<>>
          /\ FileOk(p)' /\ InUse' /\ SameBut(fs, fs') /\ Good(disk, fs', <<>>, p, old)
      BY <1>9, <1>12, <3>1
    <3>3. cs \in Nat
      BY <1>12, Numbers DEF Clusters
    <3> HIDE DEF cs
    <3>4. Typed'
      BY <1>1, <1>2, <1>12, <3>2, <3>3 DEF Typed, Calls, Places
    <3>5. /\ call'.len = call.len /\ call'.left = call.left /\ call'.rest = call.rest
          /\ call'.pc = "sought" /\ call'.ret = cs
      BY <1>2, <3>2 DEF Calls
    <3>6. Seeking(p)' /\ J' = J
      BY <1>1, <3>1, <3>2, <3>5, SameSeek
    <3>7. AtSought(p)'
      BY <3>1, <3>2, <3>5, <3>6 DEF AtSought
    <3>8. Place(p)' /\ Inner'
      BY <3>5, <3>7 DEF Place, Inner
    <3> QED BY <1>1, <3>2, <3>4, <3>8, Goes
  <2> QED BY <1>8, <2>1, <2>2
<1>13. CASE /\ cs \in Clusters /\ chain.many
            /\ chain' = [chain EXCEPT !.clst = cs, !.ncl = cs] /\ Ask(cs) /\ Goto("hops")
  <2>1. Stretching(p)
    BY <1>8, <1>13 DEF SeekingOn
  <2>2. J + 1 <= Len(p) /\ cs = p[J + 1]
    <3>1. \A x \in Clusters : x \in Nat /\ x <= LastCluster /\ x # 0
      BY Numbers DEF Clusters
    <3> QED BY <1>7, <1>13, <2>1, <3>1, Numbers
  <2>3. cs \in 0..LastCluster /\ cs # 0
    BY <1>13, Numbers DEF Clusters
  <2> HIDE DEF cs
  <2>4. call' = [call EXCEPT !.pc = "hops"]
    BY <1>13 DEF Goto
  <2>5. chain'.clst = cs /\ chain'.ncl = cs /\ chain' \in Chains
    BY <1>2, <1>13, <2>3 DEF Chains
  <2>6. /\ Good(disk, fs', io', p, old) /\ InUse' /\ SameBut(fs, fs')
        /\ \A r : Arrives(fs', io', r, cs)
    BY <1>1, <1>2, <1>13, AskStep
  <2>7. Typed'
    BY <1>1, <1>2, <2>4, <2>5 DEF Typed, Calls, Places
  <2>8. /\ call'.len = call.len /\ call'.left = call.left /\ call'.then = call.then
        /\ call'.pc = "hops"
    BY <1>2, <2>4 DEF Calls
  <2>9. Writing(p)' /\ Behind(p)' /\ FatClean(disk, fs)' /\ J' = J
    <3>1. OneFile(fs', fp'.dsect) /\ FatClean(disk', fs')
      BY <1>1, <2>1, <2>6, SameIs DEF Stretching, Behind
    <3> QED BY <1>1, <2>1, <2>8, <3>1 DEF Stretching, Writing, Behind, NoError, J
  <2>10. AtHops(p)'
    BY <1>1, <2>1, <2>2, <2>3, <2>5, <2>6, <2>8, <2>9 DEF AtHops, Stretching
  <2>11. Place(p)' /\ Inner'
    BY <2>8, <2>10 DEF Place, Inner
  <2>12. FileOk(p)'
    BY <1>1, <1>2, <2>6, <2>8, SameIs, FileKept
  <2> QED BY <1>1, <2>6, <2>7, <2>11, <2>12, Goes
<1>14. CASE /\ cs > LastCluster
            /\ chain' = [chain EXCEPT !.scl = fs.lastClust, !.ncl = fs.lastClust]
            /\ Goto("scan") /\ NoIo
  <2>1. Stretching(p) /\ Ended(disk, p, J)
    <3>1. \A x \in Clusters : x \in Nat /\ ~(x > LastCluster)
      BY Numbers DEF Clusters
    <3> QED BY <1>6, <1>7, <1>8, <1>14, <3>1, Numbers
  <2>2. call' = [call EXCEPT !.pc = "scan"] /\ fs' = fs /\ io' = <<>>
    BY <1>1, <1>14 DEF Goto, NoIo
  <2>3. chain'.clst = chain.clst /\ chain' \in Chains
    BY <1>2, <1>14 DEF Chains, Fss
  <2>4. Typed'
    BY <1>1, <1>2, <2>2, <2>3 DEF Typed, Calls, Places
  <2>5. call'.len = call.len /\ call'.left = call.left /\ call'.then = call.then /\ call'.pc = "scan"
    BY <1>2, <2>2 DEF Calls
  <2>6. SameBut(fs, fs')
    BY <1>2, <2>2 DEF SameBut
  <2>7. AtScan(p)'
    BY <1>1, <2>1, <2>2, <2>3, <2>5, <2>6, SameStretch DEF AtScan
  <2>8. Place(p)' /\ Inner'
    BY <2>5, <2>7 DEF Place, Inner
  <2>9. FileOk(p)' /\ InUse'
    BY <1>1, <1>2, <2>2, <2>5, FileKept DEF InUse
  <2> QED BY <1>1, <1>2, <2>2, <2>4, <2>8, <2>9, Goes
<1> QED BY <1>11, <1>12, <1>13, <1>14 DEF Status

\* create_chain counts the clusters that are there already.
LEMMA HopsStep ==
  ASSUME NEW p \in Seq(Own), Typed, LogIs(p), Hops
  PROVE  Typed' /\ LogIs(p)' /\ Inner'
<1> DEFINE c == chain.clst
           cs == Got(c)
<1>1. call.pc = "hops" /\ io = <<>> /\ Inner /\ InChain
      /\ disk' = disk /\ made' = made /\ old' = old /\ fp' = fp /\ kept' = kept /\ res' = "ok"
  BY DEF Hops, At, InChain, Step, Inner
<1>2. /\ Good(disk, fs, io, p, old) /\ Whole(disk, p, old) /\ Cache(disk, fs, p, old)
      /\ FileOk(p) /\ Place(p) /\ fs.tag[fs.win] # 0 /\ InUse
      /\ fs \in Fss /\ fp \in Files /\ call \in Calls /\ chain \in Chains
  BY <1>1, Here
<1>3. /\ Writing(p) /\ Behind(p) /\ FatClean(disk, fs) /\ call.then = "cluster"
      /\ J + 1 <= Len(p) /\ chain.ncl = p[J + 1] /\ OneFile(fs, fp.dsect)
  BY <1>1, <1>2 DEF Place, AtHops, Behind
<1>4. ASSUME NEW x \in Nat, Return(x), NoIo, UNCHANGED chain, x \in Clusters => x = p[J + 1]
      PROVE  Typed' /\ LogIs(p)' /\ Inner'
  <2>1. call'.len = call.len
    BY <1>2, <1>4 DEF Return, Calls
  <2>2. FileOk(p)' /\ io' = <<>> /\ fs' = fs /\ Good(disk, fs', <<>>, p, old)
    BY <1>1, <1>2, <1>4, <2>1, FileKept DEF NoIo
  <2>3. x \in Clusters => NextIs(disk, fs', p, J, x)
    BY <1>3, <1>4 DEF NextIs
  <2>4. Return(x) /\ chain' \in Chains
    BY <1>2, <1>4
  <2> QED BY <1>1, <1>2, <1>3, <2>2, <2>3, <2>4, ToCluster
<1>5. CASE Return(IntError) /\ NoIo /\ UNCHANGED chain
  BY <1>4, <1>5, Ends DEF IntError
<1>6. CASE Return(chain.ncl) /\ NoIo /\ UNCHANGED chain
  <2>1. chain.ncl \in Nat
    BY <1>2, Numbers DEF Chains
  <2> QED BY <1>3, <1>4, <1>6, <2>1
<1>7. CASE cs \in Clusters /\ chain' = [chain EXCEPT !.clst = cs] /\ Ask(cs) /\ UNCHANGED call
  <2>1. cs \in Clusters /\ cs # 0
    BY <1>7, Ends
  <2> HIDE DEF cs
  <2>2. chain'.clst = cs /\ chain'.ncl = chain.ncl /\ chain' \in Chains
    BY <1>2, <1>7, <2>1 DEF Chains
  <2>3. /\ Good(disk, fs', io', p, old) /\ InUse' /\ SameBut(fs, fs')
        /\ \A r : Arrives(fs', io', r, cs)
    BY <1>1, <1>2, <1>7, AskStep
  <2>4. Typed'
    BY <1>1, <1>2, <1>7, <2>2 DEF Typed, Inner
  <2>5. Writing(p)' /\ Behind(p)' /\ FatClean(disk, fs)' /\ J' = J
    <3>1. OneFile(fs', fp'.dsect) /\ FatClean(disk', fs')
      BY <1>1, <1>3, <2>3, SameIs
    <3> QED BY <1>1, <1>3, <1>7, <3>1 DEF Writing, Behind, NoError, J
  <2>6. AtHops(p)'
    BY <1>1, <1>3, <1>7, <2>1, <2>2, <2>3, <2>5 DEF AtHops
  <2>7. Place(p)' /\ Inner'
    BY <1>1, <1>7, <2>6 DEF Place, Inner
  <2>8. FileOk(p)'
    BY <1>1, <1>2, <1>7, <2>3, SameIs, FileKept
  <2> QED BY <1>1, <2>3, <2>4, <2>7, <2>8, Goes
<1> QED BY <1>5, <1>6, <1>7 DEF Hops

\* create_chain links the cluster before to the new one, or fails to load its
\* entry.
LEMMA LinkStep ==
  ASSUME NEW p \in Seq(Own), Typed, LogIs(p), Link
  PROVE  Typed' /\ LogIs(p)' /\ Inner'
<1> DEFINE c == chain.clst
           n == chain.ncl
<1>1. call.pc = "link" /\ io = <<>> /\ Inner /\ InChain /\ io' = <<>> /\ chain' = chain
      /\ disk' = disk /\ made' = made /\ old' = old /\ fp' = fp /\ kept' = kept /\ res' = "ok"
  BY DEF Link, At, InChain, Step, Inner
<1>2. /\ Good(disk, fs, io, p, old) /\ Whole(disk, p, old) /\ Cache(disk, fs, p, old)
      /\ FileOk(p) /\ Place(p) /\ fs.tag[fs.win] # 0 /\ InUse
      /\ fs \in Fss /\ fp \in Files /\ call \in Calls /\ chain \in Chains
  BY <1>1, Here
<1>3. /\ Writing(p) /\ Behind(p) /\ call.then = "cluster" /\ OneFile(fs, fp.dsect)
      /\ J > 0 /\ Ended(disk, p, J) /\ c = p[J]
      /\ Linkable(disk, n, p) /\ Comes(fs, io, res, FatSector(c))
  BY <1>1, <1>2 DEF Place, AtLink, Behind
<1>4. J \in Nat /\ Len(p) = J /\ Len(p) > 0 /\ c = p[Len(p)] /\ c \in Clusters
      /\ NextOf(disk, c) = EndOfChain /\ n \in Own /\ n \in Clusters /\ n \in Nat
  <2>1. J \in Nat
    BY <1>2, PtrIs DEF J, Files
  <2>2. Len(p) = J /\ NextOf(disk, p[J]) = EndOfChain
    BY <1>3 DEF Ended
  <2>3. p[J] \in Clusters
    BY <1>2, <1>3, <2>1, <2>2, WholeFacts
  <2>4. n \in Own /\ n \in Clusters /\ n \in Nat
    BY <1>2, <1>3, Apart, Numbers DEF Linkable, Chains
  <2> QED BY <1>3, <2>1, <2>2, <2>3, <2>4
<1>5. ASSUME NEW b, Edited(fs, fs', b), Cache(disk, fs', p, old), NEW x \in Nat, Return(x),
             fs.tag[fs.win] \notin DataOf(p) \/ b = fs.buf[fs.win],
             fs.tag[fs.win] # Dir \/ b = fs.buf[fs.win],
             x \in Clusters => NextIs(disk, fs', p, J, x)
      PROVE  Typed' /\ LogIs(p)' /\ Inner'
  <2>1. call'.len = call.len
    BY <1>2, <1>5 DEF Return, Calls
  <2>2. NewText(disk, fs, p, old, fp.ptr, made) => NewText(disk, fs', p, old, fp.ptr, made)
    BY <1>5, EditedText
  <2>3. Entered(disk, fs) => Entered(disk, fs')
    BY <1>5, EditedEntry
  <2>4. FileOk(p)'
    BY <1>1, <1>2, <2>1, <2>2, <2>3, FileKept
  <2>5. fs'.tag = fs.tag /\ fs'.win = fs.win
    BY <1>5 DEF Edited
  <2>6. fs'.tag[fs'.win] # 0 /\ OneFile(fs', fp.dsect)
    BY <1>2, <1>3, <2>5 DEF OneFile
  <2>7. Good(disk, fs', <<>>, p, old)
    BY <1>2, <1>5, NoAccess DEF Good
  <2>8. Return(x) /\ chain' \in Chains
    BY <1>1, <1>2, <1>5
  <2> QED BY <1>1, <1>2, <1>3, <1>5, <2>4, <2>6, <2>7, <2>8, ToCluster
<1>6. CASE Failed
  <2>1. fs' = [fs EXCEPT !.dirty = @ \cup {fs.win}] /\ Return(DiskError)
    BY <1>6 DEF Link
  <2>2. fs.win \in Slots /\ fs.buf[fs.win] \in [Cells -> Nat]
        /\ Window(disk, fs.tag[fs.win], fs.buf[fs.win], p, old)
    BY <1>2, CacheFacts
  <2>3. Edited(fs, fs', fs.buf[fs.win])
    <3>1. Edited(fs, [fs EXCEPT !.dirty = @ \cup {fs.win}], fs.buf[fs.win])
      BY <1>2, <2>2, EditIs
    <3> QED BY <2>1, <3>1
  <2>4. Cache(disk, fs', p, old)
    BY <1>2, <2>2, <2>3, CacheEdited
  <2> QED BY <1>5, <2>1, <2>3, <2>4, Ends, Numbers
<1>7. CASE ~Failed
  <2> DEFINE g == Changed(fs, FatCell(c), n)
             b == [fs.buf[fs.win] EXCEPT ![FatCell(c)] = n]
  <2>1. fs' = Taken(g) /\ Return(n)
    BY <1>7 DEF Link
  <2>2. fs.tag[fs.win] = FatSector(c) /\ FatSector(c) \in FatPart /\ FatCell(c) \in Cells
    BY <1>1, <1>3, <1>4, <1>7, FatPlace DEF Comes, Failed
  <2>3. Edited(fs, g, b)
    BY <1>2, <1>4, <2>2, ChangedIs
  <2>4. Edited(fs, fs', b)
    <3>1. chain.ncl \in 0..LastCluster
      BY <1>2 DEF Chains
    <3> HIDE DEF g, b
    <3> QED BY <2>1, <2>3, <3>1, TakenIs
  <2>5. /\ Cache(disk, fs', p, old) /\ fs'.win \in fs'.dirty /\ fs'.tag[fs'.win] = FatSector(c)
        /\ fs'.buf[fs'.win][FatCell(c)] = n
    <3>1. b = [fs.buf[fs.win] EXCEPT ![FatCell(c)] = n]
      OBVIOUS
    <3> HIDE DEF b, c, n
    <3> QED BY <1>2, <1>3, <1>4, <2>2, <2>4, <3>1, Linked
  <2>6. NextIs(disk, fs', p, J, n)
    BY <1>3, <1>4, <2>5 DEF NextIs
  <2>7. FatSector(c) \notin DataOf(p) /\ FatSector(c) # Dir
    BY <1>2, <2>2, WholeFacts, SectorPlace, Apart DEF DataOf
  <2> HIDE DEF b, n
  <2> QED BY <1>4, <1>5, <2>1, <2>2, <2>4, <2>5, <2>6, <2>7
<1> QED BY <1>6, <1>7

-----------------------------------------------------------------------------
(* f_lseek and f_write.                                                     *)

\* ABORT of f_lseek and f_write: the file keeps the size it had.
LEMMA Aborted ==
  ASSUME NEW p \in Seq(Own), Typed, Good(disk, fs, <<>>, p, old), FileOk(p), fs.tag[fs.win] # 0,
         call.len > 0, Abort(fp), fs' = fs, io' = <<>>, UNCHANGED chain, InFile
  PROVE  Typed' /\ LogIs(p)' /\ Inner'
<1>1. /\ disk' = disk /\ made' = made /\ old' = old /\ kept' = kept /\ res' = "ok"
      /\ fp' = [fp EXCEPT !.flags = @ \cup {"error"}] /\ call' = [call EXCEPT !.pc = "close"]
      /\ fp \in Files /\ call \in Calls
  BY DEF InFile, Step, Abort, Goto, Typed
<1>2. /\ fp' \in Files /\ fp'.flags = fp.flags \cup {"error"} /\ fp'.size = fp.size
      /\ fp'.start = fp.start /\ fp'.ptr = fp.ptr
  BY <1>1 DEF Files
<1>3. call' \in Calls /\ call'.pc = "close" /\ call'.len = call.len /\ call'.left = call.left
  BY <1>1 DEF Calls, Places
<1>4. Typed'
  BY <1>1, <1>2, <1>3 DEF Typed
<1>5. ~NoError'
  BY <1>2 DEF NoError
<1>6. AtClose(p)'
  BY <1>5 DEF AtClose, AllSaid
<1>7. Place(p)' /\ Inner'
  BY <1>3, <1>6 DEF Place, Inner
<1>8. FileOk(p)' /\ InUse'
  BY <1>1, <1>2, <1>3, <1>5 DEF FileOk, InUse
<1> QED BY <1>1, <1>4, <1>7, <1>8, Goes

Sized(f, n) == [f EXCEPT !.size = n, !.flags = @ \cup {"written"}]

\* f_write sets the size of the file and the flag that f_sync looks for.
LEMMA Resized ==
  ASSUME NEW f \in Files, NEW n \in Nat
  PROVE  /\ Sized(f, n) \in Files /\ Sized(f, n).flags = f.flags \cup {"written"}
         /\ Sized(f, n).size = n /\ Sized(f, n).start = f.start /\ Sized(f, n).ptr = f.ptr
BY DEF Files, Sized

\* f_write is done, with all of the line or as much as there was room for.
LEMMA WriteEnded ==
  ASSUME NEW p \in Seq(Own), Typed, Good(disk, fs, <<>>, p, old), FileOk(p), fs.tag[fs.win] # 0,
         io = <<>>, call.len > 0, Writing(p), WriteEnds, UNCHANGED chain, InFile
  PROVE  Typed' /\ LogIs(p)' /\ Inner'
<1>1. /\ disk' = disk /\ made' = made /\ old' = old /\ kept' = kept /\ res' = "ok"
      /\ fs' = fs /\ io' = <<>>
      /\ fp' = [fp EXCEPT !.size = IF fp.ptr > @ THEN fp.ptr ELSE @, !.flags = @ \cup {"written"}]
      /\ call' = [call EXCEPT !.pc = "close"] /\ fp \in Files /\ call \in Calls /\ Len(old) \in Nat
  BY DEF InFile, Step, WriteEnds, NoIo, Goto, Typed
<1>2. /\ fp' \in Files /\ fp'.flags = fp.flags \cup {"written"} /\ fp'.size = fp.ptr
      /\ fp'.start = fp.start /\ fp'.ptr = fp.ptr /\ fp.ptr \in Nat
  <2> DEFINE size == IF fp.ptr > fp.size THEN fp.ptr ELSE fp.size
  <2>1. size = fp.ptr /\ fp.ptr \in Nat
    BY <1>1 DEF Writing, Files
  <2>2. fp' = [fp EXCEPT !.size = size, !.flags = @ \cup {"written"}]
    BY <1>1
  <2> HIDE DEF size
  <2>3. fp' = Sized(fp, fp.ptr)
    BY <2>1, <2>2 DEF Sized
  <2>4. fp \in Files
    BY <1>1
  <2> QED BY ONLY <2>1, <2>3, <2>4, Resized
<1>3. call' \in Calls /\ call'.pc = "close" /\ call'.len = call.len /\ call'.left = call.left
  BY <1>1 DEF Calls, Places
<1>4. Typed'
  BY <1>1, <1>2, <1>3 DEF Typed
<1>5. NoError' /\ "written" \in fp'.flags
  BY <1>2 DEF NoError, Writing
<1>6. AtClose(p)'
  BY <1>1, <1>2, <1>3, <1>5 DEF AtClose, AllSaid, Writing
<1>7. Place(p)' /\ Inner'
  BY <1>3, <1>6 DEF Place, Inner
<1>8. FileOk(p)'
  <2>1. fp.ptr <= Len(p) * Width /\ fp.ptr >= Len(old) /\ fp.start = First(p) /\ Entered(disk, fs)
        /\ NewText(disk, fs, p, old, fp.ptr, made)
    BY DEF FileOk, Writing
  <2>2. fp.ptr <= fp.ptr + call.len
    BY <1>1, <1>2 DEF Calls
  <2> QED BY <1>1, <1>2, <1>3, <2>1, <2>2 DEF FileOk
<1>9. InUse'
  BY <1>1 DEF InUse
<1> QED BY <1>1, <1>4, <1>7, <1>8, <1>9, Goes

\* / and % of a number within a sector, and of a whole sector.
LEMMA SmallIs ==
  /\ \A r \in Cells : (r % Width) = r /\ r \div Width = 0
  /\ (Width % Width) = 0 /\ Width \div Width = 1
<1>1. Width \in Nat /\ Width >= 3 /\ 0 * Width = 0 /\ 1 * Width = Width /\ 0 \in Cells
  BY Numbers, Ends
<1>2. ASSUME NEW r \in Cells PROVE (r % Width) = r /\ r \div Width = 0
  <2>1. (0 * Width + r) \div Width = 0 /\ (0 * Width + r) % Width = r
    BY Divided
  <2>2. 0 * Width + r = r
    BY <1>1 DEF Cells
  <2> QED BY <2>1, <2>2
<1>3. (1 * Width + 0) \div Width = 1 /\ (1 * Width + 0) % Width = 0
  BY <1>1, Divided
<1>4. 1 * Width + 0 = Width
  BY <1>1
<1> QED BY <1>2, <1>3, <1>4

\* f_lseek goes a cluster further, or ends in the last one.
LEMMA SeekStep ==
  ASSUME NEW p \in Seq(Own), Typed, LogIs(p), Seek
  PROVE  Typed' /\ LogIs(p)' /\ Inner'
<1>1. call.pc = "seek" /\ io = <<>> /\ Inner /\ InFile
      /\ disk' = disk /\ made' = made /\ old' = old /\ kept' = kept /\ res' = "ok"
  BY DEF Seek, At, InFile, Step, Inner
<1>2. /\ Good(disk, fs, io, p, old) /\ Whole(disk, p, old) /\ Cache(disk, fs, p, old)
      /\ FileOk(p) /\ Place(p) /\ fs.tag[fs.win] # 0 /\ InUse
      /\ fs \in Fss /\ fp \in Files /\ call \in Calls /\ chain \in Chains
      /\ Len(old) \in Nat /\ Len(p) \in Nat
  BY <1>1, Here
<1>3. Seeking(p) /\ J \in Nat /\ fp.clust \in Own /\ fp.clust \in Clusters
  <2>1. Seeking(p)
    BY <1>1, <1>2 DEF Place, AtSeek
  <2>2. J \in Nat
    BY <1>2, PtrIs DEF J, Files
  <2>3. J + 1 \in 1..Len(p)
    BY <1>2, <2>1, <2>2 DEF Seeking
  <2> QED BY <1>2, <2>1, <2>2, <2>3, WholeFacts DEF Seeking
<1>4. CASE call.rest > Width /\ StartChain(FALSE, fp.clust, "sought") /\ UNCHANGED fp
  <2>1. /\ chain' = [NoChain EXCEPT !.clst = fp.clust, !.many = FALSE]
        /\ call' = [call EXCEPT !.pc = "stretch", !.then = "sought"]
        /\ fs' = fs /\ io' = <<>> /\ fp' = fp
    BY <1>1, <1>4 DEF StartChain, NoIo
  <2>2. chain' \in Chains /\ chain'.clst = fp.clust /\ ~chain'.many
    <3>1. NoChain \in Chains
      BY Numbers DEF NoChain, Chains
    <3> HIDE DEF NoChain
    <3> QED BY <1>3, <2>1, <3>1 DEF Chains
  <2>3. /\ call' \in Calls /\ call'.pc = "stretch" /\ call'.then = "sought" /\ call'.len = call.len
        /\ call'.left = call.left /\ call'.rest = call.rest
    BY <1>2, <2>1 DEF Calls, Places
  <2>4. Typed'
    BY <1>1, <1>2, <2>1, <2>2, <2>3 DEF Typed, Inner
  <2>5. Seeking(p)'
    BY <1>1, <1>3, <2>1, <2>3 DEF Seeking, J, Failed
  <2>6. AtStretch(p)'
    BY <1>4, <2>1, <2>2, <2>3, <2>5 DEF AtStretch, SeekingOn
  <2>7. Place(p)' /\ Inner'
    BY <2>3, <2>6 DEF Place, Inner
  <2>8. FileOk(p)' /\ InUse'
    BY <1>1, <1>2, <2>1, <2>3, FileKept DEF InUse
  <2> QED BY <1>1, <1>2, <2>1, <2>4, <2>7, <2>8, Goes
<1>5. CASE ~(call.rest > Width) /\ fp' = Sought(fp, call.rest) /\ Goto("write") /\ NoIo /\ UNCHANGED chain
  <2> DEFINE rest == call.rest
  <2>1. call' = [call EXCEPT !.pc = "write"] /\ fs' = fs /\ io' = <<>>
    BY <1>1, <1>5 DEF NoIo, Goto
  <2>2. /\ call' \in Calls /\ call'.pc = "write" /\ call'.len = call.len /\ call'.left = call.left
    BY <1>2, <2>1 DEF Calls, Places
  <2>3. /\ rest \in Nat /\ rest > 0 /\ rest <= Width /\ Width \in Nat
        /\ fp.ptr \in Nat /\ fp.ptr + rest = Len(old) /\ (fp.ptr % Width) = 0
        /\ fp.dsect = 0 /\ fp.size = Len(old) /\ fs.dirty = {} /\ OneFile(fs, 0) /\ fp.flags = {}
        /\ J + 1 <= Len(p) /\ fp.clust = p[J + 1] /\ fp.start = First(p)
        /\ call.left = call.len /\ call.len > 0 /\ call.len \in Nat
    BY <1>1, <1>2, <1>3, <1>5, Numbers DEF Seeking, Calls, Files, FileOk, Typed
  <2>4. /\ fp' \in Files /\ fp'.ptr = Len(old) /\ fp'.size = fp.size /\ fp'.start = fp.start
        /\ fp'.clust = fp.clust /\ fp'.flags = {}
        /\ fp'.dsect = IF (rest % Width) = 0 THEN 0 ELSE Sector(fp.clust)
    <3> DEFINE end == fp.ptr + rest
               g == [fp EXCEPT !.ptr = end]
    <3>1. end = Len(old) /\ end \in Nat
      BY <1>2, <2>3
    <3>2. fp' = IF (rest % Width) = 0 THEN g ELSE [g EXCEPT !.dsect = Sector(fp.clust)]
      <4>1. Sought(fp, rest) = IF (rest % Width) = 0 THEN g ELSE [g EXCEPT !.dsect = Sector(g.clust)]
        BY DEF Sought
      <4>2. g.clust = fp.clust
        BY <1>2 DEF Files
      <4> QED BY <1>5, <4>1, <4>2
    <3>3. Sector(fp.clust) \in Sectors
      BY <1>3, SectorPlace
    <3> HIDE DEF end
    <3>4. /\ g \in Files /\ g.ptr = end /\ g.size = fp.size /\ g.start = fp.start /\ g.clust = fp.clust
          /\ g.flags = fp.flags /\ g.dsect = fp.dsect
      BY <1>2, <3>1 DEF Files
    <3> HIDE DEF g, rest
    <3>5. CASE (rest % Width) = 0
      BY <2>3, <3>1, <3>2, <3>4, <3>5
    <3>6. CASE (rest % Width) # 0
      <4>1. fp' = [g EXCEPT !.dsect = Sector(fp.clust)]
        BY <3>2, <3>6
      <4> QED BY <2>3, <3>1, <3>3, <3>4, <3>6, <4>1 DEF Files
    <3> QED BY <3>5, <3>6
  <2>5. Typed'
    BY <1>1, <1>2, <1>5, <2>1, <2>2, <2>4 DEF Typed, Inner
  <2>6. Writing(p)'
    BY <1>1, <2>2, <2>3, <2>4 DEF Writing, NoError
  <2>7. FatClean(disk, fs) /\ OneFile(fs, fp'.dsect)
    BY <1>2, <2>3 DEF FatClean, Cache, Meta, OneFile
  <2>13. FatClean(disk', fs') /\ fs'.dirty = {} /\ io' = <<>>
    BY <1>1, <2>1, <2>3, <2>7
  <2>8. ASSUME rest = Width PROVE AtWrite(p)'
    <3>1. (rest % Width) = 0
      BY <2>8, SmallIs
    <3>2. (fp'.ptr % Width) = 0 /\ J' = J + 1
      <4>1. fp'.ptr = fp.ptr + Width
        BY <2>3, <2>4, <2>8
      <4>2. (fp.ptr + Width) \div Width = J + 1 /\ ((fp.ptr + Width) % Width) = 0
        BY <2>3, PtrIs DEF J
      <4> QED BY <4>1, <4>2 DEF J
    <3>3. J' > 0 /\ J' <= Len(p) /\ fp'.clust = p[J']
      BY <1>3, <2>3, <2>4, <3>2
    <3>4. Behind(p)'
      BY <2>1, <2>2, <2>3, <2>4, <2>7, <3>1, <3>2 DEF Behind
    <3> QED BY <2>6, <2>13, <3>3, <3>4 DEF AtWrite
  <2>9. ASSUME rest < Width PROVE AtWrite(p)'
    <3>1. rest \in Cells
      BY <2>3, <2>9 DEF Cells
    <3>2. (rest % Width) # 0
      BY <2>3, <3>1, SmallIs
    <3>3. J' = J /\ (fp'.ptr % Width) = rest
      <4>1. fp.ptr = J * Width
        BY <2>3, PtrIs DEF J
      <4>2. (J * Width + rest) \div Width = J /\ (J * Width + rest) % Width = rest
        BY <1>3, <3>1, Divided
      <4> QED BY <2>3, <2>4, <4>1, <4>2 DEF J
    <3>4. fp'.dsect = Sector(p[J + 1])
      BY <2>3, <2>4, <3>2
    <3>5. Inside(p)'
      BY <2>1, <2>3, <2>4, <2>7, <3>3, <3>4 DEF Inside
    <3>6. \A i \in Slots : fs'.tag[i] # fp'.dsect
      <4>1. Sector(p[J + 1]) # 0 /\ Sector(p[J + 1]) \notin FatPart /\ Sector(p[J + 1]) # Dir
        BY <1>3, <2>3, SectorPlace, Apart
      <4> QED BY <2>1, <2>3, <3>4, <4>1 DEF OneFile, Meta
    <3> QED BY <2>6, <2>13, <3>5, <3>6 DEF AtWrite
  <2>10. AtWrite(p)'
    BY <2>3, <2>8, <2>9
  <2>11. Place(p)' /\ Inner'
    BY <2>2, <2>10 DEF Place, Inner
  <2>12. FileOk(p)' /\ InUse'
    <3>1. NewText(disk, fs, p, old, Len(old), made)
      <4> SUFFICES ASSUME NEW k \in 1..Len(p), NEW i \in Cells,
                          Len(old) <= Pos(k, i), Pos(k, i) < Len(old)
                   PROVE  FALSE
        BY DEF NewText
      <4>1. Pos(k, i) \in Nat
        BY <1>2, PosIs
      <4> QED BY <1>2, <4>1
    <3> QED BY <1>1, <1>2, <2>1, <2>2, <2>3, <2>4, <3>1 DEF FileOk, InUse
  <2> QED BY <1>1, <1>2, <2>1, <2>5, <2>11, <2>12, Goes
<1> QED BY <1>4, <1>5 DEF Seek

\* f_lseek has the next cluster of the chain.
LEMMA SoughtNextStep ==
  ASSUME NEW p \in Seq(Own), Typed, LogIs(p), SoughtNext
  PROVE  Typed' /\ LogIs(p)' /\ Inner'
<1>1. call.pc = "sought" /\ io = <<>> /\ Inner /\ InFile /\ fs' = fs /\ io' = <<>> /\ chain' = chain
      /\ disk' = disk /\ made' = made /\ old' = old /\ kept' = kept /\ res' = "ok"
  BY DEF SoughtNext, At, InFile, Step, Inner, NoIo
<1>2. /\ Good(disk, fs, io, p, old) /\ Whole(disk, p, old) /\ Cache(disk, fs, p, old)
      /\ FileOk(p) /\ Place(p) /\ fs.tag[fs.win] # 0 /\ InUse
      /\ fs \in Fss /\ fp \in Files /\ call \in Calls /\ chain \in Chains
      /\ Len(old) \in Nat /\ Len(p) \in Nat
  BY <1>1, Here
<1>3. Seeking(p) /\ J \in Nat /\ call.rest > Width /\ J + 2 <= Len(p) /\ call.ret = p[J + 2]
  BY <1>1, <1>2, PtrIs DEF Place, AtSought, J, Files
<1>4. call.ret \in Own /\ call.ret \in Clusters
  <2>1. J + 2 \in 1..Len(p)
    BY <1>2, <1>3
  <2> QED BY <1>2, <1>3, <2>1, WholeFacts
<1>5. /\ fp' = [fp EXCEPT !.clust = call.ret, !.ptr = @ + Width]
      /\ call' = [call EXCEPT !.pc = "seek", !.rest = @ - Width]
  <2>1. call.ret \notin {NoCluster, IntError, DiskError, EndOfChain}
    BY <1>4, Ends, Numbers DEF NoCluster, IntError
  <2> QED BY <2>1 DEF SoughtNext
<1>6. /\ fp.ptr \in Nat /\ fp.ptr + Width \in Nat /\ call.rest \in Nat /\ call.rest - Width \in Nat
      /\ call.rest - Width > 0 /\ (fp.ptr + Width) + (call.rest - Width) = fp.size
      /\ fp.size = Len(old) /\ (fp.ptr % Width) = 0
      /\ fp.size \in Nat
  <2>1. fp.ptr \in Nat /\ call.rest \in Nat /\ fp.size \in Nat /\ Width \in Nat
    BY <1>2, Numbers DEF Files, Calls
  <2>2. fp.ptr + call.rest = fp.size /\ call.rest > Width
    BY <1>3 DEF Seeking
  <2>3. fp.size = Len(old) /\ (fp.ptr % Width) = 0
    BY <1>3 DEF Seeking
  <2>4. /\ fp.ptr + Width \in Nat /\ call.rest - Width \in Nat /\ call.rest - Width > 0
        /\ (fp.ptr + Width) + (call.rest - Width) = fp.size
    BY ONLY <2>1, <2>2
  <2> QED BY ONLY <2>1, <2>3, <2>4
<1>7. /\ fp' \in Files /\ fp'.clust = call.ret /\ fp'.ptr = fp.ptr + Width /\ fp'.size = fp.size
      /\ fp'.start = fp.start /\ fp'.flags = fp.flags /\ fp'.dsect = fp.dsect
  <2> DEFINE n == fp.ptr + Width
  <2>1. fp' = [fp EXCEPT !.clust = call.ret, !.ptr = n] /\ n \in Nat
    BY <1>5, <1>6
  <2> HIDE DEF n
  <2>2. /\ fp' \in Files /\ fp'.clust = call.ret /\ fp'.ptr = n /\ fp'.size = fp.size
        /\ fp'.start = fp.start /\ fp'.flags = fp.flags /\ fp'.dsect = fp.dsect
    BY <1>2, <1>4, <2>1 DEF Files
  <2> QED BY <2>2 DEF n
<1>8. /\ call' \in Calls /\ call'.pc = "seek" /\ call'.rest = call.rest - Width
      /\ call'.len = call.len /\ call'.left = call.left
  <2> DEFINE n == call.rest - Width
  <2>1. call' = [call EXCEPT !.pc = "seek", !.rest = n] /\ n \in Nat
    BY <1>5, <1>6
  <2> HIDE DEF n
  <2>2. /\ call' \in Calls /\ call'.pc = "seek" /\ call'.rest = n
        /\ call'.len = call.len /\ call'.left = call.left
    BY <1>2, <2>1 DEF Calls, Places
  <2> QED BY <2>2 DEF n
<1>9. Typed'
  BY <1>1, <1>2, <1>7, <1>8 DEF Typed, Inner
<1>10. J' = J + 1 /\ (fp'.ptr % Width) = 0
  <2>1. (fp.ptr + Width) \div Width = J + 1 /\ ((fp.ptr + Width) % Width) = 0
    BY <1>6, PtrIs DEF J
  <2> QED BY <1>7, <2>1 DEF J
<1>11. Seeking(p)'
  <2>1. J' + 1 <= Len(p) /\ fp'.clust = p[J' + 1]
    <3>1. (J + 1) + 1 = J + 2
      BY <1>3
    <3> QED BY <1>3, <1>7, <1>10, <3>1
  <2>2. fp'.ptr + call'.rest = fp'.size /\ call'.rest > 0 /\ fp'.size = Len(old)
    BY <1>6, <1>7, <1>8
  <2>3. /\ call.left = call.len /\ fs.dirty = {} /\ fp.flags = {} /\ fp.dsect = 0 /\ OneFile(fs, 0)
    BY <1>3 DEF Seeking
  <2> QED BY <1>1, <1>7, <1>8, <1>10, <2>1, <2>2, <2>3 DEF Seeking, Failed
<1>12. Place(p)' /\ Inner'
  BY <1>1, <1>8, <1>11 DEF Place, Inner, AtSeek
<1>13. FileOk(p)' /\ InUse'
  <2>1. fp'.ptr <= Len(old) /\ fp'.ptr \in Nat
    BY <1>6, <1>7
  <2>2. NewText(disk, fs, p, old, fp'.ptr, made)
    <3> SUFFICES ASSUME NEW k \in 1..Len(p), NEW i \in Cells,
                        Len(old) <= Pos(k, i), Pos(k, i) < fp'.ptr
                 PROVE  FALSE
      BY DEF NewText
    <3>1. Pos(k, i) \in Nat
      BY <1>2, PosIs
    <3> QED BY <1>2, <2>1, <3>1
  <2>3. fp'.ptr <= fp'.size + call'.len /\ fp'.ptr <= Len(p) * Width
    <3>1. fp.size <= Len(p) * Width /\ Len(p) * Width \in Nat /\ call.len \in Nat
      BY <1>2, Numbers DEF FileOk, Calls
    <3> QED BY <1>2, <1>6, <1>7, <1>8, <2>1, <3>1
  <2> QED BY <1>1, <1>2, <1>7, <1>8, <2>2, <2>3 DEF FileOk, InUse
<1> QED BY <1>1, <1>2, <1>9, <1>12, <1>13, Goes

\* f_write goes around its loop: done, on in the same sector, or in need of a
\* cluster.
LEMMA WriteLoopStep ==
  ASSUME NEW p \in Seq(Own), Typed, LogIs(p), WriteLoop
  PROVE  Typed' /\ LogIs(p)' /\ Inner'
<1>1. call.pc = "write" /\ io = <<>> /\ Inner /\ InFile
      /\ disk' = disk /\ made' = made /\ old' = old /\ kept' = kept /\ res' = "ok"
  BY DEF WriteLoop, At, InFile, Step, Inner
<1>2. /\ Good(disk, fs, io, p, old) /\ Whole(disk, p, old) /\ Cache(disk, fs, p, old)
      /\ FileOk(p) /\ Place(p) /\ fs.tag[fs.win] # 0 /\ InUse
      /\ fs \in Fss /\ fp \in Files /\ call \in Calls /\ chain \in Chains
      /\ Len(old) \in Nat /\ Len(p) \in Nat
  BY <1>1, Here
<1>3. /\ Writing(p)
      /\ call.left > 0 =>
         /\ FatClean(disk, fs) /\ fs.dirty \subseteq {fs.last}
         /\ \/ Inside(p) /\ \A i \in Slots : fs.tag[i] # fp.dsect
            \/ Behind(p) /\ (J > 0 => J <= Len(p) /\ fp.clust = p[J])
  BY <1>1, <1>2 DEF Place, AtWrite
<1>4. /\ J \in Nat /\ call.len > 0 /\ First(p) \in Own \cup {0} /\ (First(p) = 0 <=> Len(p) = 0)
      /\ fp.start = First(p)
      /\ \A k \in 1..Len(p) : p[k] \in Own /\ p[k] \in Clusters /\ p[k] # 0
      /\ \A k \in 1..Len(p) : Sector(p[k]) \in Loadable(p)
  <2>1. J \in Nat /\ call.len > 0 /\ fp.start = First(p)
    BY <1>1, <1>2, PtrIs DEF J, Files, Typed, FileOk
  <2>2. First(p) \in Own \cup {0} /\ (First(p) = 0 <=> Len(p) = 0)
    BY <1>2, PathFacts DEF Whole
  <2>3. \A k \in 1..Len(p) : p[k] \in Own /\ p[k] \in Clusters /\ p[k] # 0
    BY <1>2, WholeFacts
  <2> QED BY <2>1, <2>2, <2>3 DEF Loadable, DataOf
<1>5. CASE call.left = 0 /\ WriteEnds /\ UNCHANGED chain
  BY <1>1, <1>2, <1>3, <1>4, <1>5, WriteEnded
<1>6. CASE /\ call.left > 0 /\ ~Boundary
           /\ Move(fs, fp.dsect) /\ Goto("copy") /\ UNCHANGED <<fp, chain>>
  <2>1. /\ Inside(p) /\ (\A i \in Slots : fs.tag[i] # fp.dsect) /\ FatClean(disk, fs)
        /\ fs.dirty = {} /\ fp.dsect = Sector(p[J + 1]) /\ OneFile(fs, fp.dsect)
        /\ J + 1 <= Len(p)
    BY <1>3, <1>6 DEF Boundary, Behind, Inside
  <2>2. fp.dsect \in Loadable(p)
    <3>1. J + 1 \in 1..Len(p)
      BY <1>2, <1>4, <2>1
    <3> QED BY <1>4, <2>1, <3>1
  <2>3. /\ Good(disk, fs', io', p, old) /\ InUse' /\ SameBut(fs, fs')
        /\ Comes(fs', io', res', fp.dsect) /\ io' # <<>> /\ Reads(io')
    BY <1>2, <1>6, <2>1, <2>2, MoveStep
  <2>4. call' = [call EXCEPT !.pc = "copy"] /\ fp' = fp /\ chain' = chain
    BY <1>6 DEF Goto
  <2>5. /\ call' \in Calls /\ call'.pc = "copy" /\ call'.len = call.len /\ call'.left = call.left
    BY <1>2, <2>4 DEF Calls, Places
  <2>6. Typed'
    BY <1>1, <1>2, <2>4, <2>5 DEF Typed, Inner
  <2>7. FatClean(disk', fs') /\ OneFile(fs', fp'.dsect) /\ fs'.dirty = {}
    BY <1>1, <2>1, <2>3, <2>4, SameIs
  <2>8. Inside(p)' /\ Writing(p)'
    BY <1>1, <1>3, <2>1, <2>4, <2>5, <2>7 DEF Inside, Writing, NoError, J
  <2>9. AtCopy(p)'
    BY <1>6, <2>3, <2>4, <2>5, <2>7, <2>8 DEF AtCopy
  <2>10. Place(p)' /\ Inner'
    BY <2>5, <2>9 DEF Place, Inner
  <2>11. FileOk(p)'
    BY <1>1, <1>2, <2>3, <2>4, <2>5, SameIs, FileKept
  <2> QED BY <1>1, <2>3, <2>6, <2>10, <2>11, Goes
<1>7. CASE /\ call.left > 0 /\ Boundary /\ fp.ptr = 0 /\ fp.start # NoCluster
           /\ call' = [call EXCEPT !.pc = "cluster", !.ret = fp.start]
           /\ NoIo /\ UNCHANGED <<fp, chain>>
  <2>1. fs' = fs /\ io' = <<>> /\ fp' = fp /\ chain' = chain /\ fp.start \in Own /\ fp.start \in Nat
    BY <1>1, <1>2, <1>4, <1>7, Apart, Numbers DEF NoIo, NoCluster, Clusters
  <2>2. J = 0 /\ Len(p) > 0 /\ fp.start = p[1]
    BY <1>2, <1>4, <1>7, PtrIs DEF J, NoCluster, First
  <2>3. Behind(p)
    BY <1>3, <1>7 DEF Inside, Boundary
  <2>4. /\ call' \in Calls /\ call'.pc = "cluster" /\ call'.len = call.len /\ call'.left = call.left
        /\ call'.ret = fp.start
    BY <1>2, <1>7, <2>1 DEF Calls, Places
  <2>5. Typed'
    BY <1>1, <1>2, <2>1, <2>4 DEF Typed, Inner
  <2>6. NextIs(disk, fs, p, J, fp.start)
    BY <1>2, <2>2 DEF NextIs
  <2>7. Writing(p)' /\ Behind(p)' /\ J' = J
    BY <1>1, <1>3, <2>1, <2>3, <2>4 DEF Writing, Behind, NoError, J
  <2>8. AtCluster(p)'
    BY <1>1, <2>1, <2>4, <2>6, <2>7 DEF AtCluster, Failed
  <2>9. Place(p)' /\ Inner'
    BY <2>4, <2>8 DEF Place, Inner
  <2>10. FileOk(p)' /\ InUse'
    BY <1>1, <1>2, <2>1, <2>4, FileKept DEF InUse
  <2> QED BY <1>1, <1>2, <2>1, <2>5, <2>9, <2>10, Goes
<1>8. CASE /\ call.left > 0 /\ Boundary /\ (fp.ptr # 0 \/ fp.start = NoCluster)
           /\ StartChain(TRUE, IF fp.ptr = 0 THEN NoCluster ELSE fp.clust, "cluster")
           /\ UNCHANGED fp
  <2> DEFINE c == IF fp.ptr = 0 THEN NoCluster ELSE fp.clust
  <2>1. /\ chain' = [NoChain EXCEPT !.clst = c, !.many = TRUE]
        /\ call' = [call EXCEPT !.pc = "stretch", !.then = "cluster"]
        /\ fs' = fs /\ io' = <<>> /\ fp' = fp
    BY <1>1, <1>8 DEF StartChain, NoIo
  <2>2. /\ Behind(p) /\ (J > 0 => J <= Len(p) /\ fp.clust = p[J])
        /\ FatClean(disk, fs) /\ fs.dirty \subseteq {fs.last}
    BY <1>3, <1>8 DEF Inside, Boundary
  <2>3. IF fp.ptr = 0 THEN c = 0 /\ fp.start = 0 ELSE J > 0 /\ J <= Len(p) /\ c = p[J]
    <3>1. CASE fp.ptr = 0
      BY <1>8, <3>1 DEF NoCluster
    <3>2. CASE fp.ptr # 0
      <4>1. fp.ptr \in Nat /\ fp.ptr > 0 /\ (fp.ptr % Width) = 0
        BY <1>2, <1>8, <3>2 DEF Files, Boundary
      <4>2. J > 0
        BY <4>1, PtrIs DEF J
      <4> QED BY <2>2, <3>2, <4>2
    <3> QED BY <3>1, <3>2
  <2>4. c \in {0} \cup Clusters
    BY <1>2, <1>4, <2>3
  <2> HIDE DEF c
  <2>5. chain' \in Chains /\ chain'.clst = c
    <3>1. NoChain \in Chains
      BY Numbers DEF NoChain, Chains
    <3> HIDE DEF NoChain
    <3> QED BY <2>1, <2>4, <3>1 DEF Chains
  <2>6. /\ call' \in Calls /\ call'.pc = "stretch" /\ call'.then = "cluster" /\ call'.len = call.len
        /\ call'.left = call.left
    BY <1>2, <2>1 DEF Calls, Places
  <2>7. Typed'
    BY <1>1, <1>2, <2>1, <2>5, <2>6 DEF Typed, Inner
  <2>8. Writing(p)' /\ Behind(p)' /\ J' = J
    BY <1>1, <1>3, <2>1, <2>2, <2>6 DEF Writing, Behind, NoError, J
  <2>9. Stretching(p)'
    BY <1>1, <2>1, <2>2, <2>3, <2>5, <2>6, <2>8 DEF Stretching
  <2>10. AtStretch(p)'
    BY <2>1, <2>2, <2>9 DEF AtStretch
  <2>11. Place(p)' /\ Inner'
    BY <2>6, <2>10 DEF Place, Inner
  <2>12. FileOk(p)' /\ InUse'
    BY <1>1, <1>2, <2>1, <2>6, FileKept DEF InUse
  <2> QED BY <1>1, <1>2, <2>1, <2>7, <2>11, <2>12, Goes
<1> QED BY <1>5, <1>6, <1>7, <1>8 DEF WriteLoop

\* sync_window asks for writes alone, after which the window is saved.
LEMMA SyncWrites ==
  ASSUME NEW d, NEW f, NEW p, NEW t, Whole(d, p, t), Cache(d, f, p, t), NEW i \in Slots
  PROVE  /\ Good(d, f, Sync(f, i), p, t) /\ Writes(Sync(f, i))
         /\ \A r : Flushed(f, Sync(f, i), r, i)
<1>1. /\ Orders(d, f, Sync(f, i))
      /\ i \in f.dirty => Clears(Sync(f, i), i)
  BY SyncIs
<1>2. Pending(d, f, Sync(f, i), p)
  BY <1>1, SyncPending
<1>3. Writes(Sync(f, i))
  BY <1>1 DEF Orders, Writes, Saving, Copying
<1> QED BY <1>1, <1>2, <1>3 DEF Good, Flushed

\* f_write takes the cluster it was given, the first of the file or one more,
\* or stops without.
LEMMA NextClusterStep ==
  ASSUME NEW p \in Seq(Own), Typed, LogIs(p), NextCluster
  PROVE  Typed' /\ Inner' /\ \E w \in Seq(Own) : LogIs(w)'
<1>1. call.pc = "cluster" /\ io = <<>> /\ Inner /\ InFile /\ chain' = chain
      /\ disk' = disk /\ made' = made /\ old' = old /\ kept' = kept /\ res' = "ok"
  BY DEF NextCluster, At, InFile, Step, Inner
<1>2. /\ Good(disk, fs, io, p, old) /\ Whole(disk, p, old) /\ Cache(disk, fs, p, old)
      /\ FileOk(p) /\ Place(p) /\ fs.tag[fs.win] # 0 /\ InUse
      /\ fs \in Fss /\ fp \in Files /\ call \in Calls /\ chain \in Chains
      /\ Len(old) \in Nat /\ Len(p) \in Nat
  BY <1>1, Here
<1>3. /\ Writing(p) /\ Behind(p) /\ (call.ret \in Clusters => NextIs(disk, fs, p, J, call.ret))
      /\ call.len > 0 /\ J \in Nat
  BY <1>1, <1>2, PtrIs DEF Place, AtCluster, Typed, J, Files
<1>4. CASE call.ret = NoCluster /\ WriteEnds
  BY <1>1, <1>2, <1>3, <1>4, WriteEnded
<1>5. CASE call.ret \in {IntError, DiskError} /\ Abort(fp) /\ NoIo
  <2>1. fs' = fs /\ io' = <<>>
    BY <1>1, <1>5 DEF NoIo
  <2> QED BY <1>1, <1>2, <1>3, <1>5, <2>1, Aborted
<1>6. CASE /\ call.ret \in Clusters
           /\ fp' = [fp EXCEPT !.clust = call.ret,
                               !.start = IF @ = NoCluster THEN call.ret ELSE @]
           /\ io' = LET held == {i \in Slots : fp.dsect # 0 /\ fs.tag[i] = fp.dsect}
                    IN  IF held = {} THEN <<>>
                        ELSE Sync(fs, IF 0 \in held THEN 0 ELSE 1)
           /\ Goto("sector") /\ UNCHANGED fs
  <2> DEFINE n == call.ret
             start == IF fp.start = NoCluster THEN n ELSE fp.start
  <2>1. NextIs(disk, fs, p, J, n) /\ n \in Own
    <3>1. NextIs(disk, fs, p, J, n)
      BY <1>3, <1>6
    <3>2. CASE J + 1 <= Len(p) /\ n = p[J + 1]
      <4>1. J + 1 \in 1..Len(p)
        BY <1>2, <1>3, <3>2
      <4> QED BY <1>2, <3>1, <3>2, <4>1, WholeFacts
    <3>3. CASE Linkable(disk, n, p)
      BY <3>1, <3>3 DEF Linkable
    <3> QED BY <3>1, <3>2, <3>3 DEF NextIs
  <2>2. start \in Own
    <3>1. fp.start \in {0} \cup Own
      BY <1>2 DEF Files
    <3> QED BY <2>1, <3>1 DEF NoCluster
  <2>3. fp' = [fp EXCEPT !.clust = n, !.start = start]
    BY <1>6
  <2> HIDE DEF start, n
  <2>4. /\ fp' \in Files /\ fp'.clust = n /\ fp'.start = start /\ fp'.size = fp.size
        /\ fp'.ptr = fp.ptr /\ fp'.flags = fp.flags /\ fp'.dsect = fp.dsect
    BY <1>2, <2>1, <2>2, <2>3 DEF Files
  <2>5. /\ call' \in Calls /\ call'.pc = "sector" /\ call'.len = call.len /\ call'.left = call.left
    BY <1>2, <1>6 DEF Goto, Calls, Places
  <2>6. Typed'
    BY <1>1, <1>2, <2>4, <2>5 DEF Typed, Inner
  <2>7. ASSUME NEW w \in Seq(Own), Whole(disk, w, old), Cache(disk, fs, w, old), Len(w) > 0,
               start = First(w), NextIs(disk, fs, w, J, n), Behind(w), fp.size <= Len(w) * Width,
               fp.ptr <= Len(w) * Width, NewText(disk, fs, w, old, fp.ptr, made),
               io' = <<>> \/ \E i \in Slots : io' = Sync(fs, i)
        PROVE  LogIs(w)'
    <3>1. Good(disk, fs, io', w, old) /\ Writes(io')
      <4>1. CASE io' = <<>>
        BY <2>7, <4>1, NoAccess DEF Good, Writes
      <4>2. CASE \E i \in Slots : io' = Sync(fs, i)
        BY <2>7, <4>2, SyncWrites
      <4> QED BY <2>7, <4>1, <4>2
    <3>2. Writing(w)' /\ Behind(w)' /\ J' = J
      <4>1. Writing(w)
        BY <1>3 DEF Writing
      <4> QED BY <1>1, <1>6, <2>4, <2>5, <2>7, <4>1 DEF Writing, Behind, NoError, J
    <3>3. AtSector(w)'
      BY <1>1, <1>6, <2>4, <2>7, <3>1, <3>2 DEF AtSector
    <3>4. Place(w)' /\ Inner'
      BY <2>5, <3>3 DEF Place, Inner
    <3>5. FileOk(w)' /\ InUse'
      BY <1>1, <1>2, <1>6, <2>4, <2>5, <2>7 DEF FileOk, InUse
    <3> QED BY <1>1, <1>6, <2>7, <3>1, <3>4, <3>5, Goes
  <2>8. io' = <<>> \/ \E i \in Slots : io' = Sync(fs, i)
    BY <1>6 DEF Slots
  <2>9. First(p) \in Own \cup {0} /\ (First(p) = 0 <=> Len(p) = 0) /\ fp.start = First(p)
    BY <1>2, PathFacts DEF Whole, FileOk
  <2>10. CASE fp.start = 0
    <3>1. Len(p) = 0 /\ start = n
      BY <2>9, <2>10 DEF start, NoCluster
    <3>2. fp.ptr = 0 /\ fp.size = 0 /\ J = 0 /\ Len(old) = 0
      <4>1. Len(p) * Width = 0
        BY <3>1, Numbers
      <4>2. fp.ptr \in Nat /\ fp.size \in Nat /\ fp.ptr <= 0 /\ fp.size <= 0 /\ Len(old) <= fp.size
        BY <1>2, <4>1 DEF FileOk, Files
      <4>3. fp.ptr = 0
        BY <4>2
      <4>4. 0 \div Width = 0
        BY PtrIs
      <4>5. fp.size = 0 /\ Len(old) = 0
        BY <1>2, <4>2
      <4> QED BY <4>3, <4>4, <4>5 DEF J
    <3>3. Linkable(disk, n, p)
      BY <2>1, <3>1, <3>2 DEF NextIs
    <3>4. /\ <<n>> \in Seq(Own) /\ Len(<<n>>) = 1 /\ First(<<n>>) = n
          /\ Whole(disk, <<n>>, old) /\ Cache(disk, fs, <<n>>, old)
      BY <1>2, <3>1, <3>3, FirstCluster
    <3>5. PICK w \in Seq(Own) : /\ Len(w) = 1 /\ First(w) = n /\ w[1] = n
                                /\ Whole(disk, w, old) /\ Cache(disk, fs, w, old)
      <4>1. Len(<<n>>) = 1 /\ First(<<n>>) = n /\ <<n>>[1] = n
        BY <3>4
      <4> QED BY <3>4, <4>1
    <3>6. NextIs(disk, fs, w, J, n)
      BY <3>2, <3>5 DEF NextIs
    <3>7. Behind(w)
      BY <1>3, <3>2 DEF Behind
    <3>8. NewText(disk, fs, w, old, fp.ptr, made)
      <4> SUFFICES ASSUME NEW k \in 1..Len(w), NEW i \in Cells, Pos(k, i) < fp.ptr
                   PROVE  FALSE
        BY DEF NewText
      <4>1. Pos(k, i) \in Nat
        BY <3>5, PosIs
      <4> QED BY <3>2, <4>1
    <3>9. 0 <= Len(w) * Width
      BY <3>5, Numbers
    <3>10. Len(w) > 0 /\ start = First(w) /\ fp.size <= Len(w) * Width /\ fp.ptr <= Len(w) * Width
      <4>1. Len(w) > 0
        BY <3>5
      <4> QED BY <3>1, <3>2, <3>5, <3>9, <4>1
    <3>11. LogIs(w)'
      BY <2>7, <2>8, <3>5, <3>6, <3>7, <3>8, <3>10
    <3> QED BY <2>5, <2>6, <3>5, <3>11 DEF Inner
  <2>11. CASE fp.start # 0
    <3>1. Len(p) > 0 /\ start = First(p)
      BY <1>2, <2>9, <2>11 DEF start, NoCluster
    <3>2. fp.size <= Len(p) * Width /\ fp.ptr <= Len(p) * Width /\ NewText(disk, fs, p, old, fp.ptr, made)
      BY <1>2, <1>3 DEF FileOk, Writing
    <3> QED BY <1>2, <1>3, <2>1, <2>5, <2>6, <2>7, <2>8, <3>1, <3>2 DEF Inner
  <2> QED BY <2>10, <2>11
<1> QED BY <1>4, <1>5, <1>6 DEF NextCluster

\* f_write writes back the current window before it gives it to the next
\* sector.
LEMMA NextSectorStep ==
  ASSUME NEW p \in Seq(Own), Typed, LogIs(p), NextSector
  PROVE  Typed' /\ LogIs(p)' /\ Inner'
<1>1. call.pc = "sector" /\ io = <<>> /\ Inner /\ InFile /\ chain' = chain
      /\ disk' = disk /\ made' = made /\ old' = old /\ kept' = kept /\ res' = "ok"
  BY DEF NextSector, At, InFile, Step, Inner
<1>2. /\ Good(disk, fs, io, p, old) /\ Whole(disk, p, old) /\ Cache(disk, fs, p, old)
      /\ FileOk(p) /\ Place(p) /\ fs.tag[fs.win] # 0 /\ InUse
      /\ fs \in Fss /\ fp \in Files /\ call \in Calls /\ chain \in Chains
      /\ Len(old) \in Nat /\ Len(p) \in Nat
  BY <1>1, Here
<1>3. /\ Writing(p) /\ Behind(p) /\ NextIs(disk, fs, p, J, fp.clust) /\ Len(p) > 0 /\ call.len > 0
  BY <1>1, <1>2 DEF Place, AtSector, Typed
<1>4. CASE Failed /\ Abort(fp) /\ NoIo
  <2>1. fs' = fs /\ io' = <<>>
    BY <1>1, <1>4 DEF NoIo
  <2> QED BY <1>1, <1>2, <1>3, <1>4, <2>1, Aborted
<1>5. CASE /\ ~Failed /\ fp.ptr >= fp.size
           /\ io' = Sync(fs, fs.win) /\ Goto("grow") /\ UNCHANGED <<fs, fp>>
  <2>1. fs.win \in Slots
    BY <1>2, CacheFacts
  <2>2. Good(disk, fs, io', p, old) /\ Writes(io') /\ Flushed(fs, io', res', fs.win)
    BY <1>2, <1>5, <2>1, SyncWrites
  <2>3. /\ call' \in Calls /\ call'.pc = "grow" /\ call'.len = call.len /\ call'.left = call.left
    BY <1>2, <1>5 DEF Goto, Calls, Places
  <2>4. Typed'
    BY <1>1, <1>2, <1>5, <2>3 DEF Typed, Inner
  <2>5. Writing(p)' /\ Behind(p)' /\ J' = J
    BY <1>1, <1>3, <1>5, <2>3 DEF Writing, Behind, NoError, J
  <2>6. AtGrow(p)'
    BY <1>1, <1>3, <1>5, <2>2, <2>5 DEF AtGrow
  <2>7. Place(p)' /\ Inner'
    BY <2>3, <2>6 DEF Place, Inner
  <2>8. FileOk(p)' /\ InUse'
    BY <1>1, <1>2, <1>5, <2>3, FileKept DEF InUse
  <2> QED BY <1>1, <1>5, <2>2, <2>4, <2>7, <2>8, Goes
<1>6. ~(fp.ptr < fp.size)
  BY <1>2, <1>3 DEF Writing, Files
<1> QED BY <1>4, <1>5, <1>6 DEF NextSector

\* f_write gives the window that has been saved to the new sector.
LEMMA GrowStep ==
  ASSUME NEW p \in Seq(Own), Typed, LogIs(p), Grow
  PROVE  Typed' /\ LogIs(p)' /\ Inner'
<1>1. call.pc = "grow" /\ io = <<>> /\ Inner /\ InFile /\ chain' = chain
      /\ disk' = disk /\ made' = made /\ old' = old /\ kept' = kept /\ res' = "ok"
  BY DEF Grow, At, InFile, Step, Inner
<1>2. /\ Good(disk, fs, io, p, old) /\ Whole(disk, p, old) /\ Cache(disk, fs, p, old)
      /\ FileOk(p) /\ Place(p) /\ fs.tag[fs.win] # 0 /\ InUse
      /\ fs \in Fss /\ fp \in Files /\ call \in Calls /\ chain \in Chains
      /\ Len(old) \in Nat /\ Len(p) \in Nat /\ J \in Nat
  BY <1>1, Here, PtrIs DEF J, Files
<1>3. /\ Writing(p) /\ Behind(p) /\ NextIs(disk, fs, p, J, fp.clust) /\ Len(p) > 0 /\ call.len > 0
      /\ Flushed(fs, io, res, fs.win)
  BY <1>1, <1>2 DEF Place, AtGrow, Typed
<1>4. CASE Failed /\ Abort(fp) /\ NoIo
  <2>1. fs' = fs /\ io' = <<>>
    BY <1>1, <1>4 DEF NoIo
  <2> QED BY <1>1, <1>2, <1>3, <1>4, <2>1, Aborted
<1>5. CASE /\ ~Failed
           /\ fp' = [fp EXCEPT !.dsect = Sector(fp.clust)]
           /\ Move([fs EXCEPT !.tag[fs.win] = Sector(fp.clust)], Sector(fp.clust))
           /\ Goto("copy")
  <2> DEFINE s == Sector(fp.clust)
             g == Retag(fs, s)
  <2>1. fs.win \notin fs.dirty
    <3>1. ~Clears(<<>>, fs.win)
      BY NoOrders
    <3> QED BY <1>1, <1>3, <1>5, <3>1 DEF Flushed, Failed
  <2>2. J + 1 \in 1..Len(p) /\ fp.clust = p[J + 1] /\ s = Sector(p[J + 1])
    BY <1>2, <1>3, <2>1 DEF NextIs
  <2>3. /\ s \in Sectors /\ s # 0 /\ s # Dir /\ s \notin FatPart /\ fp.clust \in Own
        /\ \A k \in 1..Len(p) : Sector(p[k]) = s => p[k] = p[J + 1]
    <3>1. \A k \in 1..Len(p) : p[k] \in Clusters /\ p[k] # 2 /\ p[k] \in Own
      BY <1>2, WholeFacts
    <3> QED BY <2>2, <3>1, SectorPlace
  <2>4. \A i \in Slots : fs.tag[i] # s
    <3>1. fp.dsect # s
      <4>1. CASE fp.dsect = 0
        BY <2>3, <4>1
      <4>2. CASE J > 0 /\ J <= Len(p) /\ fp.dsect = Sector(p[J])
        <5>1. J \in 1..Len(p) /\ J # J + 1
          BY <1>2, <4>2
        <5>2. p[J] # p[J + 1]
          BY <1>2, <2>2, <5>1 DEF Whole, Path
        <5> QED BY <2>3, <4>2, <5>1, <5>2
      <4> QED BY <1>3, <4>1, <4>2 DEF Behind
    <3> QED BY <1>3, <2>3, <3>1 DEF Behind, OneFile, Meta
  <2>5. fp.ptr = Pos(J + 1, 0) /\ (fp.ptr % Width) = 0
    <3>1. fp.ptr \in Nat /\ (fp.ptr % Width) = 0
      BY <1>2, <1>3 DEF Behind, Files
    <3> QED BY <3>1, PtrIs DEF J
  <2>6. /\ Cache(disk, g, p, old)
        /\ g.tag[fs.win] = s /\ g.win = fs.win
        /\ NewText(disk, fs, p, old, fp.ptr, made) => NewText(disk, g, p, old, fp.ptr, made)
        /\ Entered(disk, fs) => Entered(disk, g)
    <3>1. Len(old) <= Pos(J + 1, 0)
      BY <1>3, <2>5 DEF Writing
    <3> HIDE DEF s
    <3> QED BY <1>2, <2>1, <2>2, <2>4, <2>5, <3>1, RetagIs
  <2>7. fs' = Moved(g, s) /\ io' = MoveIo(g, s) /\ g \in Fss
    BY <1>5, <2>6 DEF Move, Retag, Cache
  <2>8. fs.win \in Slots /\ fs.win \in Holding(g, s)
    BY <1>2, <2>6, CacheFacts DEF Holding
  <2> HIDE DEF g, s
  <2>9. SameBut(g, fs') /\ g.tag[fs'.win] = s /\ io' = <<>>
    <3>1. Holding(g, s) # {}
      BY <2>8
    <3>2. io' = <<>>
      BY <2>7, <3>1 DEF MoveIo
    <3> QED BY <2>7, <3>1, <3>2, MovedIs
  <2>10. Good(disk, fs', io', p, old)
    BY <1>2, <2>6, <2>9, SameCache, NoAccess DEF Good
  <2>11. fs'.tag[fs'.win] = s /\ InUse'
    BY <2>3, <2>9 DEF SameBut, InUse
  <2>12. fp' = [fp EXCEPT !.dsect = s] /\ call' = [call EXCEPT !.pc = "copy"]
    BY <1>5 DEF s, Goto
  <2>13. /\ fp' \in Files /\ fp'.dsect = s /\ fp'.size = fp.size /\ fp'.ptr = fp.ptr
         /\ fp'.flags = fp.flags /\ fp'.start = fp.start /\ fp'.clust = fp.clust
    BY <1>2, <2>3, <2>12 DEF Files
  <2>14. /\ call' \in Calls /\ call'.pc = "copy" /\ call'.len = call.len /\ call'.left = call.left
    BY <1>2, <2>12 DEF Calls, Places
  <2>15. Typed'
    BY <1>1, <1>2, <2>9, <2>13, <2>14 DEF Typed, Inner
  <2>16. Writing(p)' /\ J' = J
    BY <1>1, <1>3, <2>13, <2>14 DEF Writing, NoError, J
  <2>17. AtCopy(p)'
    BY <1>1, <1>2, <1>3, <2>2, <2>5, <2>9, <2>11, <2>13, <2>14, <2>16 DEF AtCopy, Comes, Behind
  <2>18. Place(p)' /\ Inner'
    BY <2>14, <2>17 DEF Place, Inner
  <2>19. FileOk(p)'
    <3>1. NewText(disk, fs', p, old, fp.ptr, made) /\ Entered(disk, fs')
      BY <1>2, <1>3, <2>6, <2>9, SameIs DEF FileOk, Writing
    <3> QED BY <1>1, <1>2, <2>13, <2>14, <3>1 DEF FileOk
  <2> QED BY <1>1, <2>10, <2>11, <2>15, <2>18, <2>19, Goes
<1> QED BY <1>4, <1>5 DEF Grow

\* Two sums that begin with the same part compare as what comes behind it.
LEMMA Shifted ==
  \A x, y, z, w, v, n : x \in Nat /\ y \in Nat /\ z \in Nat /\ w \in Nat /\ v \in Nat /\ n \in Nat
       /\ x = y + z /\ v = y + w =>
          (z + n <= w => x + n <= v) /\ (z + n = w => x + n = v)
OBVIOUS

\* What f_write copies ends with the line or with the sector, whichever comes
\* first.
LEMMA CopyRoom ==
  ASSUME NEW ptr \in Nat, NEW left \in Nat, left > 0, NEW j, j = (ptr \div Width) + 1,
         NEW from, from = ptr % Width, NEW n,
         n = IF left < Width - from THEN left ELSE Width - from
  PROVE  /\ n \in Nat /\ n <= left /\ left - n \in Nat /\ ptr + n \in Nat
         /\ from \in Cells /\ j \in Nat \ {0} /\ from + n <= Width /\ ptr = Pos(j, from)
         /\ \A m \in Nat : j <= m => ptr + n <= m * Width
         /\ n < left => ((ptr + n) % Width) = 0 /\ (ptr + n) \div Width = j
         /\ from = 0 /\ left < Width => n = left
<1>1. /\ from \in Cells /\ j \in Nat \ {0} /\ ptr = Pos(j, from) /\ Width \in Nat
      /\ from \in Nat /\ from < Width
  <2>1. ptr \div Width \in Nat /\ from \in Cells /\ ptr = Pos(j, from)
    BY PtrIs
  <2>2. Width \in Nat
    BY Numbers
  <2> QED BY <2>1, <2>2 DEF Cells
<1>2. n \in Nat /\ n <= left /\ left - n \in Nat /\ ptr + n \in Nat /\ from + n <= Width
      /\ (n < left => from + n = Width) /\ (from = 0 /\ left < Width => n = left)
  BY <1>1
<1>3. (j - 1) * Width \in Nat /\ j * Width = (j - 1) * Width + Width /\ ptr = (j - 1) * Width + from
  BY <1>1, PosParts DEF Pos
<1>4. ptr + n <= j * Width /\ (n < left => ptr + n = j * Width)
  <2> DEFINE a == (j - 1) * Width
             b == j * Width
  <2>1. a \in Nat /\ b = a + Width /\ ptr = a + from
    BY <1>3
  <2> HIDE DEF a, b
  <2>3. b \in Nat
    BY <1>1, <2>1
  <2>4. (from + n <= Width => ptr + n <= b) /\ (from + n = Width => ptr + n = b)
    <3>1. ptr \in Nat /\ a \in Nat /\ b \in Nat /\ n \in Nat /\ from \in Nat /\ Width \in Nat /\ ptr = a + from /\ b = a + Width
      BY <1>1, <1>2, <2>1, <2>3
    <3> QED BY ONLY <3>1, Shifted
  <2>5. ptr + n <= b /\ (n < left => ptr + n = b)
    BY <1>2, <2>4
  <2> QED BY <2>5 DEF b
<1>5. ASSUME NEW m \in Nat, j <= m PROVE ptr + n <= m * Width
  <2>1. j * Width <= m * Width /\ j * Width \in Nat /\ m * Width \in Nat
    <3>1. CASE j = m
      BY <1>1, <1>5, <3>1, PosParts
    <3>2. CASE j < m
      <4>1. m \in Nat \ {0}
        BY <1>1, <1>5, <3>2
      <4>2. /\ (m - 1) * Width \in Nat /\ m * Width = (m - 1) * Width + Width /\ j * Width <= Pos(m, 0)
            /\ Pos(m, 0) = (m - 1) * Width /\ m * Width \in Nat /\ j * Width \in Nat
        BY <1>1, <3>2, <4>1, PosParts
      <4> DEFINE a == (m - 1) * Width
                 b == m * Width
                 c == j * Width
      <4>3. a \in Nat /\ b = a + Width /\ c <= a /\ b \in Nat /\ c \in Nat
        BY <4>2
      <4> HIDE DEF a, b, c
      <4>4. c <= b
        BY <1>1, <4>3
      <4> QED BY <4>3, <4>4 DEF b, c
    <3> QED BY <1>1, <1>5, <3>1, <3>2
  <2> DEFINE b == m * Width
             c == j * Width
  <2>2. c <= b /\ b \in Nat /\ c \in Nat /\ ptr + n <= c
    BY <1>4, <2>1
  <2> HIDE DEF b, c
  <2>3. ptr + n <= b
    BY <1>2, <2>2
  <2> QED BY <2>3 DEF b
<1>6. n < left => ((ptr + n) % Width) = 0 /\ (ptr + n) \div Width = j
  <2>1. (j * Width + 0) \div Width = j /\ (j * Width + 0) % Width = 0
    BY <1>1, Divided, Ends
  <2>2. j * Width + 0 = j * Width
    BY <1>1, PosParts
  <2> QED BY <1>4, <2>1, <2>2
<1> QED BY <1>1, <1>2, <1>5, <1>6

\* f_write copies a part of the line into the window and counts it.
LEMMA CopyStep ==
  ASSUME NEW p \in Seq(Own), Typed, LogIs(p), Copy
  PROVE  Typed' /\ LogIs(p)' /\ Inner'
<1>1. call.pc = "copy" /\ io = <<>> /\ Inner /\ InFile /\ chain' = chain /\ io' = <<>>
      /\ disk' = disk /\ made' = made /\ old' = old /\ kept' = kept /\ res' = "ok"
  BY DEF Copy, At, InFile, Step, Inner
<1>2. /\ Good(disk, fs, io, p, old) /\ Whole(disk, p, old) /\ Cache(disk, fs, p, old)
      /\ FileOk(p) /\ Place(p) /\ fs.tag[fs.win] # 0 /\ InUse
      /\ fs \in Fss /\ fp \in Files /\ call \in Calls /\ chain \in Chains
      /\ Len(old) \in Nat /\ Len(p) \in Nat /\ J \in Nat /\ made \in Nat
  BY <1>1, Here, PtrIs DEF J, Files
<1>3. /\ Writing(p) /\ Comes(fs, io, res, fp.dsect) /\ call.left > 0 /\ call.len > 0
      /\ \/ Inside(p) /\ FatClean(disk, fs) /\ fs.last = fs.win
         \/ (fp.ptr % Width) = 0 /\ J + 1 <= Len(p) /\ fp.dsect = Sector(p[J + 1])
  BY <1>1, <1>2 DEF Place, AtCopy, Typed
<1>4. CASE Failed /\ Abort(fp) /\ UNCHANGED fs
  BY <1>1, <1>2, <1>3, <1>4, Aborted
<1>5. ASSUME NEW ptr, ptr = fp.ptr, NEW left, left = call.left, NEW from, from = ptr % Width, NEW n,
             n = IF left < Width - from THEN left ELSE Width - from,
             ~Failed,
             fs' = [fs EXCEPT !.buf[fs.win] = Copied(fs.buf[fs.win], from, n, made), !.dirty = @ \cup {fs.win}],
             fp' = [fp EXCEPT !.ptr = @ + n],
             call' = [call EXCEPT !.pc = "write", !.left = @ - n]
      PROVE  Typed' /\ LogIs(p)' /\ Inner'
  <2> DEFINE j == J + 1
             b == Copied(fs.buf[fs.win], from, n, made)
  <2>1. /\ ptr \in Nat /\ left \in Nat /\ left > 0 /\ j = (ptr \div Width) + 1
        /\ fp.size \in Nat /\ call.len \in Nat /\ left < Width /\ Len(old) <= ptr
        /\ ptr + left = Len(old) + call.len /\ fp.size = Len(old) /\ NoError
        /\ call.left <= call.len
    <3>1. ptr \in Nat /\ left \in Nat /\ fp.size \in Nat /\ call.len \in Nat /\ Width \in Nat
      BY <1>2, <1>5, Numbers DEF Files, Calls
    <3>2. left <= call.len /\ call.len < Width /\ call.left <= call.len
      BY <1>5 DEF Typed
    <3>3. left < Width
      BY ONLY <3>1, <3>2
    <3>4. ptr + left = Len(old) + call.len /\ fp.size = Len(old) /\ NoError /\ ptr >= Len(old)
      BY <1>3, <1>5 DEF Writing
    <3>5. Len(old) <= ptr
      BY ONLY <1>2, <3>1, <3>4
    <3>6. j = (ptr \div Width) + 1
      BY <1>5 DEF J
    <3> QED BY <1>3, <1>5, <3>1, <3>2, <3>3, <3>4, <3>5, <3>6
  <2>2. /\ n \in Nat /\ n <= left /\ left - n \in Nat /\ ptr + n \in Nat
        /\ from \in Cells /\ j \in Nat \ {0} /\ from + n <= Width /\ ptr = Pos(j, from)
        /\ \A m \in Nat : j <= m => ptr + n <= m * Width
        /\ n < left => ((ptr + n) % Width) = 0 /\ (ptr + n) \div Width = j
        /\ from = 0 => n = left
    BY <1>5, <2>1, CopyRoom
  <2>3. /\ j \in 1..Len(p) /\ fs.tag[fs.win] = Sector(p[j]) /\ fp.dsect = Sector(p[j])
    BY <1>1, <1>2, <1>3, <1>5, <2>2 DEF Inside, Comes, Failed
  <2>4. /\ fs.win \in Slots /\ Sector(p[j]) # Dir /\ Sector(p[j]) \notin FatPart
    BY <1>2, <2>3, WholeFacts, CacheFacts, SectorPlace
  <2>5. fs' = [fs EXCEPT !.buf[fs.win] = b, !.dirty = @ \cup {fs.win}]
    BY <1>5
  <2>6. /\ Edited(fs, fs', b) /\ Cache(disk, fs', p, old)
        /\ NewText(disk, fs', p, old, ptr + n, made)
    <3>1. NewText(disk, fs, p, old, Pos(j, from), made) /\ Len(old) <= Pos(j, from)
      BY <1>2, <1>5, <2>1, <2>2 DEF FileOk
    <3>2. b = Copied(fs.buf[fs.win], from, n, made)
      OBVIOUS
    <3> HIDE DEF b, j
    <3>3. /\ Edited(fs, fs', b) /\ Cache(disk, fs', p, old)
          /\ NewText(disk, fs', p, old, Pos(j, from) + n, made)
      BY <1>2, <2>2, <2>3, <2>5, <3>1, <3>2, CopyIs
    <3> QED BY <2>2, <3>3
  <2> HIDE DEF b
  <2>7. /\ fp' \in Files /\ fp'.ptr = ptr + n /\ fp'.dsect = fp.dsect /\ fp'.size = fp.size
        /\ fp'.flags = fp.flags /\ fp'.start = fp.start /\ fp'.clust = fp.clust
    <3> DEFINE more == ptr + n
    <3>1. fp' = [fp EXCEPT !.ptr = more] /\ more \in Nat
      BY <1>5, <2>2
    <3> HIDE DEF more
    <3>2. /\ fp' \in Files /\ fp'.ptr = more /\ fp'.dsect = fp.dsect /\ fp'.size = fp.size
          /\ fp'.flags = fp.flags /\ fp'.start = fp.start /\ fp'.clust = fp.clust
      BY <1>2, <3>1 DEF Files
    <3> QED BY <3>2 DEF more
  <2>8. /\ call' \in Calls /\ call'.pc = "write" /\ call'.len = call.len /\ call'.left = left - n
    <3> DEFINE rest == left - n
    <3>1. call' = [call EXCEPT !.pc = "write", !.left = rest] /\ rest \in Nat
      BY <1>5, <2>2
    <3> HIDE DEF rest
    <3>2. /\ call' \in Calls /\ call'.pc = "write" /\ call'.len = call.len /\ call'.left = rest
      BY <1>2, <3>1 DEF Calls, Places
    <3> QED BY <3>2 DEF rest
  <2>9. Typed'
    <3>1. call'.left <= call'.len
      BY <1>5, <2>1, <2>2, <2>8
    <3> QED BY <1>1, <1>2, <2>7, <2>8, <3>1 DEF Typed, Inner
  <2>10. (ptr + n) + (left - n) = Len(old) + call.len /\ ptr + n >= Len(old)
         /\ ptr + n <= fp.size + call.len
    BY <1>2, <2>1, <2>2
  <2>11. Writing(p)'
    BY <1>1, <2>1, <2>7, <2>8, <2>10 DEF Writing, NoError
  <2>12. ASSUME call'.left > 0
         PROVE  /\ FatClean(disk', fs') /\ fs'.dirty \subseteq {fs'.last}
                /\ Behind(p)' /\ (J' > 0 => J' <= Len(p) /\ fp'.clust = p[J'])
    <3>1. n < left
      BY <2>1, <2>2, <2>8, <2>12
    <3>2. from # 0
      BY <2>2, <3>1
    <3>3. Inside(p) /\ FatClean(disk, fs) /\ fs.last = fs.win
      BY <1>3, <1>5, <3>2
    <3>4. J' = j /\ (fp'.ptr % Width) = 0
      BY <2>2, <2>7, <3>1 DEF J
    <3>5. fs'.tag = fs.tag /\ fs'.win = fs.win /\ fs'.last = fs.last /\ fs'.dirty = fs.dirty \cup {fs.win}
          /\ \A i \in Slots \ {fs.win} : fs'.buf[i] = fs.buf[i]
      BY <2>6 DEF Edited
    <3>6. FatClean(disk', fs')
      <4> SUFFICES ASSUME NEW i \in Slots, fs'.tag[i] \in FatPart PROVE fs'.buf[i] = disk[fs'.tag[i]]
        BY <1>1 DEF FatClean
      <4>1. i # fs.win
        BY <2>3, <2>4, <3>5
      <4> QED BY <3>3, <3>5, <4>1 DEF FatClean
    <3>7. fs'.dirty \subseteq {fs'.last}
      BY <3>3, <3>5 DEF Inside
    <3>8. OneFile(fs', fp'.dsect)
      BY <2>7, <3>3, <3>5 DEF Inside, OneFile
    <3>9. J' > 0 /\ J' <= Len(p) /\ fp'.clust = p[J'] /\ fp'.dsect = Sector(p[J'])
      BY <1>2, <2>2, <2>3, <2>7, <3>3, <3>4 DEF Inside
    <3> QED BY <2>12, <3>4, <3>6, <3>7, <3>8, <3>9 DEF Behind
  <2>13. AtWrite(p)'
    BY <1>1, <2>11, <2>12 DEF AtWrite
  <2>14. Place(p)' /\ Inner'
    BY <2>8, <2>13 DEF Place, Inner
  <2>15. Entered(disk, fs')
    BY <1>2, <2>3, <2>4, <2>6, EditedEntry DEF FileOk
  <2>16. FileOk(p)'
    <3>1. ptr + n <= Len(p) * Width
      BY <1>2, <2>2, <2>3
    <3> QED BY <1>1, <1>2, <2>6, <2>7, <2>8, <2>10, <2>15, <3>1 DEF FileOk
  <2>17. Good(disk, fs', <<>>, p, old)
    BY <1>2, <2>6, NoAccess DEF Good
  <2>18. fs'.tag[fs'.win] # 0
    BY <1>2, <2>6 DEF Edited
  <2> QED BY <1>1, <2>9, <2>14, <2>16, <2>17, <2>18, Goes DEF InUse
<1>6. CASE ~Failed
  <2> DEFINE from == fp.ptr % Width
             n == IF call.left < Width - from THEN call.left ELSE Width - from
  <2>1. /\ fs' = [fs EXCEPT !.buf[fs.win] = Copied(fs.buf[fs.win], from, n, made), !.dirty = @ \cup {fs.win}]
        /\ fp' = [fp EXCEPT !.ptr = @ + n]
        /\ call' = [call EXCEPT !.pc = "write", !.left = @ - n]
    BY <1>6 DEF Copy, Copied
  <2> QED BY <1>5, <1>6, <2>1
<1> QED BY <1>4, <1>6 DEF Copy

-----------------------------------------------------------------------------
(* f_close.                                                                 *)

\* f_sync asks for the directory.
LEMMA CloseStep ==
  ASSUME NEW p \in Seq(Own), Typed, LogIs(p), Close
  PROVE  Typed' /\ LogIs(p)' /\ Inner'
<1>1. call.pc = "close" /\ io = <<>> /\ Inner /\ InFile /\ chain' = chain /\ fp' = fp
      /\ disk' = disk /\ made' = made /\ old' = old /\ kept' = kept /\ res' = "ok"
      /\ call' = [call EXCEPT !.pc = "update"] /\ Move(fs, Dir)
  BY DEF Close, At, InFile, Step, Inner, Goto
<1>2. /\ Good(disk, fs, io, p, old) /\ Whole(disk, p, old) /\ Cache(disk, fs, p, old)
      /\ FileOk(p) /\ Place(p) /\ fs.tag[fs.win] # 0 /\ call \in Calls
  BY <1>1, Here
<1>3. AllSaid
  BY <1>1, <1>2 DEF Place, AtClose
<1>4. /\ Good(disk, fs', io', p, old) /\ InUse' /\ SameBut(fs, fs')
      /\ Comes(fs', io', res', Dir)
  <2>1. Dir \in Loadable(p)
    BY DEF Loadable, Meta
  <2> QED BY <1>1, <1>2, <2>1, MoveStep
<1>5. call' \in Calls /\ call'.pc = "update" /\ call'.len = call.len /\ call'.left = call.left
  BY <1>1, <1>2 DEF Calls, Places
<1>6. Typed'
  BY <1>1, <1>5 DEF Typed, Inner
<1>7. AllSaid'
  BY <1>1, <1>3, <1>5 DEF AllSaid, NoError
<1>8. Place(p)' /\ Inner'
  BY <1>4, <1>5, <1>7 DEF Place, Inner, AtUpdate
<1>9. FileOk(p)'
  BY <1>1, <1>2, <1>4, <1>5, SameIs, FileKept
<1> QED BY <1>1, <1>4, <1>6, <1>8, <1>9, Goes

\* f_sync writes size and first cluster into the entry: not before the chain
\* holds what they name.
LEMMA UpdateStep ==
  ASSUME NEW p \in Seq(Own), Typed, LogIs(p), Update
  PROVE  Typed' /\ LogIs(p)' /\ Inner'
<1> DEFINE f1 == Changed(fs, 1, fp.size)
           f2 == Changed(f1, 2, fp.start)
           b == fs.buf[fs.win]
           b1 == [b EXCEPT ![1] = fp.size]
           b2 == [b1 EXCEPT ![2] = fp.start]
<1>1. call.pc = "update" /\ io = <<>> /\ Inner /\ InFile /\ chain' = chain /\ ~Failed
      /\ disk' = disk /\ made' = made /\ old' = old /\ kept' = kept /\ res' = "ok"
      /\ fp' = [fp EXCEPT !.flags = @ \ {"written"}] /\ call' = [call EXCEPT !.pc = "rest"]
      /\ fs' = f2 /\ io' = Sync(fs', 0)
  BY DEF Update, At, InFile, Step, Inner, Goto
<1>2. /\ Whole(disk, p, old) /\ Cache(disk, fs, p, old)
      /\ FileOk(p) /\ Place(p) /\ fs.tag[fs.win] # 0 /\ call \in Calls /\ fp \in Files
      /\ Len(p) \in Nat /\ Len(old) \in Nat
  BY <1>1, Here
<1>3. AllSaid /\ fs.tag[fs.win] = Dir
  BY <1>1, <1>2 DEF Place, AtUpdate, Comes, Failed
<1>4. /\ fs \in Fss /\ fs.win \in Slots /\ b \in [Cells -> Nat]
      /\ \A i \in Slots : fs.tag[i] = Dir => i = fs.win
  <2>1. Dir # 0
    BY Apart
  <2> QED BY <1>2, <1>3, <2>1, CacheFacts
<1>5. fp.size \in Nat /\ fp.start \in Nat /\ fp.start = First(p)
      /\ Len(old) <= fp.size /\ fp.size <= Len(p) * Width
  <2>1. \A c \in Own : c \in Nat
    BY Numbers DEF Own, Clusters
  <2> QED BY <1>2, <2>1 DEF Files, FileOk
<1>6. /\ 0 \in Cells /\ 1 \in Cells /\ 2 \in Cells
  BY Ends
<1>7. Edited(fs, f1, b1) /\ b1 \in [Cells -> Nat] /\ f1 \in Fss /\ f1.buf[f1.win] = b1
      /\ f1.tag = fs.tag /\ f1.win = fs.win
  <2>1. Edited(fs, f1, b1) /\ b1 \in [Cells -> Nat]
    BY <1>4, <1>5, <1>6, ChangedIs
  <2> HIDE DEF f1, b1
  <2> QED BY <2>1 DEF Edited
<1>8. Edited(fs, f2, b2) /\ b2 \in [Cells -> Nat]
  <2> HIDE DEF f1, b1
  <2>1. Edited(f1, f2, b2) /\ b2 \in [Cells -> Nat]
    BY <1>5, <1>6, <1>7, ChangedIs
  <2> HIDE DEF f2, b2
  <2> QED BY <1>7, <2>1, EditedTwice
<1>9. b2[0] = b[0] /\ b2[1] = fp.size /\ b2[2] = fp.start
  <2> HIDE DEF b
  <2> QED BY <1>4, <1>6
<1> HIDE DEF f1, f2, b1, b2
<1>10. b2[0] # 0
  <2>1. b[0] # 0
    BY <1>2, <1>3, <1>4 DEF FileOk, Entered
  <2> QED BY <1>9, <2>1
<1>11. DirOk(b2, p, old)
  <2>1. fp.start = 0 => fp.size = 0
    <3>1. First(p) = 0 => Len(p) = 0
      BY <1>2, PathFacts DEF Whole
    <3>2. 0 * Width = 0
      BY Numbers
    <3> QED BY <1>5, <3>1, <3>2
  <2> QED BY <1>5, <1>9, <1>10, <2>1 DEF DirOk
<1>12. Cache(disk, fs', p, old) /\ Edited(fs, fs', b2)
  BY <1>1, <1>2, <1>3, <1>8, <1>11, EntryEdited
<1>13. Good(disk, fs', io', p, old) /\ Flushed(fs', io', res', 0)
  BY <1>1, <1>2, <1>12, SyncWrites DEF Slots
<1>14. /\ fp' \in Files /\ fp'.ptr = fp.ptr /\ fp'.size = fp.size /\ fp'.start = fp.start
       /\ fp'.flags = fp.flags \ {"written"}
  BY <1>1, <1>2 DEF Files
<1>15. call' \in Calls /\ call'.pc = "rest" /\ call'.len = call.len /\ call'.left = call.left
  BY <1>1, <1>2 DEF Calls, Places
<1>16. Typed'
  BY <1>1, <1>14, <1>15 DEF Typed, Inner
<1>17. AllSaid' /\ (NoError' => NoError)
  BY <1>1, <1>3, <1>14, <1>15 DEF AllSaid, NoError
<1>18. Updated(disk, fs', fp.size, fp.start)
  BY <1>3, <1>4, <1>9, <1>12 DEF Updated, Edited
<1>19. Place(p)' /\ Inner'
  BY <1>1, <1>13, <1>14, <1>15, <1>17, <1>18 DEF Place, Inner, AtRest
<1>20. FileOk(p)'
  <2>1. Entered(disk, fs')
    BY <1>2, <1>9, <1>12, EditedEntry DEF FileOk
  <2>2. fs.tag[fs.win] \notin DataOf(p)
    BY <1>2, <1>3, WholeFacts, SectorPlace DEF DataOf
  <2>3. NoError => NewText(disk, fs', p, old, fp.ptr, made)
    BY <1>2, <1>12, <2>2, EditedText DEF FileOk
  <2> QED BY <1>1, <1>2, <1>14, <1>15, <1>17, <2>1, <2>3 DEF FileOk
<1>21. InUse'
  BY <1>2, <1>12 DEF InUse, Edited
<1> QED BY <1>1, <1>13, <1>16, <1>19, <1>20, <1>21, Goes

\* f_sync saves the other window.
LEMMA SyncRestStep ==
  ASSUME NEW p \in Seq(Own), Typed, LogIs(p), SyncRest
  PROVE  Typed' /\ LogIs(p)' /\ Inner'
<1>1. call.pc = "rest" /\ io = <<>> /\ Inner /\ InFile /\ chain' = chain /\ fp' = fp /\ ~Failed
      /\ disk' = disk /\ made' = made /\ old' = old /\ kept' = kept /\ res' = "ok" /\ fs' = fs
      /\ call' = [call EXCEPT !.pc = "info"] /\ io' = Sync(fs, 1)
  BY DEF SyncRest, At, InFile, Step, Inner, Goto
<1>2. /\ Whole(disk, p, old) /\ Cache(disk, fs, p, old)
      /\ FileOk(p) /\ Place(p) /\ fs.tag[fs.win] # 0 /\ call \in Calls
  BY <1>1, Here
<1>3. AllSaid /\ Updated(disk, fs, fp.size, fp.start) /\ Flushed(fs, io, res, 0)
  BY <1>1, <1>2 DEF Place, AtRest
<1>4. 0 \notin fs.dirty
  <2>1. ~Clears(<<>>, 0)
    BY NoOrders
  <2> QED BY <1>1, <1>3, <2>1 DEF Flushed, Failed
<1>5. Good(disk, fs, io', p, old) /\ Flushed(fs, io', res', 1) /\ Flushed(fs, io', res', 0)
  <2>1. Good(disk, fs, io', p, old) /\ Flushed(fs, io', res', 1)
    BY <1>1, <1>2, SyncWrites DEF Slots
  <2> QED BY <1>4, <2>1 DEF Flushed
<1>6. call' \in Calls /\ call'.pc = "info" /\ call'.len = call.len /\ call'.left = call.left
  BY <1>1, <1>2 DEF Calls, Places
<1>7. Typed'
  BY <1>1, <1>6 DEF Typed, Inner
<1>8. AllSaid'
  BY <1>1, <1>3, <1>6 DEF AllSaid, NoError
<1>9. Place(p)' /\ Inner'
  BY <1>1, <1>3, <1>5, <1>6, <1>8 DEF Place, Inner, AtInfo, AtRest
<1>10. FileOk(p)' /\ InUse'
  BY <1>1, <1>2, <1>6, FileKept DEF InUse
<1> QED BY <1>1, <1>5, <1>7, <1>9, <1>10, Goes

\* When the accesses f_sync asked for have been made, the line and its entry
\* are on the card.
LEMMA AllSaved ==
  ASSUME NEW p \in Seq(Own), Typed, LogIs(p), At("info"), ~Failed
  PROVE  fs.dirty = {} /\ AllSaid /\ Updated(disk, fs, fp.size, fp.start)
<1>1. call.pc = "info" /\ io = <<>> /\ Inner
  BY DEF At, Inner
<1>2. Place(p) /\ fs \in Fss
  BY <1>1, Here
<1>3. AllSaid /\ Updated(disk, fs, fp.size, fp.start) /\ Flushed(fs, io, res, 0) /\ Flushed(fs, io, res, 1)
  BY <1>1, <1>2 DEF Place, AtInfo, AtRest
<1>4. ~Clears(<<>>, 0) /\ ~Clears(<<>>, 1)
  BY NoOrders
<1>5. 0 \notin fs.dirty /\ 1 \notin fs.dirty /\ fs.dirty \subseteq {0, 1}
  BY <1>1, <1>2, <1>3, <1>4 DEF Flushed, Failed, Fss, Slots
<1> QED BY <1>3, <1>5

\* sync_fs writes FSInfo.
LEMMA WriteInfoStep ==
  ASSUME NEW p \in Seq(Own), Typed, LogIs(p), WriteInfo
  PROVE  Typed' /\ LogIs(p)' /\ Inner'
<1>1. call.pc = "info" /\ io = <<>> /\ Inner /\ InFile /\ chain' = chain /\ fp' = fp /\ ~Failed
      /\ disk' = disk /\ made' = made /\ old' = old /\ kept' = kept /\ res' = "ok"
      /\ call' = [call EXCEPT !.pc = "done"] /\ At("info") /\ io' = Write(0, Fsi, {}, FALSE)
  BY DEF WriteInfo, At, InFile, Step, Inner, Goto
<1>2. /\ Whole(disk, p, old) /\ Cache(disk, fs, p, old)
      /\ FileOk(p) /\ Place(p) /\ call \in Calls
  BY <1>1, Here
<1>3. fs.dirty = {} /\ AllSaid /\ Updated(disk, fs, fp.size, fp.start)
  BY <1>1, AllSaved
<1>4. fs' = Informed(fs)
  <2> DEFINE g == ClearBuff(fs)
             c == [Blank EXCEPT ![0] = fs.lastClust]
  <2>1. fs' = [[g EXCEPT !.buf[0] = c] EXCEPT !.fsiFlag = FALSE]
    BY DEF WriteInfo
  <2>2. Informed(fs) = [g EXCEPT !.buf[0] = c, !.fsiFlag = FALSE]
    BY DEF Informed
  <2> HIDE DEF g, c
  <2> QED BY <2>1, <2>2
<1>5. /\ Good(disk, fs', io', p, old) /\ fs'.dirty = {}
      /\ \A n, m : NewText(disk, fs, p, old, n, m) => NewText(disk, fs', p, old, n, m)
      /\ Entered(disk, fs) => Entered(disk, fs')
      /\ Updated(disk, fs', fp.size, fp.start)
  BY <1>1, <1>2, <1>3, <1>4, InfoIs
<1>6. call' \in Calls /\ call'.pc = "done" /\ call'.len = call.len /\ call'.left = call.left
  BY <1>1, <1>2 DEF Calls, Places
<1>7. Typed'
  BY <1>1, <1>6 DEF Typed, Inner
<1>8. AllSaid'
  BY <1>1, <1>3, <1>6 DEF AllSaid, NoError
<1>9. Place(p)' /\ Inner'
  BY <1>1, <1>5, <1>6, <1>8 DEF Place, Inner, AtDone, Failed
<1>10. FileOk(p)'
  BY <1>1, <1>2, <1>5, <1>6, FileKept
<1> QED BY <1>1, <1>5, <1>6, <1>7, <1>9, <1>10, Goes

-----------------------------------------------------------------------------
(* f_mount and f_open; the end of append, and of the power.                 *)

\* Whatever ends an append, a whole volume on the card is enough for the next
\* one.
LEMMA ToIdle ==
  ASSUME NEW p \in Seq(Own), NEW t, Whole(disk, p, t), Typed, disk' = disk, fs' = NoFs,
         fp' = NoFile, call' = Idle, chain' = NoChain, io' = <<>>, res' = "ok",
         made' = made, old' = old, kept' \in Seq(Nat), kept' = Text(disk) \/ IsStart(kept', t)
  PROVE  Inv'
<1>1. PICK w \in Seq(Own) : Whole(disk, w, t) /\ disk[Dir][2] = First(w)
  BY WholeAgain
<1>2. Whole(disk, w, kept')
  <2>1. CASE kept' = Text(disk)
    BY <1>1, <2>1, WholeText
  <2>2. CASE IsStart(kept', t)
    BY <1>1, <2>2, WholeShorter
  <2> QED BY <2>1, <2>2
<1>3. Good(disk, NoFs, <<>>, w, kept')
  BY <1>2, NoFsIs
<1>4. call'.pc = "idle" /\ Held' = kept'
  BY DEF Idle, Held
<1>5. /\ NoFile \in Files /\ NoChain \in Chains /\ Idle \in Calls
      /\ Idle.pc = "idle" /\ Idle.left = 0 /\ Idle.len = 0 /\ 0 < Width
  <2>1. NoFile \in Files
    BY DEF NoFile, Files
  <2>2. NoChain \in Chains
    BY Numbers DEF NoChain, Chains
  <2>3. Idle \in Calls /\ Idle.pc = "idle" /\ Idle.left = 0 /\ Idle.len = 0
    BY DEF Idle, Calls, Places
  <2> QED BY <2>1, <2>2, <2>3, Numbers
<1>6. Typed'
  BY <1>5 DEF Typed
<1>7. AtIdle'
  BY DEF AtIdle, Failed
<1>8. Place(w)'
  BY <1>4, <1>7 DEF Place
<1>9. LogIs(w)'
  BY <1>1, <1>3, <1>4, <1>8 DEF LogIs, Begun
<1>10. IsStart(kept', Held')
  BY <1>4 DEF IsStart
<1> QED BY <1>6, <1>9, <1>10 DEF Inv

\* The power may go at any access: the invariant holds of what is on the card.
LEMMA CrashStep ==
  ASSUME Inv, Crash
  PROVE  Inv'
<1>1. PICK p \in Seq(Own) : LogIs(p)
  BY DEF Inv
<1>2. Typed /\ IsStart(kept, old) /\ kept \in Seq(Nat)
  BY DEF Inv, Held, Crash, Typed
<1>3. Whole(disk, p, old)
  BY <1>1 DEF LogIs, Good, Held, Crash
<1> QED BY <1>2, <1>3, ToIdle DEF Crash

\* f_close returns, and kept becomes what the card then holds if the append
\* succeeded.
LEMMA ClosedStep ==
  ASSUME Inv, Closed
  PROVE  Inv'
<1>1. PICK p \in Seq(Own) : LogIs(p)
  BY DEF Inv
<1>2. call.pc # "idle" /\ io = <<>>
  BY DEF Closed, At
<1>3. Typed /\ IsStart(kept, old) /\ kept \in Seq(Nat) /\ Whole(disk, p, old)
  BY <1>1, <1>2 DEF Inv, Held, Typed, LogIs, Good
<1>4. PICK w \in Seq(Own) : Whole(disk, w, old) /\ disk[Dir][2] = First(w)
  BY <1>3, WholeAgain
<1>5. Text(disk) \in Seq(Nat)
  BY <1>4, TextIs
<1>6. /\ fs' = NoFs /\ fp' = NoFile /\ call' = Idle /\ chain' = NoChain /\ io' = <<>> /\ res' = "ok"
      /\ disk' = disk /\ made' = made /\ old' = old
      /\ kept' = IF Appended THEN Text(disk) ELSE kept
  BY <1>2 DEF Closed, Finish, Step
<1>7. kept' \in Seq(Nat) /\ (kept' = Text(disk) \/ IsStart(kept', old))
  BY <1>3, <1>5, <1>6
<1> QED BY <1>3, <1>6, <1>7, ToIdle

\* The invariant holds at the start.
LEMMA InitIs == FatInit => Inv
<1> SUFFICES ASSUME FatInit PROVE Inv
  OBVIOUS
<1>1. PICK size \in Sizes : disk = Volume(size)
  BY DEF FatInit
<1>2. PICK p \in Seq(Own) : Whole(disk, p, <<>>) /\ disk[Dir][2] = First(p)
  BY <1>1, VolumeIs
<1>3. Text(disk) \in Seq(Nat) /\ Whole(disk, p, Text(disk))
  BY <1>2, TextIs, WholeText
<1>4. Good(disk, NoFs, <<>>, p, Text(disk))
  BY <1>3, NoFsIs
<1>5. call.pc = "idle" /\ Held = Text(disk) /\ kept = Text(disk)
  BY DEF FatInit, Idle, Held
<1>6. /\ NoFile \in Files /\ NoChain \in Chains /\ Idle \in Calls
      /\ Idle.pc = "idle" /\ Idle.left = 0 /\ Idle.len = 0 /\ 0 < Width
  <2>1. NoFile \in Files
    BY DEF NoFile, Files
  <2>2. NoChain \in Chains
    BY Numbers DEF NoChain, Chains
  <2>3. Idle \in Calls /\ Idle.pc = "idle" /\ Idle.left = 0 /\ Idle.len = 0
    BY DEF Idle, Calls, Places
  <2> QED BY <2>1, <2>2, <2>3, Numbers
<1>7. Typed
  BY <1>3, <1>6 DEF Typed, FatInit
<1>8. Place(p)
  BY <1>5 DEF Place, AtIdle, Failed, FatInit
<1>9. LogIs(p)
  BY <1>2, <1>4, <1>5, <1>8 DEF LogIs, Begun, FatInit
<1>10. IsStart(kept, Held)
  BY <1>5 DEF IsStart
<1> QED BY <1>7, <1>9, <1>10 DEF Inv

\* append mounts the volume and asks for the directory.
LEMMA AppendLineStep ==
  ASSUME Inv, "read" \notin Faults, NEW len \in Lengths, AppendLine(len)
  PROVE  Inv'
<1>1. PICK p \in Seq(Own) : LogIs(p)
  BY DEF Inv
<1>2. /\ call.pc = "idle" /\ made' = made + 1 /\ old' = Text(disk) /\ res' = "ok"
      /\ disk' = disk /\ fp' = fp /\ chain' = chain /\ kept' = kept /\ Typed
      /\ call' = [Idle EXCEPT !.pc = "entry", !.len = len, !.left = len]
  BY DEF AppendLine, Inv, Fault
<1>3. /\ Good(disk, fs, io, p, kept) /\ disk[Dir][2] = First(p) /\ fp = NoFile
      /\ Whole(disk, p, kept)
  BY <1>1, <1>2 DEF LogIs, Held, Begun, Place, AtIdle, Good
<1>4. /\ Text(disk) \in Seq(Nat) /\ Whole(disk, p, Text(disk)) /\ IsStart(kept, Text(disk))
      /\ Len(Text(disk)) = Size(disk)
  BY <1>3, TextIs, WholeText, NeededIs
<1>5. PICK info \in BOOLEAN :
             Move([NoFs EXCEPT !.lastClust = IF info THEN disk[Fsi][0] ELSE 0, !.fsiValid = info], Dir)
  <2>1. Fat32 \in BOOLEAN
    BY VolumeAssumption
  <2>2. {Fat32} \cup (IF Fault("read") THEN {FALSE} ELSE {}) \subseteq BOOLEAN
    BY <2>1
  <2> QED BY <2>2 DEF AppendLine, Fault
<1>6. /\ Good(disk, fs', io', p, old') /\ Reads(io') /\ \A r : Comes(fs', io', r, Dir)
      /\ fs'.dirty = {} /\ fs'.win = 0 /\ fs'.last = 0 /\ \A i \in Slots : fs'.tag[i] = 0
  <2> DEFINE l == IF info THEN disk[Fsi][0] ELSE 0
             f == Mounted(l, info)
             t == Text(disk)
  <2>1. l \in 0..LastCluster
    BY <1>3, Numbers DEF Whole
  <2>2. fs' = Moved(f, Dir) /\ io' = MoveIo(f, Dir)
    BY <1>5 DEF Move, Mounted
  <2>3. f = Mounted(l, info) /\ Whole(disk, p, t) /\ old' = t
    BY <1>2, <1>4
  <2> HIDE DEF f, l, t
  <2>4. /\ Good(disk, fs', io', p, t) /\ Reads(io') /\ \A r : Comes(fs', io', r, Dir)
        /\ fs'.dirty = {} /\ fs'.win = 0 /\ fs'.last = 0 /\ \A i \in Slots : fs'.tag[i] = 0
    BY <2>1, <2>2, <2>3, MountIs
  <2> QED BY <2>3, <2>4
<1>7. len \in Nat /\ len > 0 /\ len < Width
  <2>1. len \in 1..(Width - 1) /\ Width \in Nat
    BY VolumeAssumption
  <2> QED BY <2>1
<1>8. /\ call' \in Calls /\ call'.pc = "entry" /\ call'.len = len /\ call'.left = len
  BY <1>2, <1>7 DEF Idle, Calls, Places
<1>9. Typed'
  BY <1>2, <1>4, <1>7, <1>8 DEF Typed
<1>10. OneFile(fs', 0) /\ fs'.tag[1] = 0
  BY <1>6 DEF OneFile, Slots
<1>11. AtEntry(p)'
  BY <1>2, <1>3, <1>4, <1>6, <1>8, <1>10 DEF AtEntry, Failed
<1>12. Place(p)' /\ InUse' /\ Held' = old'
  BY <1>6, <1>8, <1>11 DEF Place, InUse, Held
<1>13. LogIs(p)'
  BY <1>2, <1>3, <1>6, <1>8, <1>12 DEF LogIs, Begun
<1> QED BY <1>2, <1>4, <1>9, <1>12, <1>13 DEF Inv

\* At the beginning of the file there is no line yet.
LEMMA NoNewText ==
  ASSUME NEW d, NEW f, NEW p \in Seq(Own), NEW t, NEW m
  PROVE  NewText(d, f, p, t, 0, m)
<1> SUFFICES ASSUME NEW k \in 1..Len(p), NEW i \in Cells, Pos(k, i) < 0 PROVE FALSE
  BY DEF NewText
<1>1. Len(p) \in Nat
  OBVIOUS
<1>2. Pos(k, i) \in Nat
  BY <1>1, PosIs
<1> QED BY <1>2

\* f_open reads the entry of the log or creates it.
LEMMA EntryStep ==
  ASSUME NEW p \in Seq(Own), Typed, LogIs(p), Entry
  PROVE  Typed' /\ LogIs(p)' /\ Inner'
<1> DEFINE b == fs.buf[fs.win]
<1>1. call.pc = "entry" /\ io = <<>> /\ ~Failed /\ InFile /\ chain' = chain /\ io' = <<>>
      /\ disk' = disk /\ made' = made /\ old' = old /\ kept' = kept /\ res' = "ok"
      /\ call' = [call EXCEPT !.pc = IF fp'.size = 0 THEN "write" ELSE "seek", !.rest = fp'.size]
  BY DEF Entry, At, InFile, Step
<1>2. /\ Whole(disk, p, old) /\ Cache(disk, fs, p, old) /\ disk[Dir][2] = First(p) /\ AtEntry(p)
      /\ call \in Calls /\ call.len > 0 /\ call.len \in Nat /\ Len(p) \in Nat /\ Len(old) \in Nat
      /\ made \in Nat
  BY <1>1 DEF LogIs, Held, Good, Begun, Place, Typed, Calls
<1>3. /\ fs.dirty = {} /\ fs.win = 0 /\ fs.last = 0 /\ fs.tag[0] = Dir /\ fs.tag[1] = 0
      /\ OneFile(fs, 0) /\ Len(old) = Size(disk) /\ call.left = call.len /\ fp = NoFile
  BY <1>1, <1>2 DEF AtEntry, Comes, Failed
<1>4. /\ fs \in Fss /\ fs.win \in Slots /\ b = disk[Dir] /\ b \in [Cells -> Nat] /\ Dir # 0
      /\ DirOk(b, p, old) /\ Dir \notin FatPart /\ Slots = {0, 1}
  <2>1. Dir # 0 /\ Dir \notin FatPart /\ Dir \in Meta /\ 0 \in Slots
    BY Apart DEF Meta, Slots
  <2>2. fs.buf[0] = disk[fs.tag[0]]
    BY <1>2, <1>3, <2>1 DEF Cache
  <2>3. b = disk[Dir]
    BY <1>3, <2>2
  <2>4. disk[Dir] \in [Cells -> Nat]
    BY <1>2, WholeFacts
  <2> QED BY <1>2, <1>3, <2>1, <2>3, <2>4 DEF Whole, Cache, Slots
<1>5. First(p) \in Own \cup {0} /\ (First(p) = 0 <=> Len(p) = 0) /\ First(p) \in Nat
      /\ (Len(p) = 0 => Len(p) * Width = 0) /\ Len(p) * Width \in Nat
  <2>1. \A c \in Own : c \in Nat
    BY Numbers DEF Own, Clusters
  <2>2. First(p) \in Own \cup {0} /\ (First(p) = 0 <=> Len(p) = 0)
    BY <1>2, PathFacts DEF Whole
  <2>3. 0 * Width = 0
    BY Numbers
  <2>4. Len(p) * Width \in Nat
    BY <1>2, WholeFacts
  <2> QED BY <2>1, <2>2, <2>3, <2>4
<1>6. b[0] \in Nat /\ b[1] \in Nat /\ b[2] \in Nat /\ InWindow(0) = b[0] /\ InWindow(1) = b[1] /\ InWindow(2) = b[2]
      /\ b[2] = First(p) /\ 0 \in Cells /\ 1 \in Cells /\ 2 \in Cells
  BY <1>2, <1>4, Ends DEF InWindow
<1> HIDE DEF b
(* The step, for whatever the entry and the window are.                     *)
<1>7. ASSUME NEW size \in Nat, NEW start \in {0} \cup Own, NEW flags \in SUBSET {"written"},
             fp' = Opened(size, start, flags), start = First(p), size = Len(old),
             size <= Len(p) * Width,
             Good(disk, fs', <<>>, p, old), Entered(disk, fs'), fs'.tag = fs.tag, fs'.win = fs.win,
             fs'.last = fs.last, fs'.dirty \subseteq {0}, size > 0 => fs'.dirty = {} /\ flags = {}
      PROVE  Typed' /\ LogIs(p)' /\ Inner'
  <2>1. /\ fp' \in Files /\ fp'.size = size /\ fp'.start = start /\ fp'.flags = flags /\ fp'.ptr = 0
        /\ fp'.dsect = 0 /\ (size > 0 => fp'.clust = start)
    BY <1>7 DEF Opened, NoFile, Files
  <2>2. /\ call' \in Calls /\ call'.len = call.len /\ call'.left = call.left /\ call'.rest = size
        /\ call'.pc = IF size = 0 THEN "write" ELSE "seek"
    BY <1>1, <1>2, <2>1 DEF Calls, Places
  <2>3. Typed'
    BY <1>1, <1>2, <2>1, <2>2 DEF Typed
  <2>4. OneFile(fs', 0) /\ FatClean(disk', fs')
    BY <1>3, <1>4, <1>7, Apart DEF OneFile, FatClean
  <2>5. J' = 0 /\ (fp'.ptr % Width) = 0 /\ NoError'
    <3>1. 0 \div Width = 0 /\ (0 % Width) = 0
      BY PtrIs
    <3> QED BY <1>7, <2>1, <3>1 DEF J, NoError
  <2>6. ASSUME size = 0 PROVE AtWrite(p)'
    <3>1. Writing(p)'
      BY <1>1, <1>2, <1>3, <1>7, <2>1, <2>2, <2>5, <2>6 DEF Writing
    <3>2. call'.left > 0 => Behind(p)'
      BY <2>1, <2>4, <2>5 DEF Behind
    <3>3. fs'.dirty \subseteq {fs'.last} /\ ~(J' > 0)
      BY <1>3, <1>7, <2>5
    <3> QED BY <1>1, <2>4, <3>1, <3>2, <3>3 DEF AtWrite
  <2>7. ASSUME size # 0 PROVE AtSeek(p)'
    <3>1. size > 0 /\ Len(p) > 0 /\ start = p[1]
      BY <1>2, <1>5, <1>7, <2>7 DEF First
    <3>2. J' + 1 <= Len(p) /\ fp'.clust = p[J' + 1]
      BY <1>2, <2>1, <2>5, <3>1
    <3> QED BY <1>1, <1>2, <1>3, <1>7, <2>1, <2>2, <2>4, <2>5, <3>1, <3>2 DEF AtSeek, Seeking, Failed
  <2>8. Place(p)' /\ Inner'
    BY <2>2, <2>6, <2>7 DEF Place, Inner
  <2>9. FileOk(p)'
    <3>1. NewText(disk, fs', p, old, 0, made)
      BY NoNewText
    <3> QED BY <1>1, <1>2, <1>5, <1>7, <2>1, <2>2, <3>1 DEF FileOk
  <2>10. InUse'
    BY <1>3, <1>4, <1>7 DEF InUse
  <2> QED BY <1>1, <1>7, <2>3, <2>8, <2>9, <2>10, Goes
<1>8. CASE InWindow(0) = 0
  <2> DEFINE f1 == Changed(fs, 0, 1)
             f2 == Changed(f1, 1, 0)
             f3 == Changed(f2, 2, 0)
             b1 == [b EXCEPT ![0] = 1]
             b2 == [b1 EXCEPT ![1] = 0]
             b3 == [b2 EXCEPT ![2] = 0]
  <2>1. fs' = f3 /\ fp' = Opened(0, 0, {"written"})
    BY <1>8 DEF Entry
  <2>2. Edited(fs, f1, b1) /\ b1 \in [Cells -> Nat] /\ f1 \in Fss /\ f1.buf[f1.win] = b1
        /\ f1.win = fs.win
    <3>1. Edited(fs, f1, b1) /\ b1 \in [Cells -> Nat]
      BY <1>4, <1>6, ChangedIs DEF b
    <3> HIDE DEF f1, b1
    <3> QED BY <3>1 DEF Edited
  <2>3. b1[0] = 1
    BY <1>4, <1>6
  <2> HIDE DEF f1, b1
  <2>4. Edited(f1, f2, b2) /\ b2 \in [Cells -> Nat] /\ f2 \in Fss /\ f2.buf[f2.win] = b2
        /\ f2.win = fs.win
    <3>1. Edited(f1, f2, b2) /\ b2 \in [Cells -> Nat]
      BY <1>6, <2>2, ChangedIs
    <3> HIDE DEF f2, b2
    <3> QED BY <2>2, <3>1 DEF Edited
  <2>5. b2[0] = 1 /\ b2[1] = 0
    BY <1>6, <2>2, <2>3
  <2> HIDE DEF f2, b2
  <2>6. Edited(f2, f3, b3) /\ b3 \in [Cells -> Nat]
    BY <1>6, <2>4, ChangedIs
  <2>7. b3[0] = 1 /\ b3[1] = 0 /\ b3[2] = 0
    BY <1>6, <2>4, <2>5
  <2> HIDE DEF f3, b3
  <2>8. Edited(fs, fs', b3)
    <3>1. Edited(fs, f2, b2)
      BY <2>2, <2>4, EditedTwice
    <3>2. Edited(fs, f3, b3)
      BY <2>6, <3>1, EditedTwice
    <3> QED BY <2>1, <3>2
  <2>9. Len(old) = 0 /\ First(p) = 0 /\ Len(p) = 0
    BY <1>2, <1>4, <1>5, <1>6, <1>8 DEF DirOk
  <2>10. DirOk(b3, p, old)
    BY <1>5, <2>7, <2>9 DEF DirOk
  <2>11. Cache(disk, fs', p, old)
    BY <1>2, <1>3, <2>6, <2>8, <2>10, EntryEdited
  <2>12. Good(disk, fs', <<>>, p, old)
    BY <1>2, <2>11, NoAccess DEF Good
  <2>13. fs'.tag = fs.tag /\ fs'.win = fs.win /\ fs'.last = fs.last /\ fs'.dirty = {0} /\ fs'.buf[0] = b3
    BY <1>3, <2>8 DEF Edited
  <2>14. Entered(disk, fs')
    BY <1>3, <1>4, <2>7, <2>13 DEF Entered
  <2> QED BY <1>5, <1>7, <2>1, <2>9, <2>12, <2>13, <2>14
<1>9. CASE InWindow(0) # 0
  <2>1. fs' = fs /\ fp' = Opened(b[1], b[2], {})
    BY <1>6, <1>9 DEF Entry
  <2>2. Len(old) = b[1] /\ b[1] <= Len(p) * Width
    BY <1>3, <1>4, <1>6, <1>9 DEF Size, DirOk
  <2>3. Good(disk, fs', <<>>, p, old)
    BY <1>2, <2>1, NoAccess DEF Good
  <2>4. Entered(disk, fs')
    BY <1>3, <1>4, <1>6, <1>9, <2>1 DEF Entered, b
  <2>5. b[2] \in {0} \cup Own /\ {} \in SUBSET {"written"}
    BY <1>5, <1>6
  <2>6. fs'.tag = fs.tag /\ fs'.win = fs.win /\ fs'.last = fs.last /\ fs'.dirty \subseteq {0} /\ fs'.dirty = {}
    BY <1>3, <2>1
  <2> QED BY <1>6, <1>7, <2>1, <2>2, <2>3, <2>4, <2>5, <2>6
<1> QED BY <1>8, <1>9

-----------------------------------------------------------------------------
(* The accesses to the card.                                                *)

Same == UNCHANGED <<fp, call, chain, made, old, kept>>
IsWritten == Written(disk, fs, io, res, disk', fs', io', res') /\ Same
IsLoaded == IsRead(disk, fs, io, fs') /\ Same /\ UNCHANGED <<disk, res>> /\ io' = <<>>

\* Without read errors an access writes, with or without success, or loads.
LEMMA AccessIs ==
  ASSUME NEW p \in Seq(Own), LogIs(p), "read" \notin Faults, AccessOk \/ AccessFails
  PROVE  IsWritten \/ IsLoaded
<1>1. io # <<>> /\ Same /\ Good(disk, fs, io, p, Held)
  BY DEF AccessOk, AccessFails, Same, LogIs
<1>2. /\ Head(io) = io[1] /\ io[1] \in Accesses
  BY <1>1, FirstAccess DEF Good
<1>3. Head(io).op \in {"read", "write"} /\ Head(io).must \in BOOLEAN
  BY <1>2 DEF Accesses
<1> DEFINE a == Head(io)
<1>4. ToDisk(a) = Done(disk, fs, a)
  BY DEF ToDisk, Done
<1>5. CASE AccessOk /\ a.op = "write"
  <2>1. disk' = Done(disk, fs, a) /\ fs' = [fs EXCEPT !.dirty = @ \ a.clears] /\ io' = Tail(io) /\ res' = res
    BY <1>4, <1>5 DEF AccessOk
  <2> QED BY <1>1, <1>5, <2>1 DEF IsWritten, Written
<1>6. CASE AccessOk /\ a.op = "read"
  <2>1. disk' = disk /\ fs' = Loaded(a) /\ io' = Tail(io) /\ res' = res
    BY <1>6 DEF AccessOk
  <2>2. IsRead(disk, fs, io, fs')
    BY <1>1, <1>6, <2>1 DEF IsRead, Loaded
  <2>3. Tail(io) = <<>>
    BY <1>1, <2>2, GoodRead
  <2> QED BY <1>1, <2>1, <2>2, <2>3 DEF IsLoaded
<1>7. CASE AccessFails
  <2>1. a.op = "write"
    BY <1>3, <1>7 DEF AccessFails, Fault
  <2>2. /\ disk' \in {disk, Done(disk, fs, a)} /\ fs' = fs
        /\ \/ a.must /\ io' = <<>> /\ res' = "disk"
           \/ ~a.must /\ io' = Tail(io) /\ res' = res
    BY <1>3, <1>4, <1>7, <2>1 DEF AccessFails
  <2> QED BY <1>1, <2>1, <2>2 DEF IsWritten, Written
<1> QED BY <1>3, <1>5, <1>6, <1>7

\* What waits for an access, and is not in f_open.
Waiting == {"status", "hops", "found", "link", "sector", "grow", "copy", "update", "rest",
            "info", "done"}

\* The steps that wait for accesses are those behind move_window, get_fat or
\* sync_window.
LEMMA WaitingIs ==
  ASSUME NEW p \in Seq(Own), Typed, LogIs(p), io # <<>>
  PROVE  call.pc = "entry" \/ call.pc \in Waiting
<1>1. call.pc \in Places /\ Place(p)
  BY DEF Typed, Calls, LogIs
<1>2. call.pc \notin {"idle", "seek", "stretch", "scan", "sought", "cluster", "write", "close"}
  BY <1>1 DEF Place, AtIdle, AtSeek, AtStretch, AtScan, AtSought, AtCluster, AtWrite, AtClose
<1> QED BY <1>1, <1>2 DEF Places, Waiting

\* An access changes nothing of the open file, the call and the search.
LEMMA SaidStill ==
  ASSUME NEW p, Same
  PROVE  /\ J' = J /\ (NoError' <=> NoError) /\ (AllSaid => AllSaid') /\ (Writing(p) => Writing(p)')
         /\ (Inner => Inner') /\ Held' = Held
BY DEF Same, J, NoError, AllSaid, Writing, Inner, Held

\* A write, also one that fails, leads from any place of append to the same
\* place.
LEMMA AccessWritten ==
  ASSUME NEW p \in Seq(Own), Typed, LogIs(p), IsWritten
  PROVE  Typed' /\ \E w \in Seq(Own) : LogIs(w)'
<1>1. /\ Written(disk, fs, io, res, disk', fs', io', res') /\ Same
      /\ io # <<>> /\ Head(io).op = "write"
  BY DEF IsWritten, Written
<1>2. Good(disk, fs, io, p, Held)
  BY DEF LogIs
<1>3. io[1].op = "write" /\ ~Reads(io)
  BY <1>1, <1>2, FirstAccess DEF Good, Reads
<1>4. Inner /\ call.pc \in Waiting /\ Held = old
  <2>1. call.pc # "entry"
    BY <1>1, <1>3 DEF LogIs, Place, AtEntry
  <2>2. call.pc \in Waiting
    BY <1>1, <2>1, WaitingIs
  <2> QED BY <2>2 DEF Waiting, Inner, Held
<1>5. /\ Good(disk, fs, io, p, old) /\ Whole(disk, p, old) /\ Cache(disk, fs, p, old)
      /\ FileOk(p) /\ Place(p) /\ fp \in Files /\ call \in Calls /\ chain \in Chains
      /\ Len(p) \in Nat /\ made \in Nat /\ J \in Nat
  BY <1>4, Here, PtrIs DEF J, Files
<1>6. SavesTo(disk, fs, disk', fs') /\ Advanced(fs, fs', io, res, io', res')
  BY <1>1, <1>5, WrittenSaves
<1>7. PICK w : w = Longer(disk', p)
  OBVIOUS
<1>8. Good(disk', fs', io', w, old)
  BY <1>1, <1>5, <1>7, GoodWritten
<1>9. /\ w \in Seq(Own) /\ Len(w) \in {Len(p), Len(p) + 1} /\ First(w) = First(p)
      /\ \A k \in 1..Len(p) : w[k] = p[k]
      /\ Len(p) * Width <= Len(w) * Width
  BY <1>7, LongerIs
<1>10. /\ fs'.tag = fs.tag /\ fs'.buf = fs.buf /\ fs'.win = fs.win /\ fs'.last = fs.last
       /\ fs'.dirty \subseteq fs.dirty
  BY <1>6 DEF SavesTo, Cleaner
<1>11. /\ io' = <<>> \/ (io' = Tail(io) /\ res' = res)
       /\ res' \in {"ok", "disk"} /\ (io' # <<>> => res' = "ok")
  <2>1. res \in {"ok", "disk"} /\ res = "ok"
    BY <1>1 DEF Typed
  <2>2. (io' = <<>> /\ res' = "disk") \/ (io' = Tail(io) /\ res' = res)
    BY <1>6 DEF Advanced
  <2> QED BY <2>1, <2>2
<1>12. Typed'
  BY <1>1, <1>11 DEF Typed, Same
<1>13. /\ J' = J /\ (NoError' <=> NoError) /\ (AllSaid => AllSaid') /\ (Writing(p) => Writing(w)')
       /\ Inner' /\ call' = call /\ chain' = chain /\ fp' = fp /\ old' = old /\ made' = made
  <2>1. Writing(p) => Writing(w)
    BY DEF Writing
  <2> QED BY <1>1, <1>4, <2>1, SaidStill DEF Same
<1>14. FileOk(w)'
  <2>1. NewText(disk, fs, p, old, fp.ptr, made) => NewText(disk', fs', w, old, fp.ptr, made)
    <3>1. fp.ptr \in Nat /\ fp.ptr <= Len(p) * Width
      BY <1>5 DEF FileOk, Files
    <3> QED BY <1>5, <1>6, <1>7, <3>1, NewTextWritten
  <2>2. Entered(disk', fs')
    BY <1>5, <1>6, EntryWritten DEF FileOk
  <2>3. \A x, y, z \in Nat : x <= y /\ y <= z => x <= z
    OBVIOUS
  <2>4. Len(p) * Width \in Nat /\ Len(w) * Width \in Nat
    BY <1>5, <1>8, WholeFacts DEF Good
  <2>5. fp.size <= Len(w) * Width /\ fp.ptr <= Len(w) * Width
    BY <1>5, <1>9, <2>3, <2>4 DEF FileOk, Files
  <2> QED BY <1>5, <1>9, <1>13, <2>1, <2>2, <2>5 DEF FileOk
<1>15. call'.pc # "done" => InUse'
  BY <1>3, <1>4, <1>10, <1>13, Here DEF InUse, Waiting
<1>16. SUFFICES Place(w)'
  BY <1>8, <1>9, <1>12, <1>13, <1>14, <1>15, Goes
<1>17. Behind(p) => Behind(w)'
  <2> SUFFICES ASSUME Behind(p) PROVE Behind(w)'
    OBVIOUS
  <2>1. OneFile(fs', fp.dsect)
    BY <1>6, OneFileWritten DEF Behind
  <2>2. J > 0 /\ J <= Len(p) => J <= Len(w) /\ w[J] = p[J]
    BY <1>5, <1>9
  <2> QED BY <1>13, <2>1, <2>2 DEF Behind
<1>18. FatClean(disk, fs) => FatClean(disk', fs') /\ w = p /\ \A j : Ended(disk, p, j) => Ended(disk', p, j)
  BY <1>5, <1>6, <1>7, CleanWritten, EndedWritten
<1>19. \A c : Arrives(fs, io, res, c) => Arrives(fs', io', res', c)
  <2> SUFFICES ASSUME NEW c, Arrives(fs, io, res, c) PROVE Arrives(fs', io', res', c)
    OBVIOUS
  <2>1. c \in Clusters /\ Comes(fs, io, res, FatSector(c))
    BY <1>1 DEF Arrives
  <2>2. Comes(fs', io', res', FatSector(c))
    BY <1>6, <2>1, ComesWritten
  <2> QED BY <2>1, <2>2 DEF Arrives
<1>20. Stretching(p) => Stretching(w)' /\ w = p /\ \A j : Ended(disk, p, j) => Ended(disk', p, j)
  BY <1>13, <1>17, <1>18 DEF Stretching
<1>21. Writes(io) => Writes(io')
  <2>1. /\ Tail(io) \in Seq(Accesses) /\ Len(Tail(io)) = Len(io) - 1 /\ Len(io) \in Nat
        /\ \A k \in 1..Len(Tail(io)) : Tail(io)[k] = io[k + 1]
    BY <1>1, <1>5, HeadTail DEF Good, Pending
  <2>2. \A k \in 1..Len(Tail(io)) : k + 1 \in 1..Len(io)
    BY <2>1
  <2> QED BY <1>11, <2>1, <2>2 DEF Writes
<1>22. CASE call.pc = "status"
  <2>1. AtStatus(p)
    BY <1>5, <1>22 DEF Place
  <2>2. AtStatus(w)'
    BY <1>1, <1>3, <1>13, <1>19, <1>20, <2>1 DEF AtStatus
  <2> QED BY <1>13, <1>22, <2>2 DEF Place
<1>23. CASE call.pc = "hops"
  <2>1. AtHops(p)
    BY <1>5, <1>23 DEF Place
  <2>2. AtHops(w)'
    BY <1>13, <1>17, <1>18, <1>19, <2>1 DEF AtHops
  <2> QED BY <1>13, <1>23, <2>2 DEF Place
<1>24. CASE call.pc = "found"
  <2>1. AtFound(p)
    BY <1>5, <1>24 DEF Place
  <2>2. AtFound(w)'
    BY <1>13, <1>19, <1>20, <2>1 DEF AtFound
  <2> QED BY <1>13, <1>24, <2>2 DEF Place
<1>25. CASE call.pc = "link"
  <2>1. AtLink(p)
    BY <1>5, <1>25 DEF Place
  <2>2. Ended(disk', p, J) /\ w = p
    BY <1>5, <1>6, <1>7, <2>1, MarkedWritten DEF AtLink
  <2>3. Linkable(disk', chain.ncl, p)
    BY <1>5, <1>6, <2>1, SavedLinks DEF AtLink, SavesTo
  <2>4. Comes(fs', io', res', FatSector(chain.clst))
    BY <1>6, <2>1, ComesWritten DEF AtLink
  <2>5. AtLink(w)'
    BY <1>10, <1>13, <1>17, <2>1, <2>2, <2>3, <2>4 DEF AtLink
  <2> QED BY <1>13, <1>25, <2>5 DEF Place
<1>26. NextIs(disk, fs, p, J, fp.clust) => NextIs(disk', fs', w, J, fp.clust)
  BY <1>5, <1>6, <1>7, NextIsWritten
<1>27. Len(p) > 0 => Len(w) > 0
  BY <1>5, <1>9
<1>28. \A i : Flushed(fs, io, res, i) => Flushed(fs', io', res', i)
  BY <1>6, FlushedWritten
<1>29. CASE call.pc = "sector"
  <2>1. AtSector(p)
    BY <1>5, <1>29 DEF Place
  <2>2. AtSector(w)'
    BY <1>13, <1>17, <1>21, <1>26, <1>27, <2>1 DEF AtSector
  <2> QED BY <1>13, <1>29, <2>2 DEF Place
<1>30. CASE call.pc = "grow"
  <2>1. AtGrow(p)
    BY <1>5, <1>30 DEF Place
  <2>2. AtGrow(w)'
    BY <1>10, <1>13, <1>17, <1>21, <1>26, <1>27, <1>28, <2>1 DEF AtGrow
  <2> QED BY <1>13, <1>30, <2>2 DEF Place
<1>31. call.pc # "copy"
  BY <1>1, <1>3, <1>5 DEF Place, AtCopy
<1>32. CASE call.pc = "update"
  <2>1. Comes(fs, io, res, Dir) /\ AllSaid
    BY <1>5, <1>32 DEF Place, AtUpdate
  <2>2. Comes(fs', io', res', Dir)
    BY <1>6, <2>1, ComesWritten
  <2> QED BY <1>13, <1>32, <2>1, <2>2 DEF Place, AtUpdate
<1>33. Updated(disk, fs, fp.size, fp.start) => Updated(disk', fs', fp.size, fp.start)
  BY <1>5, <1>6, EntryWritten
<1>34. AtRest(p) => AtRest(w)'
  BY <1>13, <1>28, <1>33 DEF AtRest
<1>35. CASE call.pc = "rest"
  BY <1>5, <1>13, <1>34, <1>35 DEF Place
<1>36. CASE call.pc = "info"
  BY <1>5, <1>13, <1>28, <1>34, <1>36 DEF Place, AtInfo
<1>37. CASE call.pc = "done"
  <2>1. AtDone(p)
    BY <1>5, <1>37 DEF Place
  <2>2. io = Write(0, Fsi, {}, FALSE)
    BY <1>1, <2>1 DEF AtDone
  <2>3. ~Head(io).must /\ Tail(io) = <<>>
    BY <2>2 DEF Write
  <2>4. io' = <<>> /\ res' = res
    BY <1>1, <2>3 DEF Written
  <2>5. fs'.dirty = {}
    BY <1>10, <2>1 DEF AtDone
  <2>6. AtDone(w)'
    BY <1>13, <1>33, <2>1, <2>4, <2>5 DEF AtDone, Failed
  <2> QED BY <1>13, <1>37, <2>6 DEF Place
<1> QED BY <1>4, <1>22, <1>23, <1>24, <1>25, <1>29, <1>30, <1>31, <1>32, <1>35, <1>36, <1>37 DEF Waiting

\* f_open gets the directory into its window.
LEMMA EntryLoaded ==
  ASSUME NEW p \in Seq(Own), Typed, LogIs(p), IsLoaded, call.pc = "entry"
  PROVE  LogIs(p)'
<1>1. /\ IsRead(disk, fs, io, fs') /\ Same /\ disk' = disk /\ res' = res /\ io' = <<>> /\ io # <<>>
      /\ Good(disk, fs, io, p, Held) /\ disk[Dir][2] = First(p)
  BY DEF IsLoaded, IsRead, LogIs, Begun
<1>2. AtEntry(p)
  BY DEF LogIs, Place
<1>3. Good(disk, fs', <<>>, p, Held) /\ Held' = Held /\ call' = call
  BY <1>1, GoodRead, SaidStill DEF Same
<1>4. LoadsIn(disk, fs, fs', Dir) /\ Comes(fs', <<>>, res, Dir)
  <2>1. io[1].sector = Dir /\ Comes(fs', <<>>, res, Dir)
    BY <1>1, <1>2, ComesRead DEF AtEntry, Failed
  <2> QED BY <1>1, <2>1, ReadLoads
<1>5. OneFile(fs', 0)
  BY <1>2, <1>4, FatRead DEF AtEntry, Meta
<1>6. /\ fs'.dirty = {} /\ fs'.win = 0 /\ fs'.last = 0 /\ fs'.tag[1] = 0 /\ fs'.tag[fs'.win] = Dir
  <2>1. 1 \in Slots \ {0}
    BY DEF Slots
  <2> QED BY <1>2, <1>4, <2>1 DEF AtEntry, LoadsIn
<1>7. AtEntry(p)'
  BY <1>1, <1>2, <1>4, <1>5, <1>6 DEF AtEntry, Failed, Same
<1>8. Place(p)'
  BY <1>3, <1>7 DEF Place
<1>9. InUse'
  <2>1. Dir # 0
    BY Apart
  <2> QED BY <1>6, <2>1 DEF InUse
<1> QED BY <1>1, <1>3, <1>8, <1>9 DEF LogIs, Begun

\* A read leads from any place of append to the same place.
LEMMA AccessLoaded ==
  ASSUME NEW p \in Seq(Own), Typed, LogIs(p), IsLoaded
  PROVE  Typed' /\ LogIs(p)'
<1>1. /\ IsRead(disk, fs, io, fs') /\ Same /\ disk' = disk /\ res' = res /\ io' = <<>>
      /\ io # <<>> /\ Head(io).op = "read" /\ res = "ok"
  BY DEF IsLoaded, IsRead, Typed
<1>2. Typed'
  BY <1>1 DEF Typed, Same
<1>3. CASE call.pc = "entry"
  BY <1>2, <1>3, EntryLoaded
<1>4. CASE call.pc \in Waiting
  <2>1. Inner
    BY <1>4 DEF Inner, Waiting
  <2>2. /\ Good(disk, fs, io, p, old) /\ Whole(disk, p, old) /\ Cache(disk, fs, p, old)
        /\ FileOk(p) /\ Place(p) /\ fp \in Files /\ chain \in Chains
        /\ Len(p) \in Nat /\ J \in Nat
    BY <2>1, Here, PtrIs DEF J, Files
  <2>3. /\ Good(disk, fs', <<>>, p, old)
        /\ io[1] = Head(io) /\ LoadsIn(disk, fs, fs', io[1].sector) /\ io[1].sector \in Loadable(p)
        /\ ~Writes(io)
    <3>1. Good(disk, fs', <<>>, p, old) /\ io[1] = Head(io) /\ Len(io) = 1
      BY <1>1, <2>2, GoodRead
    <3> QED BY <1>1, <2>2, <3>1, ReadLoads DEF Writes
  <2> DEFINE s == io[1].sector
  <2>4. /\ fs'.tag[fs'.win] = s /\ fs'.win = fs.win /\ fs'.last = fs'.win /\ fs'.dirty = fs.dirty
        /\ s # 0
    BY <2>3, LoadableIs DEF LoadsIn
  <2>5. \A x : Comes(fs, io, res, x) => s = x /\ Comes(fs', <<>>, res', x)
    BY <1>1, <2>2, ComesRead
  <2> HIDE DEF s
  <2>6. LoadsIn(disk, fs, fs', s)
    BY <2>3 DEF s
  <2>7. /\ J' = J /\ (NoError' <=> NoError) /\ (AllSaid => AllSaid') /\ (Writing(p) => Writing(p)')
        /\ Inner' /\ call' = call /\ chain' = chain /\ fp' = fp /\ old' = old /\ made' = made
    BY <1>1, <2>1, SaidStill DEF Same
  <2>8. FileOk(p)'
    <3>1. /\ NewText(disk, fs, p, old, fp.ptr, made) => NewText(disk, fs', p, old, fp.ptr, made)
          /\ Entered(disk, fs) => Entered(disk, fs')
      BY <2>6, NewTextRead, EntryRead
    <3> QED BY <1>1, <2>2, <2>7, <3>1 DEF FileOk
  <2>9. InUse'
    BY <2>4 DEF InUse
  <2>10. SUFFICES Place(p)'
    BY <1>1, <1>2, <2>3, <2>7, <2>8, <2>9, Goes
  <2>11. FatClean(disk, fs) => FatClean(disk', fs')
    BY <1>1, <2>6, FatRead
  <2>12. ASSUME Behind(p), s \in FatPart PROVE Behind(p)'
    <3>1. OneFile(fs', fp.dsect)
      BY <2>6, <2>12, FatRead DEF Behind, Meta
    <3> QED BY <2>7, <2>12, <3>1 DEF Behind
  <2>13. ASSUME NEW c, Arrives(fs, io, res, c)
         PROVE  s \in FatPart /\ Arrives(fs', io', res', c)
    <3>1. c \in Clusters /\ Comes(fs, io, res, FatSector(c))
      BY <1>1, <2>13 DEF Arrives
    <3>2. s \in FatPart
      BY <2>5, <3>1, FatPlace
    <3> QED BY <1>1, <2>5, <3>1, <3>2 DEF Arrives
  <2>14. ASSUME Stretching(p), s \in FatPart
         PROVE  Stretching(p)' /\ \A j : Ended(disk, p, j) => Ended(disk', p, j)
    BY <1>1, <2>7, <2>11, <2>12, <2>14 DEF Stretching
  <2>15. ASSUME SeekingOn(p), s \in FatPart PROVE SeekingOn(p)'
    <3>1. OneFile(fs', 0)
      BY <2>6, <2>15, FatRead DEF SeekingOn, Seeking, Meta
    <3> QED BY <1>1, <2>4, <2>7, <2>15, <3>1 DEF SeekingOn, Seeking, Failed
  <2>16. CASE call.pc = "status"
    <3>1. AtStatus(p)
      BY <2>2, <2>16 DEF Place
    <3>2. s \in FatPart /\ Arrives(fs', io', res', chain.clst)
      BY <2>13, <3>1 DEF AtStatus
    <3>3. AtStatus(p)'
      BY <1>1, <2>7, <2>14, <2>15, <3>1, <3>2 DEF AtStatus, Failed
    <3> QED BY <2>7, <2>16, <3>3 DEF Place
  <2>17. CASE call.pc = "hops"
    <3>1. AtHops(p)
      BY <2>2, <2>17 DEF Place
    <3>2. s \in FatPart /\ Arrives(fs', io', res', chain.clst)
      BY <2>13, <3>1 DEF AtHops
    <3>3. AtHops(p)'
      BY <2>7, <2>11, <2>12, <3>1, <3>2 DEF AtHops
    <3> QED BY <2>7, <2>17, <3>3 DEF Place
  <2>18. CASE call.pc = "found"
    <3>1. AtFound(p)
      BY <2>2, <2>18 DEF Place
    <3>2. s \in FatPart /\ Arrives(fs', io', res', chain.ncl)
      BY <2>13, <3>1 DEF AtFound
    <3>3. AtFound(p)'
      BY <2>7, <2>14, <3>1, <3>2 DEF AtFound
    <3> QED BY <2>7, <2>18, <3>3 DEF Place
  <2>19. CASE call.pc = "link"
    <3>1. AtLink(p)
      BY <2>2, <2>19 DEF Place
    <3>2. p[J] \in Clusters /\ NextOf(disk, p[J]) = EndOfChain /\ chain.clst = p[J]
      <4>1. J \in 1..Len(p)
        BY <2>2, <3>1 DEF AtLink, Ended
      <4> QED BY <2>2, <3>1, <4>1, WholeFacts DEF AtLink, Ended
    <3>3. s = FatSector(p[J]) /\ s \in FatPart /\ Comes(fs', io', res', FatSector(chain.clst))
      BY <1>1, <2>5, <3>1, <3>2, FatPlace DEF AtLink
    <3>4. \A i \in Slots : fs'.tag[i] = FatSector(p[J]) => fs'.buf[i][FatCell(p[J])] = EndOfChain
      BY <2>6, <3>1, <3>2, FatRead DEF AtLink
    <3>5. AtLink(p)'
      BY <1>1, <2>7, <2>12, <3>1, <3>3, <3>4 DEF AtLink
    <3> QED BY <2>7, <2>19, <3>5 DEF Place
  <2>20. call.pc \notin {"sector", "grow"}
    BY <2>2, <2>3 DEF Place, AtSector, AtGrow
  <2>21. CASE call.pc = "copy"
    <3>1. AtCopy(p) /\ Inside(p) /\ FatClean(disk, fs)
      BY <1>1, <2>2, <2>21 DEF Place, AtCopy
    <3>2. s = fp.dsect /\ Comes(fs', io', res', fp.dsect)
      BY <1>1, <2>5, <3>1 DEF AtCopy
    <3>3. OneFile(fs', fp.dsect)
      BY <2>6, <3>1, <3>2, FatRead DEF Inside
    <3>4. Inside(p)'
      BY <2>4, <2>7, <3>1, <3>3 DEF Inside
    <3>5. AtCopy(p)'
      BY <1>1, <2>4, <2>7, <2>11, <3>1, <3>2, <3>4 DEF AtCopy
    <3> QED BY <2>7, <2>21, <3>5 DEF Place
  <2>22. CASE call.pc = "update"
    <3>1. Comes(fs, io, res, Dir) /\ AllSaid
      BY <2>2, <2>22 DEF Place, AtUpdate
    <3>2. Comes(fs', io', res', Dir)
      BY <1>1, <2>5, <3>1
    <3> QED BY <2>7, <2>22, <3>1, <3>2 DEF Place, AtUpdate
  <2>23. Updated(disk, fs, fp.size, fp.start) => Updated(disk', fs', fp.size, fp.start)
    BY <1>1, <2>6, EntryRead
  <2>24. \A i : Flushed(fs, io, res, i) => Flushed(fs', io', res', i)
    BY <1>1, <2>2, FlushedRead
  <2>25. AtRest(p) => AtRest(p)'
    BY <2>7, <2>23, <2>24 DEF AtRest
  <2>26. CASE call.pc = "rest"
    BY <2>2, <2>7, <2>25, <2>26 DEF Place
  <2>27. CASE call.pc = "info"
    BY <2>2, <2>7, <2>24, <2>25, <2>27 DEF Place, AtInfo
  <2>28. call.pc # "done"
    BY <1>1, <2>2 DEF Place, AtDone, Write
  <2> QED BY <1>4, <2>16, <2>17, <2>18, <2>19, <2>20, <2>21, <2>22, <2>26, <2>27, <2>28 DEF Waiting
<1> QED BY <1>1, <1>3, <1>4, WaitingIs

\* An access to the card, whether or not a write fails, keeps the invariant.
LEMMA AccessStep ==
  ASSUME Inv, "read" \notin Faults, AccessOk \/ AccessFails
  PROVE  Inv'
<1>1. PICK p \in Seq(Own) : LogIs(p)
  BY DEF Inv
<1>2. Typed' /\ Same /\ \E w \in Seq(Own) : LogIs(w)'
  <2>1. IsWritten \/ IsLoaded
    BY <1>1, AccessIs
  <2> QED BY <1>1, <2>1, AccessWritten, AccessLoaded DEF Inv, IsWritten, IsLoaded
<1>3. Held' = Held /\ kept' = kept
  BY <1>2 DEF Same, Held
<1> QED BY <1>2, <1>3 DEF Inv

\* A step inside of append, described by the clusters of the log, keeps the
\* invariant.
LEMMA StepInv ==
  ASSUME Inv, call.pc # "idle", Typed', Inner', NEW w \in Seq(Own), LogIs(w)',
         kept' = kept, old' = old
  PROVE  Inv'
<1>1. Held = old /\ Held' = old
  BY DEF Inner, Held
<1> QED BY <1>1 DEF Inv

\* Every step of create_chain keeps the invariant.
LEMMA ChainStep ==
  ASSUME Inv, Stretch \/ Status \/ Hops \/ Scan \/ Found \/ Link
  PROVE  Inv'
<1>1. PICK p \in Seq(Own) : LogIs(p)
  BY DEF Inv
<1>2. Typed /\ call.pc # "idle" /\ kept' = kept /\ old' = old
  BY DEF Inv, Stretch, Status, Hops, Scan, Found, Link, At, InChain, Step
<1>3. Typed' /\ LogIs(p)' /\ Inner'
  BY <1>1, <1>2, StretchStep, StatusStep, HopsStep, ScanStep, FoundStep, LinkStep
<1> QED BY <1>2, <1>3, StepInv

\* Every step of f_open, f_lseek, f_write and f_close but the one that takes a
\* cluster keeps the invariant.
LEMMA FileStep ==
  ASSUME Inv, \/ Entry \/ Seek \/ SoughtNext \/ WriteLoop
              \/ NextSector \/ Grow \/ Copy \/ Close \/ Update \/ SyncRest \/ WriteInfo
  PROVE  Inv'
<1>1. PICK p \in Seq(Own) : LogIs(p)
  BY DEF Inv
<1>2. Typed /\ call.pc # "idle" /\ kept' = kept /\ old' = old
  BY DEF Inv, Entry, Seek, SoughtNext, WriteLoop, NextSector, Grow, Copy, Close, Update,
         SyncRest, WriteInfo, At, InFile, Step
<1>3. Typed' /\ LogIs(p)' /\ Inner'
  BY <1>1, <1>2, EntryStep, SeekStep, SoughtNextStep, WriteLoopStep, NextSectorStep, GrowStep,
     CopyStep, CloseStep, UpdateStep, SyncRestStep, WriteInfoStep
<1> QED BY <1>2, <1>3, StepInv

\* The step of f_write that takes a cluster keeps the invariant.
LEMMA ClusterStep ==
  ASSUME Inv, NextCluster
  PROVE  Inv'
<1>1. PICK p \in Seq(Own) : LogIs(p)
  BY DEF Inv
<1>2. Typed /\ call.pc # "idle" /\ kept' = kept /\ old' = old
  BY DEF Inv, NextCluster, At, InFile, Step
<1>3. Typed' /\ Inner' /\ \E w \in Seq(Own) : LogIs(w)'
  BY <1>1, <1>2, NextClusterStep
<1> QED BY <1>2, <1>3, StepInv

\* The invariant is about the variables alone.
LEMMA InvStays ==
  ASSUME Inv, UNCHANGED fatVars
  PROVE  Inv'
<1>1. /\ disk' = disk /\ fs' = fs /\ fp' = fp /\ call' = call /\ chain' = chain /\ io' = io
      /\ res' = res /\ made' = made /\ old' = old /\ kept' = kept
  BY DEF fatVars
<1>2. PICK p \in Seq(Own) : LogIs(p)
  BY DEF Inv
<1>3. Typed' /\ IsStart(kept', Held')
  BY <1>1 DEF Inv, Typed, Held
<1>4. J' = J /\ NoError' = NoError /\ Failed' = Failed /\ Held' = Held
  BY <1>1 DEF J, NoError, Failed, Held
<1>5. /\ Writing(p)' = Writing(p) /\ Behind(p)' = Behind(p) /\ Inside(p)' = Inside(p)
      /\ AllSaid' = AllSaid
  BY <1>1, <1>4 DEF Writing, Behind, Inside, AllSaid
<1>6. Seeking(p)' = Seeking(p)
  BY <1>1, <1>4 DEF Seeking
<1>7. Stretching(p)' = Stretching(p) /\ SeekingOn(p)' = SeekingOn(p)
  BY <1>1, <1>4, <1>5, <1>6 DEF Stretching, SeekingOn
<1>8. AtIdle' = AtIdle /\ AtEntry(p)' = AtEntry(p)
  BY <1>1, <1>4 DEF AtIdle, AtEntry
<1>9. AtSeek(p)' = AtSeek(p) /\ AtStretch(p)' = AtStretch(p) /\ AtStatus(p)' = AtStatus(p)
  BY <1>1, <1>4, <1>6, <1>7 DEF AtSeek, AtStretch, AtStatus
<1>10. AtHops(p)' = AtHops(p) /\ AtScan(p)' = AtScan(p) /\ AtFound(p)' = AtFound(p)
  BY <1>1, <1>4, <1>5, <1>7 DEF AtHops, AtScan, AtFound
<1>11. AtLink(p)' = AtLink(p) /\ AtSought(p)' = AtSought(p) /\ AtCluster(p)' = AtCluster(p)
  BY <1>1, <1>4, <1>5, <1>6 DEF AtLink, AtSought, AtCluster
<1>12. AtSector(p)' = AtSector(p) /\ AtGrow(p)' = AtGrow(p)
  BY <1>1, <1>4, <1>5 DEF AtSector, AtGrow
<1>13. AtCopy(p)' = AtCopy(p) /\ AtWrite(p)' = AtWrite(p)
  BY <1>1, <1>4, <1>5 DEF AtCopy, AtWrite
<1>14. AtClose(p)' = AtClose(p) /\ AtUpdate(p)' = AtUpdate(p) /\ AtRest(p)' = AtRest(p)
  BY <1>1, <1>4, <1>5 DEF AtClose, AtUpdate, AtRest
<1>15. AtInfo(p)' = AtInfo(p) /\ AtDone(p)' = AtDone(p)
  BY <1>1, <1>4, <1>5, <1>14 DEF AtInfo, AtDone
<1>16. Place(p)'
  BY <1>1, <1>2, <1>8, <1>9, <1>10, <1>11, <1>12, <1>13, <1>14, <1>15 DEF LogIs, Place
<1>17. FileOk(p)' = FileOk(p)
  BY <1>1, <1>4 DEF FileOk
<1>18. LogIs(p)'
  BY <1>1, <1>2, <1>4, <1>16, <1>17 DEF LogIs, Begun, InUse
<1> QED BY <1>3, <1>18 DEF Inv

\* Every step keeps the invariant.
LEMMA InvKept ==
  ASSUME "read" \notin Faults, Inv, [FatNext]_fatVars
  PROVE  Inv'
<1>1. CASE \E len \in Lengths : AppendLine(len)
  BY <1>1, AppendLineStep
<1>2. CASE AccessOk \/ AccessFails
  BY <1>2, AccessStep
<1>3. CASE Crash
  BY <1>3, CrashStep
<1>4. CASE Stretch \/ Status \/ Hops \/ Scan \/ Found \/ Link
  BY <1>4, ChainStep
<1>5. CASE \/ Entry \/ Seek \/ SoughtNext \/ WriteLoop
           \/ NextSector \/ Grow \/ Copy \/ Close \/ Update \/ SyncRest \/ WriteInfo
  BY <1>5, FileStep
<1>6. CASE NextCluster
  BY <1>6, ClusterStep
<1>7. CASE Closed
  BY <1>7, ClosedStep
<1>8. CASE UNCHANGED fatVars
  BY <1>8, InvStays
<1> QED BY <1>1, <1>2, <1>3, <1>4, <1>5, <1>6, <1>7, <1>8 DEF FatNext

\* The inductive invariant of append: a whole volume, a cache that is right for
\* it, accesses in an order that keeps it so, and what each place of append
\* relies on.
THEOREM LogInvariant ==
  ASSUME "read" \notin Faults
  PROVE  FatSpec => []Inv
<1>1. Inv /\ [FatNext]_fatVars => Inv'
  BY InvKept
<1> QED BY <1>1, InitIs, PTL DEF FatSpec

\* The log that the entry on the card names, with the text that has to be kept.
LEMMA TheLog ==
  ASSUME Inv
  PROVE  \E w \in Seq(Own) : Whole(disk, w, Held) /\ disk[Dir][2] = First(w)
<1>1. PICK p \in Seq(Own) : LogIs(p)
  BY DEF Inv
<1>2. Whole(disk, p, Held)
  BY <1>1 DEF LogIs, Good
<1> QED BY <1>2, WholeAgain

\* The text kept is the beginning of what the card holds.
LEMMA KeptIs == Inv => LogKept
<1> SUFFICES ASSUME Inv PROVE LogKept
  OBVIOUS
<1>1. PICK w \in Seq(Own) : Whole(disk, w, Held) /\ disk[Dir][2] = First(w)
  BY TheLog
<1>2. IsStart(Held, Text(disk)) /\ Text(disk) \in Seq(Nat)
  BY <1>1, WholeText, TextIs
<1>3. kept \in Seq(Nat) /\ Held \in Seq(Nat) /\ IsStart(kept, Held)
  BY DEF Inv, Typed, Held
<1> QED BY <1>2, <1>3, StartOfStart DEF LogKept

\* The two windows agree with the card and with each other.
LEMMA CoherentIs == Inv => CacheCoherent
<1> SUFFICES ASSUME Inv PROVE CacheCoherent
  OBVIOUS
<1>1. PICK p \in Seq(Own) : Good(disk, fs, io, p, Held)
  BY DEF Inv, LogIs
<1>2. Cache(disk, fs, p, Held) /\ Whole(disk, p, Held)
  BY <1>1 DEF Good
<1>3. ASSUME NEW i \in Slots \ fs.dirty, fs.tag[i] \in FatBase..Dir
      PROVE  fs.buf[i] = disk[fs.tag[i]]
  <2>1. fs.tag[i] \in Loadable(p) \cup {0} /\ FatBase = 2 /\ Dir = DataBase /\ DataBase \in Nat
    BY <1>2, CacheFacts, Numbers
  <2>2. fs.tag[i] # 0
    BY <1>3, <2>1
  <2>3. ASSUME NEW k \in 1..Len(p) PROVE Sector(p[k]) > Dir
    <3>1. p[k] \in Clusters /\ p[k] # 2
      BY <1>2, WholeFacts
    <3> QED BY <2>1, <3>1, Numbers DEF Sector, Clusters
  <2>4. fs.tag[i] \notin DataOf(p)
    BY <1>3, <2>1, <2>3 DEF DataOf
  <2>5. fs.tag[i] \in Meta
    BY <2>1, <2>2, <2>4 DEF Loadable
  <2> QED BY <1>2, <1>3, <2>5 DEF Cache
<1> QED BY <1>2, <1>3 DEF CacheCoherent, Cache

\* The other files on the volume of the start.
LEMMA OtherSectors ==
  ASSUME NEW c \in Others
  PROVE  Volume(0)[Sector(c)] = [i \in Cells |-> 7]
<1>1. Filled(0) = 0
  <2>1. Width \in Nat /\ Width >= 3 /\ 0 + Width - 1 = Width - 1 /\ Width - 1 \in Cells
    BY Numbers DEF Cells
  <2>2. (Width - 1) \div Width = 0
    BY <2>1, SmallIs
  <2> QED BY <2>1, <2>2 DEF Filled
<1>2. \A e \in Others \cup {LastCluster + 1} : Filled(0) + 2 < e
  BY <1>1, Numbers
<1>3. 0 \in Nat /\ Filled(0) \in Nat
  BY <1>1
<1>4. OthersKept(Volume(0))
  BY <1>2, <1>3, VolumeSectors
<1> QED BY <1>4 DEF OthersKept

\* The chain that the entry on the card names covers the size, belongs to the
\* log alone and does not meet itself.
LEMMA VolumeIsWhole == Inv => VolumeWhole
<1> SUFFICES ASSUME Inv PROVE VolumeWhole
  OBVIOUS
<1>1. PICK w \in Seq(Own) : Whole(disk, w, Held) /\ disk[Dir][2] = First(w)
  BY TheLog
<1>2. Path(disk, w) /\ FatOk(disk) /\ OthersKept(disk)
  BY <1>1 DEF Whole
<1>3. /\ LogChain \in Seq(Own) /\ Len(LogChain) = Len(w)
      /\ \A k \in 1..Len(LogChain) : LogChain[k] = w[k]
  <2>1. LastCluster \in Nat /\ Len(w) \in Nat /\ Len(w) <= LastCluster
    BY <1>2, Numbers, PathLength, PathFacts
  <2>2. /\ Chain(disk, First(w), LastCluster) \in Seq(Own)
        /\ Len(Chain(disk, First(w), LastCluster)) = IF LastCluster <= Len(w) THEN LastCluster ELSE Len(w)
        /\ \A k \in 1..Len(Chain(disk, First(w), LastCluster)) : Chain(disk, First(w), LastCluster)[k] = w[k]
    BY <1>2, <2>1, ChainIs
  <2>3. LogChain = Chain(disk, First(w), LastCluster)
    BY <1>1 DEF LogChain
  <2>4. Len(LogChain) = Len(w)
    BY <2>1, <2>2, <2>3
  <2> QED BY <2>2, <2>3, <2>4
<1>4. ChainCovers
  BY <1>1, <1>3, NeededIs DEF ChainCovers
<1>5. ChainIsOwn /\ ChainIsPath
  <2>1. \A k \in 1..Len(w) : w[k] \in Own
    BY <1>1, WholeFacts
  <2>2. \A j, k \in 1..Len(w) : w[j] = w[k] => j = k
    BY <1>2 DEF Path
  <2> QED BY <1>3, <2>1, <2>2 DEF ChainIsOwn, ChainIsPath, Own
<1>6. OthersUntouched
  <2> SUFFICES ASSUME NEW c \in Others
               PROVE  disk[Sector(c)] = Volume(0)[Sector(c)] /\ NextOf(disk, c) = EndOfChain
    BY DEF OthersUntouched
  <2> QED BY <1>2, OtherSectors DEF FatOk, OthersKept
<1>7. FatTypeOK
  <2>1. PICK p \in Seq(Own) : LogIs(p)
    BY DEF Inv
  <2>2. /\ Good(disk, fs, io, p, Held) /\ Whole(disk, p, Held) /\ Cache(disk, fs, p, Held) /\ fs \in Fss
        /\ Typed /\ Place(p) /\ (~Begun => FileOk(p))
    BY <2>1 DEF LogIs, Good, Inv, Cache
  <2>3. DOMAIN disk = Sectors
    BY <2>2 DEF Whole, Disks
  <2>4. /\ fs.tag \in [Slots -> Sectors \cup {0}] /\ fs.dirty \subseteq Slots
        /\ fs.win \in Slots /\ fs.last \in Slots /\ fs.lastClust \in 0..LastCluster
    BY <2>2 DEF Fss
  <2>5. /\ fp.start \in Clusters \cup {NoCluster} /\ fp.clust \in Clusters \cup {NoCluster}
        /\ fp.dsect \in Sectors \cup {0} /\ fp.flags \subseteq {"written", "error"}
    BY <2>2 DEF Typed, Files, Own, NoCluster
  <2>6. /\ call.pc \in Places /\ call.left \in 0..call.len
        /\ chain.ncl \in 0..LastCluster /\ chain.clst \in Clusters \cup {NoCluster}
    BY <2>2 DEF Typed, Calls, Chains, NoCluster
  <2>7. fp.ptr <= fp.size + call.len
    <3>1. CASE Begun
      <4>1. fp = NoFile /\ call.len \in Nat
        BY <2>2, <3>1 DEF Begun, Place, AtIdle, AtEntry, Typed, Calls
      <4>2. NoFile.ptr = 0 /\ NoFile.size = 0
        BY DEF NoFile
      <4>3. 0 <= 0 + call.len
        BY <4>1
      <4> QED BY <4>1, <4>2, <4>3
    <3> QED BY <2>2, <3>1 DEF FileOk
  <2>8. At("entry") /\ ~Failed /\ InWindow(1) > 0 => InWindow(2) # NoCluster
    <3> SUFFICES ASSUME At("entry"), ~Failed, InWindow(2) = 0 PROVE ~(InWindow(1) > 0)
      BY DEF NoCluster
    <3>1. fs.tag[fs.win] = Dir
      BY <2>2 DEF At, Place, AtEntry, Comes, Failed
    <3>2. DirOk(fs.buf[fs.win], p, Held)
      BY <2>2, <3>1, CacheFacts DEF Window
    <3>3. InWindow(1) = 0
      BY <3>2 DEF DirOk, InWindow
    <3> QED BY <3>3
  <2> QED BY <2>3, <2>4, <2>5, <2>6, <2>7, <2>8 DEF FatTypeOK
<1> QED BY <1>4, <1>5, <1>6, <1>7 DEF VolumeWhole

\* Where append has succeeded, the card holds the old text and the line.
LEMMA EffectIs == Inv => AppendEffect
<1> SUFFICES ASSUME Inv, Appended PROVE Text(disk) = old \o [k \in 1..call.len |-> made]
  BY DEF AppendEffect
<1>1. PICK p \in Seq(Own) : LogIs(p)
  BY DEF Inv
<1>2. Typed /\ Inner /\ io = <<>> /\ ~Failed /\ call.left = 0 /\ NoError
  BY DEF Inv, Appended, At, Inner, NoError
<1>3. /\ Whole(disk, p, old) /\ FileOk(p) /\ Place(p) /\ fp \in Files /\ call \in Calls
      /\ Len(old) \in Nat /\ Len(p) \in Nat /\ made \in Nat
  BY <1>1, <1>2, Here
<1>4. fs.dirty = {} /\ AllSaid /\ Updated(disk, fs, fp.size, fp.start)
  <2>1. CASE At("close") /\ "written" \notin fp.flags
    BY <1>2, <1>3, <2>1 DEF At, Place, AtClose
  <2>2. CASE At("info")
    BY <1>1, <1>2, <2>2, AllSaved
  <2>3. CASE At("done")
    BY <1>3, <2>3 DEF At, Place, AtDone
  <2> QED BY <2>1, <2>2, <2>3 DEF Appended
<1> DEFINE n == Len(old) + call.len
           line == [k \in 1..call.len |-> made]
<1>5. fp.ptr = n /\ fp.size = n /\ n \in Nat /\ call.len \in Nat
  BY <1>2, <1>3, <1>4 DEF AllSaid, Files, Calls
<1>6. disk[Dir][1] = n /\ disk[Dir][2] = First(p) /\ n <= Len(p) * Width
  BY <1>3, <1>4, <1>5 DEF Updated, FileOk
<1>7. /\ Text(disk) \in Seq(Nat) /\ Len(Text(disk)) = n
      /\ \A k \in 1..Len(p), i \in Cells :
            Pos(k, i) < n => Text(disk)[Pos(k, i) + 1] = disk[Sector(p[k])][i]
  <2> HIDE DEF n, line
  <2>1. Whole(disk, p, old) /\ disk[Dir][2] = First(p) /\ disk[Dir][1] = n
    BY <1>3, <1>6
  <2> QED BY ONLY <2>1, TextIs
<1>8. line \in Seq(Nat) /\ Len(line) = call.len /\ \A k \in 1..call.len : line[k] = made
  BY <1>3, <1>5
<1>9. old \in Seq(Nat)
  BY <1>2 DEF Typed
<1> HIDE DEF line
<1>10. /\ old \o line \in Seq(Nat) /\ Len(old \o line) = n
       /\ \A k \in 1..Len(old) : (old \o line)[k] = old[k]
       /\ \A k \in 1..Len(line) : (old \o line)[Len(old) + k] = line[k]
       /\ \A k \in 1..n : k \in 1..Len(old) \/ \E l \in 1..Len(line) : k = Len(old) + l
  <2>1. /\ old \o line \in Seq(Nat) /\ Len(old \o line) = Len(old) + Len(line)
        /\ \A k \in 1..Len(old) : (old \o line)[k] = old[k]
        /\ \A k \in 1..Len(line) : (old \o line)[Len(old) + k] = line[k]
        /\ \A k \in 1..Len(old \o line) : k \in 1..Len(old) \/ \E l \in 1..Len(line) : k = Len(old) + l
    <3>1. old \in Seq(Nat) /\ line \in Seq(Nat)
      BY <1>8, <1>9
    <3> QED BY ONLY <3>1, Joined
  <2>2. Len(old \o line) = n
    BY <1>8, <2>1
  <2> HIDE DEF n
  <2> QED BY <2>1, <2>2
<1> HIDE DEF n
<1>11. ASSUME NEW x \in 1..n PROVE Text(disk)[x] = (old \o line)[x]
  <2>1. PICK y \in Nat : x = y + 1 /\ y < n
    <3>1. x - 1 \in Nat /\ x = (x - 1) + 1 /\ x - 1 < n
      BY <1>5
    <3> QED BY <3>1
  <2>2. PICK k \in Nat \ {0}, i \in Cells : y = Pos(k, i)
    <3>1. y \div Width \in Nat /\ y % Width \in Cells /\ y = Pos((y \div Width) + 1, y % Width)
      BY PosOf
    <3>2. (y \div Width) + 1 \in Nat \ {0}
      BY <3>1
    <3> QED BY <3>1, <3>2
  <2>3. k \in 1..Len(p)
    <3>1. Len(p) * Width \in Nat
      BY <1>3, PosWithin
    <3>2. Pos(k, i) < Len(p) * Width
      BY <1>5, <1>6, <2>1, <2>2, <3>1
    <3>3. k <= Len(p)
      BY <1>3, <3>2, PosWithin
    <3> QED BY <1>3, <3>3
  <2>4. Text(disk)[x] = disk[Sector(p[k])][i]
    BY <1>7, <2>1, <2>2, <2>3
  <2>5. CASE x <= Len(old)
    <3>1. x \in 1..Len(old) /\ Pos(k, i) < Len(old)
      BY <1>3, <2>1, <2>2, <2>5
    <3>2. disk[Sector(p[k])][i] = old[Pos(k, i) + 1]
      BY <1>3, <2>3, <3>1 DEF Whole, TextKept, OldText
    <3> QED BY <1>10, <2>1, <2>2, <2>4, <3>1, <3>2
  <2>6. CASE ~(x <= Len(old))
    <3>1. Len(old) <= Pos(k, i) /\ Pos(k, i) < fp.ptr
      BY <1>3, <1>5, <2>1, <2>2, <2>6
    <3>2. NewText(disk, fs, p, old, fp.ptr, made)
      BY <1>2, <1>3 DEF FileOk
    <3>3. disk[Sector(p[k])][i] = made
      BY <1>4, <2>3, <3>1, <3>2 DEF NewText
    <3>4. (old \o line)[x] = made
      <4>1. x \notin 1..Len(old)
        BY <2>6
      <4>2. PICK l \in 1..Len(line) : x = Len(old) + l
        BY <1>10, <4>1
      <4> QED BY <1>8, <1>10, <4>2
    <3> QED BY <2>4, <3>3, <3>4
  <2> QED BY <2>5, <2>6
<1>12. \A s, t \in Seq(Nat) : Len(s) = n /\ Len(t) = n /\ (\A x \in 1..n : s[x] = t[x]) => s = t
  OBVIOUS
<1>13. Text(disk) = old \o line
  BY <1>7, <1>10, <1>11, <1>12
<1> QED BY <1>13 DEF line

-----------------------------------------------------------------------------
(* What the runs of FatLog check, for every volume.                         *)

(* The log only grows: whatever write fails and wherever the power goes,   *)
(* what it held when an append last succeeded is still its beginning.      *)
THEOREM NothingIsLost ==
  ASSUME "read" \notin Faults
  PROVE  FatSpec => []LogKept
<1>1. Inv => LogKept
  BY KeptIs
<1> QED BY <1>1, LogInvariant, PTL

(* When f_open, f_lseek, f_write and f_close have all succeeded, the card  *)
(* holds the old text followed by the line and by nothing else.            *)
THEOREM SuccessIsTrue ==
  ASSUME "read" \notin Faults
  PROVE  FatSpec => []AppendEffect
<1>1. Inv => AppendEffect
  BY EffectIs
<1> QED BY <1>1, LogInvariant, PTL

(* At every access the entry names no more text than its chain holds, the  *)
(* chain neither meets itself nor another file, the other files are as     *)
(* they were, and what FatFs keeps in memory stays in range.               *)
THEOREM VolumeStaysWhole ==
  ASSUME "read" \notin Faults
  PROVE  FatSpec => []VolumeWhole
<1>1. Inv => VolumeWhole
  BY VolumeIsWhole
<1> QED BY <1>1, LogInvariant, PTL

(* move_window never has a sector in both windows, and a window of the FAT *)
(* or the directory that is not to be written back is what the card holds. *)
THEOREM WindowsAgree ==
  ASSUME "read" \notin Faults
  PROVE  FatSpec => []CacheCoherent
<1>1. Inv => CacheCoherent
  BY CoherentIs
<1> QED BY <1>1, LogInvariant, PTL

-----------------------------------------------------------------------------
(* The flags of CardLog.                                                    *)

(* Every variable keeps its type.  The one step that needs an argument is  *)
(* ProcessaCGI, whose guard keeps the request counters inside their bound. *)
THEOREM TypeCorrect == Spec => []TypeOK
<1> USE BoundAssumption DEF TypeOK, Flags, Jobs, PorteAt, MainAt
<1>1. Init => TypeOK
  <2> SUFFICES ASSUME Init PROVE TypeOK
    OBVIOUS
  <2>1. /\ pin \in 0..1 /\ edges \in 0..MaxEdges
        /\ log \in [Jobs -> Nat] /\ accepted \in [Flags -> 0..MaxRequests]
        /\ porte \in [at : PorteAt, state : 0..1]
    BY DEF Init
  <2>2. /\ session \in BOOLEAN /\ pending \in BOOLEAN /\ cardInserted \in BOOLEAN
        /\ written \in BOOLEAN /\ flag \in [Flags -> BOOLEAN]
    BY DEF Init
  <2>3. pc \in MainAt /\ turn \in Flags /\ job \in Jobs /\ uncovered \in SUBSET Flags
    BY DEF Init
  <2> QED
    BY <2>1, <2>2, <2>3
<1>2. TypeOK /\ [Next]_vars => TypeOK'
  <2> SUFFICES ASSUME TypeOK, [Next]_vars PROVE TypeOK'
    OBVIOUS
  <2> USE DEF slot, isr, loop, hist
  <2>1. CASE PinChange
    BY <2>1 DEF PinChange
  <2>2. CASE PorteEnter
    BY <2>2 DEF PorteEnter
  <2>3. CASE PorteFirst
    BY <2>3 DEF PorteFirst
  <2>4. CASE PorteAgain
    <3>1. porte' \in [at : PorteAt, state : 0..1] /\ cardInserted' \in BOOLEAN
      BY <2>4 DEF PorteAgain
    <3> QED BY <2>4, <3>1 DEF PorteAgain
  <2>5. CASE PorteReturn
    BY <2>5 DEF PorteReturn
  <2>6. ASSUME NEW iIndex \in 0..2, ProcessaCGI(iIndex) PROVE TypeOK'
    BY <2>6 DEF ProcessaCGI, Raised
  <2>7. CASE BootSample
    BY <2>7 DEF BootSample, Runs
  <2>8. CASE BootSet
    BY <2>8 DEF BootSet, Runs
  <2>9. CASE Test
    BY <2>9 DEF Test, Runs, After
  <2>10. CASE Clear
    BY <2>10 DEF Clear, Runs
  <2>11. CASE AppendOpen
    BY <2>11 DEF AppendOpen, LeaveAppend, Runs, After
  <2>12. CASE AppendMount
    BY <2>12 DEF AppendMount, LeaveAppend, Hang, Runs, After
  <2>13. CASE AppendWrite
    BY <2>13 DEF AppendWrite, Hang, Runs
  <2>14. CASE AppendClose
    <3>1. log' \in [Jobs -> Nat]
      BY <2>14 DEF AppendClose
    <3>2. pc' \in MainAt /\ turn' \in Flags /\ job' \in Jobs
      BY <2>14 DEF AppendClose, LeaveAppend, Hang, After
    <3> QED
      BY <2>14, <3>1, <3>2 DEF AppendClose
  <2>15. CASE Poll \/ UNCHANGED vars
    <3>1. UNCHANGED vars
      BY <2>15 DEF Poll
    <3> QED
      BY <3>1 DEF vars
  <2> QED
    BY <2>1, <2>2, <2>3, <2>4, <2>5, <2>6, <2>7, <2>8, <2>9, <2>10, <2>11,
       <2>12, <2>13, <2>14, <2>15 DEF Next, Porte, Main
<1> QED
  BY <1>1, <1>2, PTL DEF Spec

-----------------------------------------------------------------------------
(* A request that raised a flag stays covered by the flag, or by an append *)
(* the loop is about to begin: the flag comes down before the append, so a *)
(* request that arrives during the append raises it again.                 *)
THEOREM RequestsAreCovered == Spec => []RequestCovered
<1> USE DEF RequestCovered, TypeOK, Flags, Jobs
<1>1. Init => RequestCovered
  BY DEF Init
<1>2. TypeOK /\ RequestCovered /\ [Next]_vars => RequestCovered'
  <2> SUFFICES ASSUME TypeOK, RequestCovered, [Next]_vars, NEW f \in uncovered'
               PROVE  flag'[f] \/ (pc' = "open" /\ job' = f)
    OBVIOUS
  <2> USE DEF slot, isr, loop, hist
  <2>1. CASE PinChange
    BY <2>1 DEF PinChange
  <2>2. CASE Porte
    BY <2>2 DEF Porte, PorteEnter, PorteFirst, PorteAgain, PorteReturn
  <2>3. ASSUME NEW iIndex \in 0..2, ProcessaCGI(iIndex)
        PROVE  flag'[f] \/ (pc' = "open" /\ job' = f)
    BY <2>3 DEF ProcessaCGI, Raised
  <2>4. CASE BootSample \/ BootSet \/ Test
    BY <2>4 DEF BootSample, BootSet, Test, Runs
  <2>5. CASE Clear
    BY <2>5 DEF Clear, Runs
  <2>6. CASE AppendOpen
    BY <2>6 DEF AppendOpen, LeaveAppend, Runs
  <2>7. CASE AppendMount \/ AppendWrite \/ AppendClose
    BY <2>7 DEF AppendMount, AppendWrite, AppendClose, LeaveAppend, Hang, Runs
  <2>8. CASE UNCHANGED vars
    BY <2>8 DEF vars
  <2> QED
    BY <2>1, <2>2, <2>3, <2>4, <2>5, <2>6, <2>7, <2>8 DEF Next, Main, Poll
<1> QED
  BY <1>1, <1>2, TypeCorrect, PTL DEF Spec

-----------------------------------------------------------------------------
(* What NoPhantomLine needs to be inductive: the loop clears only a flag   *)
(* it has seen raised, and until start-up is over the append belongs to    *)
(* start-up.                                                               *)
NoPhantomIInv ==
  /\ pc = "clear" => flag[turn]
  /\ pc \in {"sample", "absent", "present"} => job = "start"
  /\ NoPhantomLine

(* Lines in the log, the line being appended and the flag still raised     *)
(* never exceed the requests that raised the flag.                         *)
THEOREM NoLineWithoutRequest == Spec => []NoPhantomLine
<1> USE DEF TypeOK, Flags, Jobs, InAppend
<1>1. Init => NoPhantomIInv
  BY DEF Init, NoPhantomIInv, NoPhantomLine
<1>2. TypeOK /\ NoPhantomIInv /\ [Next]_vars => NoPhantomIInv'
  <2> SUFFICES ASSUME TypeOK, NoPhantomIInv, [Next]_vars PROVE NoPhantomIInv'
    OBVIOUS
  <2> USE DEF NoPhantomIInv, NoPhantomLine, slot, isr, loop, hist
  <2>1. CASE PinChange
    BY <2>1 DEF PinChange
  <2>2. CASE Porte
    BY <2>2 DEF Porte, PorteEnter, PorteFirst, PorteAgain, PorteReturn
  <2>3. ASSUME NEW iIndex \in 0..2, ProcessaCGI(iIndex) PROVE NoPhantomIInv'
    BY <2>3 DEF ProcessaCGI, Raised
  <2>4. CASE BootSample \/ BootSet
    BY <2>4 DEF BootSample, BootSet, Runs
  <2>5. CASE Test
    BY <2>5 DEF Test, Runs, After
  <2>6. CASE Clear
    BY <2>6 DEF Clear, Runs
  <2>7. CASE AppendOpen
    BY <2>7 DEF AppendOpen, LeaveAppend, Runs
  <2>8. CASE AppendMount \/ AppendWrite
    BY <2>8 DEF AppendMount, AppendWrite, LeaveAppend, Hang, Runs
  <2>9. CASE AppendClose
    BY <2>9 DEF AppendClose, LeaveAppend, Hang, Runs
  <2>10. CASE UNCHANGED vars
    BY <2>10 DEF vars
  <2> QED
    BY <2>1, <2>2, <2>3, <2>4, <2>5, <2>6, <2>7, <2>8, <2>9, <2>10 DEF Next, Main, Poll
<1> QED
  BY <1>1, <1>2, TypeCorrect, PTL DEF Spec, NoPhantomIInv
=============================================================================
