-------------------------------- MODULE FatLog ---------------------------------
(****************************************************************************)
(* One line after another appended to the log file on the SD card: append   *)
(* of sdcard.c through FatFs with its cache of two sectors.  A step is one  *)
(* access to the card, or what the code does between two of them; an access *)
(* may fail, and the power may go at any moment.                            *)
(*                                                                          *)
(* A sector is Width numbers, whatever is in it: entries of the FAT, the    *)
(* directory entry of the log (there is one, its size and its first         *)
(* cluster), or units of text.  A cluster is one sector.  Clusters are      *)
(* numbered from 2, and cluster 2 is the root directory.                    *)
(****************************************************************************)
EXTENDS Integers, Sequences, FiniteSets, TLC

CONSTANTS
    Width,        \* units of text and FAT entries per sector, at least 3
    FatSectors,   \* fsize: sectors of one FAT; there are two FATs
    LastCluster,  \* n_fatent - 1
    Others,       \* the clusters of other files
    Lengths,      \* the lengths of a line, less than a sector
    Sizes,        \* the sizes of the log at the beginning; 0: there is none
    MaxAppends,   \* bound on the lines
    EndOfChain,   \* 0x0FFFFFFF: the last cluster of a chain
    DiskError,    \* 0xFFFFFFFF: what get_fat returns when an access fails
    Fat32,        \* the volume has an FSInfo sector
    Faults        \* what may happen: a failed "read" or "write", "power" loss

ASSUME VolumeAssumption ==
    /\ Width \in Nat /\ Width >= 3
    /\ FatSectors \in Nat /\ LastCluster \in 3..(FatSectors * Width - 1)
    /\ EndOfChain \in Nat /\ LastCluster < EndOfChain
    /\ DiskError \in Nat /\ EndOfChain < DiskError
    /\ Others \subseteq 3..LastCluster
    /\ Lengths \subseteq 1..(Width - 1)
    /\ \A size \in Sizes : size \in Nat
                          /\ \A c \in Others \cup {LastCluster + 1} : size <= (c - 3) * Width
    /\ MaxAppends \in Nat /\ Fat32 \in BOOLEAN
    /\ Faults \subseteq {"read", "write", "power"}

VARIABLES
    disk,     \* the sectors of the card
    fs,       \* FATFS: the cache and the allocation information
    fp,       \* FIL: the open file
    call,     \* where append and the functions below it are
    chain,    \* the locals of create_chain and create_chain_for_clusts
    io,       \* the accesses to the card that are still to be made
    res,      \* what they return: "ok" or "disk" (FR_DISK_ERR)
    made,     \* how many appends have begun
    old,      \* the text of the log when the last one began,
    kept      \* and when one last succeeded

fatVars == <<disk, fs, fp, call, chain, io, res, made, old, kept>>

-----------------------------------------------------------------------------
(* The volume. *)

\* What get_fat and create_chain return besides a cluster: EndOfChain and DiskError.
NoCluster == 0
IntError == 1
Cells == 0..(Width - 1)
Clusters == 2..LastCluster

Fsi == 1
FatBase == 2
DataBase == FatBase + 2 * FatSectors
Dir == DataBase
Sectors == {Fsi} \cup FatBase..(DataBase + LastCluster - 2)

\* clust2sect
Sector(c) == c - 2 + DataBase
InFat(s) == s \in FatBase..(FatBase + FatSectors - 1)

\* Where the entry of a cluster is in the FAT.
FatSector(c) == FatBase + c \div Width
FatCell(c) == c % Width
NextOf(d, c) == d[FatSector(c)][FatCell(c)]

\* The clusters of the log from c on, as long as there are any, and n of them.
Chain(d, c, n) ==
    LET first[k \in 0..n] ==
          IF k = 0 THEN <<>>
          ELSE LET s == first[k - 1]
                   next == IF s = <<>> THEN c ELSE NextOf(d, s[Len(s)])
               IN  IF next \in Clusters THEN Append(s, next) ELSE s
    IN  first[n]

\* A directory entry: whether there is one, the size, the first cluster.
Size(d) == IF d[Dir][0] = 0 THEN 0 ELSE d[Dir][1]
Needed(d) == (Size(d) + Width - 1) \div Width

\* The text of the log, as far as its chain reaches.
Text(d) ==
    LET c == Chain(d, d[Dir][2], Needed(d))
        last == IF Size(d) < Len(c) * Width THEN Size(d) ELSE Len(c) * Width
    IN  [k \in 1..last |-> d[Sector(c[1 + (k - 1) \div Width])][(k - 1) % Width]]

Blank == [i \in Cells |-> 0]

\* A volume whose log of the given size begins in cluster 3.
Volume(size) ==
    LET used == 3..(2 + (size + Width - 1) \div Width)
        link(c) == CASE c \in used -> IF c + 1 \in used THEN c + 1 ELSE EndOfChain
                     [] c \in Others \cup {2} -> EndOfChain
                     [] OTHER -> 0
        fat(k) == [i \in Cells |-> link(k * Width + i)]
        text(c) == [i \in Cells |-> IF c \in Others THEN 7
                                    ELSE IF (c - 3) * Width + i < size THEN 8 ELSE 0]
    IN  [s \in Sectors |->
           CASE s = Fsi -> [Blank EXCEPT ![0] = 2]
             [] s \in FatBase..(DataBase - 1) -> fat((s - FatBase) % FatSectors)
             [] s = Dir -> IF size = 0 THEN Blank
                           ELSE [Blank EXCEPT ![0] = 1, ![1] = size, ![2] = 3]
             [] OTHER -> text(s - DataBase + 2)]

-----------------------------------------------------------------------------
(* The cache: two windows, each with the sector in it (0: none).            *)

Slots == {0, 1}

\* What f_mount and chk_mounted leave; a new window's contents are random.
NoFs == [tag |-> [i \in Slots |-> 0], dirty |-> {}, win |-> 0, last |-> 0,
         buf |-> [i \in Slots |-> Blank],
         lastClust |-> 0, fsiFlag |-> FALSE, fsiValid |-> FALSE]

\* clear_buff
ClearBuff(f) == [f EXCEPT !.tag = [i \in Slots |-> 0], !.win = 0, !.last = 0]

\* An access to a sector from or into a window; a read puts the sector into
\* the tag of a window, a write clears dirty flags; must: its failure counts.
Write(slot, sector, clears, must) ==
    <<[op |-> "write", slot |-> slot, sector |-> sector, tag |-> slot,
       clears |-> clears, must |-> must]>>
Read(slot, sector, tag) ==
    <<[op |-> "read", slot |-> slot, sector |-> sector, tag |-> tag,
       clears |-> {}, must |-> TRUE]>>

\* A window, then its copy in the second FAT.
WriteBack(f, slot) ==
    Write(slot, f.tag[slot], {slot}, TRUE)
      \o IF InFat(f.tag[slot])
         THEN Write(slot, f.tag[slot] + FatSectors, {}, FALSE) ELSE <<>>

\* Both windows with one command.
WriteBoth(f) ==
    Write(0, f.tag[0], {}, TRUE) \o Write(1, f.tag[1], Slots, TRUE)
      \o IF InFat(f.tag[0])
         THEN Write(0, f.tag[0] + FatSectors, {}, FALSE)
                \o Write(1, f.tag[1] + FatSectors, {}, FALSE)
         ELSE <<>>

\* sync_winindex: the window that was read first is written first.
Sync(f, slot) ==
    LET other == 1 - slot
        both == f.last = slot /\ other \in f.dirty
    IN  IF f.tag[slot] = 0 \/ slot \notin f.dirty THEN <<>>
        ELSE IF both /\ f.tag[0] + 1 = f.tag[1] THEN WriteBoth(f)
        ELSE (IF both THEN WriteBack(f, other) ELSE <<>>) \o WriteBack(f, slot)

(* buff_validation and move_window: the sector is in a window, or takes the *)
(* place of the one that was read first.  With nothing in the current       *)
(* window the index stays 0, whichever window that is.                      *)
Holding(f, s) == {i \in Slots : f.tag[i] = s}
Victim(f) == IF f.tag[f.win] = 0 THEN f.win ELSE 1 - f.last
Moved(f, s) ==
    [f EXCEPT !.win = IF Holding(f, s) = {} THEN Victim(f)
                      ELSE IF 0 \in Holding(f, s) THEN 0 ELSE 1]

\* Mutant: a window is given away without being written back.
MoveIo_NoSync(f, s) ==
    IF Holding(f, s) # {} THEN <<>> ELSE Read(Victim(f), s, Victim(f))

MoveIo(f, s) ==
    IF Holding(f, s) # {} THEN <<>>
    ELSE Sync(f, Victim(f))
           \o Read(Victim(f), s, IF f.tag[f.win] = 0 THEN 0 ELSE Victim(f))

\* Mutant: set_dirty is forgotten.
Changed_Clean(f, i, v) == [f EXCEPT !.buf[f.win][i] = v]

\* set_dirty, with the new contents of the window.
Changed(f, i, v) == [f EXCEPT !.buf[f.win][i] = v, !.dirty = @ \cup {f.win}]

InWindow(i) == fs.buf[fs.win][i]

-----------------------------------------------------------------------------
(* The accesses.                                                            *)

NoFile == [size |-> 0, start |-> 0, clust |-> 0, ptr |-> 0, dsect |-> 0,
           flags |-> {}]
Idle == [pc |-> "idle", rest |-> 0, len |-> 0, left |-> 0, then |-> "idle", ret |-> 0]
NoChain == [clst |-> 0, scl |-> 0, ncl |-> 0, tries |-> 0, many |-> FALSE]

FatInit ==
    /\ \E size \in Sizes : disk = Volume(size)
    /\ fs = NoFs /\ fp = NoFile /\ call = Idle /\ chain = NoChain
    /\ io = <<>> /\ res = "ok" /\ made = 0
    /\ old = Text(disk) /\ kept = Text(disk)

Fault(f) == f \in Faults

\* What a completed access does to the card and to the cache.
ToDisk(a) == [disk EXCEPT ![a.sector] = fs.buf[a.slot]]
Loaded(a) == [fs EXCEPT !.buf[a.slot] = disk[a.sector], !.tag[a.tag] = a.sector,
                        !.last = a.tag]

AccessOk ==
    /\ io # <<>>
    /\ LET a == Head(io) IN
         \/ /\ a.op = "write"
            /\ disk' = ToDisk(a) /\ fs' = [fs EXCEPT !.dirty = @ \ a.clears]
         \/ /\ a.op = "read"
            /\ fs' = Loaded(a) /\ UNCHANGED disk
    /\ io' = Tail(io)
    /\ UNCHANGED <<fp, call, chain, res, made, old, kept>>

\* A write that fails may have reached the card.
AccessFails ==
    /\ io # <<>>
    /\ LET a == Head(io) IN
         /\ Fault(a.op)
         /\ disk' \in {disk} \cup IF a.op = "write" THEN {ToDisk(a)} ELSE {}
         /\ IF a.must THEN io' = <<>> /\ res' = "disk"
            ELSE io' = Tail(io) /\ UNCHANGED res
    /\ UNCHANGED <<fs, fp, call, chain, made, old, kept>>

\* The power goes, and with it everything that is not on the card.
Crash ==
    /\ Fault("power") /\ call.pc # "idle"
    /\ fs' = NoFs /\ fp' = NoFile /\ call' = Idle /\ chain' = NoChain
    /\ io' = <<>> /\ res' = "ok"
    /\ UNCHANGED <<disk, made, old, kept>>

-----------------------------------------------------------------------------
(* The steps between the accesses.  Each begins when the accesses that the  *)
(* one before it asked for are made; res tells how they ended.              *)

At(pc) == call.pc = pc /\ io = <<>>
Failed == res = "disk"
Goto(pc) == call' = [call EXCEPT !.pc = pc]
NoIo == UNCHANGED <<fs, io>>

Move(f, s) == fs' = Moved(f, s) /\ io' = MoveIo(f, s)
Ask(c) == IF c \in Clusters THEN Move(fs, FatSector(c)) ELSE NoIo

\* get_fat, once its sector is in the window.
Got(c) == IF c \notin Clusters THEN IntError
          ELSE IF Failed THEN DiskError ELSE InWindow(FatCell(c))

StartChain(many, c, then) ==
    /\ chain' = [NoChain EXCEPT !.clst = c, !.many = many]
    /\ call' = [call EXCEPT !.pc = "stretch", !.then = then]
    /\ NoIo
Return(c) == call' = [call EXCEPT !.pc = call.then, !.ret = c]

Step == res' = "ok" /\ UNCHANGED <<disk, made, old>>
InChain == Step /\ UNCHANGED <<fp, kept>>
InFile == Step /\ UNCHANGED kept

(* create_chain, and create_chain_for_clusts asked for one cluster.         *)
Stretch ==
    /\ At("stretch")
    /\ IF chain.clst = NoCluster
       THEN LET first == IF fs.lastClust \in 1..LastCluster THEN fs.lastClust ELSE 1 IN
            /\ chain' = [chain EXCEPT !.scl = first, !.ncl = first]
            /\ Goto("scan") /\ NoIo
       ELSE Ask(chain.clst) /\ Goto("status") /\ UNCHANGED chain
    /\ InChain

Status ==
    /\ At("status")
    /\ LET cs == Got(chain.clst) IN
         \/ cs < 2 /\ Return(IntError) /\ NoIo /\ UNCHANGED chain
         \/ /\ cs \in Clusters /\ ~chain.many
            /\ Return(cs) /\ NoIo /\ UNCHANGED chain
         \/ /\ cs \in Clusters /\ chain.many
            /\ chain' = [chain EXCEPT !.clst = cs, !.ncl = cs]
            /\ Ask(cs) /\ Goto("hops")
         \/ /\ cs > LastCluster
            /\ chain' = [chain EXCEPT !.scl = fs.lastClust, !.ncl = fs.lastClust]
            /\ Goto("scan") /\ NoIo
    /\ InChain

\* The clusters that follow each other are counted to the end of the run.
Hops ==
    /\ At("hops")
    /\ LET cs == Got(chain.clst) IN
         \/ cs < 2 /\ Return(IntError) /\ NoIo /\ UNCHANGED chain
         \/ /\ cs \in Clusters /\ cs = chain.clst + 1
            /\ chain' = [chain EXCEPT !.clst = cs]
            /\ Ask(cs) /\ UNCHANGED call
         \/ /\ cs >= 2 /\ ~(cs \in Clusters /\ cs = chain.clst + 1)
            /\ Return(chain.ncl) /\ NoIo /\ UNCHANGED chain
    /\ InChain

Wraps == chain.ncl + 1 > LastCluster

Scan ==
    /\ At("scan")
    /\ LET next == IF Wraps THEN 2 ELSE chain.ncl + 1
       IN  IF Wraps /\ next > chain.scl
           THEN Return(NoCluster) /\ NoIo /\ UNCHANGED chain
           ELSE /\ chain' = [chain EXCEPT !.ncl = next, !.tries = @ + IF Wraps /\ chain.many THEN 1 ELSE 0]
                /\ Ask(next) /\ Goto("found")
    /\ InChain

\* last_clust and fsi_flag, when the new cluster is in its place.
Taken(f) == [f EXCEPT !.lastClust = chain.ncl, !.fsiFlag = f.fsiValid]

\* Mutant: the search does not notice that it has been everywhere.
Around_Never == FALSE

Around == chain.ncl = chain.scl

Found ==
    /\ At("found")
    /\ LET cs == Got(chain.ncl)
           marked == Changed(fs, FatCell(chain.ncl), EndOfChain)
           tries == chain.tries + 1
       IN
         \/ /\ cs = 0 /\ chain.clst # NoCluster
            /\ Move(marked, FatSector(chain.clst)) /\ Goto("link") /\ UNCHANGED chain
         \/ /\ cs = 0 /\ chain.clst = NoCluster
            /\ fs' = Taken(marked) /\ Return(chain.ncl) /\ UNCHANGED <<io, chain>>
         \/ cs \in {IntError, DiskError} /\ Return(cs) /\ NoIo /\ UNCHANGED chain
         \/ /\ cs \notin {0, IntError, DiskError} /\ Around
            /\ Return(NoCluster) /\ NoIo /\ UNCHANGED chain
         \/ /\ cs \notin {0, IntError, DiskError} /\ ~Around
            /\ IF chain.many /\ tries >= 2
               THEN /\ chain' = [NoChain EXCEPT !.clst = chain.clst]
                    /\ Goto("stretch")
               ELSE /\ chain' = IF chain.many THEN [chain EXCEPT !.tries = tries] ELSE chain
                    /\ Goto("scan")
            /\ NoIo
    /\ InChain

\* put_fat sets the dirty flag whether or not it got its sector.
Link ==
    /\ At("link")
    /\ IF Failed
       THEN /\ fs' = [fs EXCEPT !.dirty = @ \cup {fs.win}] /\ Return(DiskError)
       ELSE /\ fs' = Taken(Changed(fs, FatCell(chain.clst), chain.ncl))
            /\ Return(chain.ncl)
    /\ UNCHANGED <<io, chain>> /\ InChain

-----------------------------------------------------------------------------
(* append: f_mount, f_open, f_lseek to the end, f_write, f_close.           *)

\* f_mount and chk_mounted: without FSInfo the search for free clusters has
\* no hint.  The volume may not be readable at all.
AppendLine(len) ==
    /\ call.pc = "idle" /\ made < MaxAppends
    /\ made' = made + 1 /\ old' = Text(disk) /\ res' = "ok"
    /\ \/ /\ \E info \in {Fat32} \cup IF Fault("read") THEN {FALSE} ELSE {} :
               Move([NoFs EXCEPT !.lastClust = IF info THEN disk[Fsi][0] ELSE 0,
                                 !.fsiValid = info], Dir)
          /\ call' = [Idle EXCEPT !.pc = "entry", !.len = len, !.left = len]
       \/ Fault("read") /\ UNCHANGED <<fs, io, call>>
    /\ UNCHANGED <<disk, fp, chain, kept>>

\* The power work area goes with the call; f_close fails on a file that was
\* not opened.
Finish(done) ==
    /\ fs' = NoFs /\ fp' = NoFile /\ call' = Idle /\ chain' = NoChain
    /\ kept' = IF done THEN Text(disk) ELSE kept
    /\ UNCHANGED io /\ Step

(* The entry is read, or created in the window; then f_lseek begins.        *)
Opened(size, start, flags) ==
    [NoFile EXCEPT !.size = size, !.start = start, !.flags = flags,
                   !.clust = IF size > 0 THEN start ELSE 0]

Entry ==
    /\ At("entry") /\ ~Failed
    /\ \/ /\ InWindow(0) = 0
          /\ fs' = Changed(Changed(Changed(fs, 0, 1), 1, 0), 2, 0)
          /\ fp' = Opened(0, 0, {"written"})
       \/ /\ InWindow(0) # 0
          /\ fp' = Opened(InWindow(1), InWindow(2), {}) /\ UNCHANGED fs
    /\ call' = [call EXCEPT !.pc = IF fp'.size = 0 THEN "write" ELSE "seek",
                            !.rest = fp'.size]
    /\ UNCHANGED <<io, chain>> /\ InFile

\* ABORT: the rest of append is f_close.
Abort(f) == fp' = [f EXCEPT !.flags = @ \cup {"error"}] /\ Goto("close")

(* f_lseek: through the chain, which it stretches where it is too short.    *)
(* An entry with a size has a first cluster (FatTypeOK): the branch         *)
(* that creates one is never taken.                                         *)
\* Mutant: the end of the file is its last unit.
Sought_LastUnit(f, n) ==
    LET g == [f EXCEPT !.ptr = @ + n - 1]
    IN  IF (n - 1) % Width = 0 THEN g ELSE [g EXCEPT !.dsect = Sector(f.clust)]

Sought(f, n) ==
    LET g == [f EXCEPT !.ptr = @ + n]
    IN  IF n % Width = 0 THEN g ELSE [g EXCEPT !.dsect = Sector(f.clust)]

Seek ==
    /\ At("seek")
    /\ IF call.rest > Width THEN StartChain(FALSE, fp.clust, "sought") /\ UNCHANGED fp
       ELSE fp' = Sought(fp, call.rest) /\ Goto("write") /\ NoIo /\ UNCHANGED chain
    /\ InFile

SoughtNext ==
    /\ At("sought")
    /\ \/ /\ call.ret = NoCluster
          /\ fp' = Sought(fp, Width) /\ Goto("write")
       \/ /\ call.ret \in {IntError, DiskError, EndOfChain} /\ Abort(fp)
       \/ /\ call.ret \in Clusters
          /\ fp' = [fp EXCEPT !.clust = call.ret, !.ptr = @ + Width]
          /\ call' = [call EXCEPT !.pc = "seek", !.rest = @ - Width]
    /\ NoIo /\ UNCHANGED chain /\ InFile

(* f_write: the line is shorter than a sector, so that no sector is written *)
(* without the cache and at most one cluster is asked for.                  *)
Boundary == fp.ptr % Width = 0

\* Mutant: the size counts what there was no room for.
WriteEnds_WholeLine ==
    /\ fp' = [fp EXCEPT !.size = fp.ptr + call.left, !.flags = @ \cup {"written"}]
    /\ Goto("close") /\ NoIo

WriteEnds ==
    /\ fp' = [fp EXCEPT !.size = IF fp.ptr > @ THEN fp.ptr ELSE @,
                        !.flags = @ \cup {"written"}]
    /\ Goto("close") /\ NoIo

WriteLoop ==
    /\ At("write")
    /\ \/ call.left = 0 /\ WriteEnds /\ UNCHANGED chain
       \/ /\ call.left > 0 /\ ~Boundary
          /\ Move(fs, fp.dsect) /\ Goto("copy") /\ UNCHANGED <<fp, chain>>
       \/ /\ call.left > 0 /\ Boundary /\ fp.ptr = 0 /\ fp.start # NoCluster
          /\ call' = [call EXCEPT !.pc = "cluster", !.ret = fp.start]
          /\ NoIo /\ UNCHANGED <<fp, chain>>
       \/ /\ call.left > 0 /\ Boundary /\ (fp.ptr # 0 \/ fp.start = NoCluster)
          /\ StartChain(TRUE, IF fp.ptr = 0 THEN NoCluster ELSE fp.clust, "cluster")
          /\ UNCHANGED fp
    /\ InFile

\* The next cluster is there; the window of the last sector is written back.
NextCluster ==
    /\ At("cluster")
    /\ \/ call.ret = NoCluster /\ WriteEnds
       \/ call.ret \in {IntError, DiskError} /\ Abort(fp) /\ NoIo
       \/ /\ call.ret \in Clusters
          /\ fp' = [fp EXCEPT !.clust = call.ret,
                              !.start = IF @ = NoCluster THEN call.ret ELSE @]
          /\ io' = LET held == {i \in Slots : fp.dsect # 0 /\ fs.tag[i] = fp.dsect}
                   IN  IF held = {} THEN <<>>
                       ELSE Sync(fs, IF 0 \in held THEN 0 ELSE 1)
          /\ Goto("sector") /\ UNCHANGED fs
    /\ UNCHANGED chain /\ InFile

\* Behind the end of the file the sector is not read: the current window is
\* written back and given to it.
NextSector ==
    /\ At("sector")
    /\ \/ Failed /\ Abort(fp) /\ NoIo
       \/ /\ ~Failed /\ fp.ptr >= fp.size
          /\ io' = Sync(fs, fs.win) /\ Goto("grow") /\ UNCHANGED <<fs, fp>>
       \/ /\ ~Failed /\ fp.ptr < fp.size
          /\ fp' = [fp EXCEPT !.dsect = Sector(fp.clust)]
          /\ Move(fs, Sector(fp.clust)) /\ Goto("copy")
    /\ UNCHANGED chain /\ InFile

Grow ==
    /\ At("grow")
    /\ \/ Failed /\ Abort(fp) /\ NoIo
       \/ /\ ~Failed
          /\ fp' = [fp EXCEPT !.dsect = Sector(fp.clust)]
          /\ Move([fs EXCEPT !.tag[fs.win] = Sector(fp.clust)], Sector(fp.clust))
          /\ Goto("copy")
    /\ UNCHANGED chain /\ InFile

Copy ==
    /\ At("copy")
    /\ \/ Failed /\ Abort(fp) /\ UNCHANGED fs
       \/ /\ ~Failed
          /\ LET from == fp.ptr % Width
                 room == Width - from
                 n == IF call.left < room THEN call.left ELSE room
             IN  /\ fs' = [fs EXCEPT
                             !.buf[fs.win] = [i \in Cells |-> IF i \in from..(from + n - 1)
                                                              THEN made ELSE @[i]],
                             !.dirty = @ \cup {fs.win}]
                 /\ fp' = [fp EXCEPT !.ptr = @ + n]
                 /\ call' = [call EXCEPT !.pc = "write", !.left = @ - n]
    /\ UNCHANGED <<io, chain>> /\ InFile

(* f_close: f_sync if the file has been written, the entry and then all     *)
(* that is in the cache, and FSInfo, whose failure is not noticed.          *)
Close ==
    /\ At("close") /\ "written" \in fp.flags
    /\ Move(fs, Dir) /\ Goto("update") /\ UNCHANGED <<fp, chain>> /\ InFile

Update ==
    /\ At("update") /\ ~Failed
    /\ LET f == Changed(Changed(fs, 1, fp.size), 2, fp.start)
       IN  fs' = f /\ io' = Sync(f, 0)
    /\ fp' = [fp EXCEPT !.flags = @ \ {"written"}]
    /\ Goto("rest") /\ UNCHANGED chain /\ InFile

SyncRest ==
    /\ At("rest") /\ ~Failed
    /\ io' = Sync(fs, 1) /\ Goto("info") /\ UNCHANGED <<fs, fp, chain>> /\ InFile

WriteInfo ==
    /\ At("info") /\ ~Failed /\ Fat32 /\ fs.fsiFlag
    /\ LET f == [ClearBuff(fs) EXCEPT !.buf[0] = [Blank EXCEPT ![0] = fs.lastClust]]
       IN  fs' = [f EXCEPT !.fsiFlag = FALSE] /\ io' = Write(0, Fsi, {}, FALSE)
    /\ Goto("done") /\ UNCHANGED <<fp, chain>> /\ InFile

\* Every function of append has returned FR_OK and the line is written.
Appended ==
    /\ \/ At("close") /\ "written" \notin fp.flags
       \/ At("info") /\ ~(Fat32 /\ fs.fsiFlag)
       \/ At("done")
    /\ ~Failed /\ call.left = 0 /\ "error" \notin fp.flags

Closed ==
    /\ \/ At("entry") /\ Failed
       \/ At("close") /\ "written" \notin fp.flags
       \/ At("update") /\ Failed
       \/ At("rest") /\ Failed
       \/ At("info") /\ (Failed \/ ~(Fat32 /\ fs.fsiFlag))
       \/ At("done")
    /\ Finish(Appended)

FatNext ==
    \/ \E len \in Lengths : AppendLine(len)
    \/ AccessOk \/ AccessFails \/ Crash
    \/ Stretch \/ Status \/ Hops \/ Scan \/ Found \/ Link
    \/ Entry \/ Seek \/ SoughtNext
    \/ WriteLoop \/ NextCluster \/ NextSector \/ Grow \/ Copy
    \/ Close \/ Update \/ SyncRest \/ WriteInfo \/ Closed

FatSpec == FatInit /\ [][FatNext]_fatVars

\* The card answers and the processor goes on: nothing waits for anyone.
Running == FatNext /\ call.pc # "idle"
FatFairSpec == FatSpec /\ WF_fatVars(Running)

-----------------------------------------------------------------------------
(* Properties.                                                              *)

Places == {"idle", "stretch", "status", "hops", "scan", "found", "link", "entry",
           "seek", "sought", "write", "cluster", "sector", "grow", "copy", "close",
           "update", "rest", "info", "done"}

\* What the code indexes and compares stays within the volume, and an entry
\* that names a size names a cluster.
FatTypeOK ==
    /\ DOMAIN disk = Sectors
    /\ fs.tag \in [Slots -> Sectors \cup {0}] /\ fs.dirty \subseteq Slots
    /\ fs.win \in Slots /\ fs.last \in Slots /\ fs.lastClust \in 0..LastCluster
    /\ fp.start \in Clusters \cup {NoCluster} /\ fp.clust \in Clusters \cup {NoCluster}
    /\ fp.ptr <= fp.size + call.len /\ fp.dsect \in Sectors \cup {0}
    /\ fp.flags \subseteq {"written", "error"}
    /\ call.pc \in Places /\ call.left \in 0..call.len
    /\ chain.ncl \in 0..LastCluster /\ chain.clst \in Clusters \cup {NoCluster}
    /\ At("entry") /\ ~Failed /\ InWindow(1) > 0 => InWindow(2) # NoCluster

IsStart(s, t) == Len(s) <= Len(t) /\ \A k \in 1..Len(s) : s[k] = t[k]

\* The log only grows: what it held when an append last succeeded is still
\* its beginning, in the middle of every later append, after one that
\* failed, and after the power was lost at any access.
LogKept == IsStart(kept, Text(disk))

\* When every function of append has succeeded, the card holds the old text
\* followed by the line, whatever was left over by earlier attempts.
AppendEffect == Appended => Text(disk) = old \o [k \in 1..call.len |-> made]

LogChain == Chain(disk, disk[Dir][2], LastCluster)
ChainCovers == Len(LogChain) >= Needed(disk)
ChainIsOwn == \A k \in 1..Len(LogChain) : LogChain[k] \notin Others \cup {2}
ChainIsPath == \A k, j \in 1..Len(LogChain) : LogChain[k] = LogChain[j] => j = k
OthersUntouched ==
    \A c \in Others : /\ disk[Sector(c)] = Volume(0)[Sector(c)]
                      /\ NextOf(disk, c) = EndOfChain

\* At every access, so also where the power may go: the entry of the log
\* names no more text than its chain of clusters holds, the chain does not
\* meet itself or another file, and the other files are as they were; what
\* FatFs keeps in memory stays in range.
VolumeWhole ==
    FatTypeOK /\ ChainCovers /\ ChainIsOwn /\ ChainIsPath /\ OthersUntouched

\* No sector is in both windows, and a window of the FAT or of the directory
\* that is not to be written back is what the card holds.
CacheCoherent ==
    /\ fs.tag[0] = fs.tag[1] => fs.tag[0] = 0
    /\ io = <<>> /\ ~Failed =>
         \A i \in Slots \ fs.dirty :
            fs.tag[i] \in FatBase..Dir => fs.buf[i] = disk[fs.tag[i]]

\* append comes to an end, also on a volume without a free cluster: the
\* search in create_chain stops where it began.
AppendEnds == call.pc # "idle" ~> call.pc = "idle"

=============================================================================
