------------------------------ MODULE KBlock ------------------------------
(***************************************************************************)
(* The generic block device of io/kblock.c: a device seen through a window *)
(* of its blocks (kblock_trim) and, when it is buffered, through a page    *)
(* buffer that holds one block and is stored back when another is needed.  *)
(*                                                                         *)
(* A call runs to its end in one process, so each is one action; what is   *)
(* not determined is how much of a block the driver moves before it fails. *)
(* A driver reports the number of bytes it moved (writeDirect, readDirect) *)
(* and kblock_swLoad and kblock_swStore turn anything but a whole block    *)
(* into EOF: a parameter s or l is that number for a store or a load.      *)
(***************************************************************************)
EXTENDS Integers

CONSTANTS NBlocks,    \* blocks of the device
          BlkSize,    \* bytes of a block
          Byte,       \* what a byte can hold
          StoreFails, \* the device may fail to write
          LoadFails   \* the device may fail to read a block into the buffer

ASSUME KBlockAssumption ==
  /\ NBlocks \in Nat \ {0}
  /\ BlkSize \in Nat \ {0}
  /\ {StoreFails, LoadFails} \subseteq BOOLEAN

VARIABLES buffered,   \* the flag KB_BUFFERED, set by the constructor for good
          dev,        \* dev[n][o]: byte o of physical block n
          buf,        \* priv.buf
          curr_blk,   \* priv.curr_blk, a logical index
          dirty,      \* the flag KB_CACHE_DIRTY
          blk_start,  \* priv.blk_start
          blk_cnt,    \* blk_cnt
          content     \* ghost: what the calls so far make the logical blocks hold

vars == <<buffered, dev, buf, curr_blk, dirty, blk_start, blk_cnt, content>>

Offset == 0 .. BlkSize - 1
Block == [Offset -> Byte]
Logical == 0 .. blk_cnt - 1

StoreResults == IF StoreFails THEN 0 .. BlkSize ELSE {BlkSize}
LoadResults == IF LoadFails THEN 0 .. BlkSize ELSE {BlkSize}

(* The window stays within the device and the buffer holds a block of the  *)
(* window, although kblock_trim() changes the origin curr_blk counts from. *)
TypeOK ==
  /\ buffered \in BOOLEAN
  /\ dev \in [0 .. NBlocks - 1 -> Block]
  /\ buf \in Block
  /\ dirty \in BOOLEAN
  /\ blk_start \in 0 .. NBlocks - 1
  /\ blk_cnt \in 1 .. NBlocks - blk_start
  /\ curr_blk \in Logical
  /\ content \in [Logical -> Block]

(* kblockram_init() and the other constructors load block 0 into the page  *)
(* buffer.                                                                 *)
Init ==
  /\ buffered \in BOOLEAN
  /\ dev \in [0 .. NBlocks - 1 -> Block]
  /\ buf = dev[0]
  /\ curr_blk = 0
  /\ dirty = FALSE
  /\ blk_start = 0
  /\ blk_cnt = NBlocks
  /\ content = dev

(* The block old after bytes lo .. hi - 1 of new were moved over it.       *)
Over(old, new, lo, hi) ==
  [o \in Offset |-> IF o \in lo .. hi - 1 THEN new[o] ELSE old[o]]

---------------------------------------------------------------------------

(* The translation forgotten: fine until the device is trimmed.            *)
Phys_mutant(i) == i

(* Logical to physical, in kblock_readDirect(), kblock_writeDirect(),      *)
(* kblock_load() and kblock_store().                                       *)
Phys(i) == blk_start + i

(* kblock_read() of the whole of block i.                                  *)
kblock_read(i) == IF buffered /\ i = curr_blk THEN buf ELSE dev[Phys(i)]

(* kblock_store(): the driver gets s bytes of the buffer to the device.    *)
kblock_store(s) ==
  [dev EXCEPT ![Phys(curr_blk)] = Over(@, buf, 0, s)]

(* kblock_flush(); without changes in the buffer it does nothing.          *)
kblock_flush(s) ==
  /\ buffered /\ dirty
  /\ dev' = kblock_store(s)
  /\ dirty' = (s # BlkSize)
  /\ UNCHANGED <<buffered, buf, curr_blk, blk_start, blk_cnt>>

Page(ok, d, b, c, f) == [ok |-> ok, dev |-> d, buf |-> b, curr_blk |-> c, dirty |-> f]

(* A load that forgets the changes of the block it replaces.               *)
kblock_loadPage_mutant(i, s, l) ==
  IF i = curr_blk THEN Page(TRUE, dev, buf, curr_blk, dirty)
                  ELSE Page(TRUE, dev, dev[Phys(i)], i, FALSE)

(* kblock_loadPage(): what it returns, and what it leaves in the fields of *)
(* the device.  A failed store stops it before the load; a failed load has *)
(* overwritten the beginning of the buffer and leaves curr_blk alone.      *)
kblock_loadPage(i, s, l) ==
  IF i = curr_blk THEN Page(TRUE, dev, buf, curr_blk, dirty)
  ELSE IF dirty /\ s # BlkSize THEN Page(FALSE, kblock_store(s), buf, curr_blk, TRUE)
  ELSE LET stored == IF dirty THEN kblock_store(s) ELSE dev
           loaded == Over(buf, stored[Phys(i)], 0, l)
       IN  IF l = BlkSize THEN Page(TRUE, stored, loaded, i, FALSE)
                          ELSE Page(FALSE, stored, loaded, curr_blk, FALSE)

(* The number of bytes kblock_write() returns for bytes lo .. hi - 1.      *)
WriteLen(i, lo, hi, s, l) ==
  IF buffered THEN IF kblock_loadPage(i, s, l).ok THEN hi - lo ELSE 0
  ELSE IF s < hi - lo THEN s ELSE hi - lo

(* A buffered write that does not record the change.                       *)
kblock_write_mutant(i, lo, hi, data, s, l) ==
  LET page == kblock_loadPage(i, s, l) IN
  /\ dev' = page.dev
  /\ curr_blk' = page.curr_blk
  /\ buf' = IF page.ok THEN Over(page.buf, data, lo, hi) ELSE page.buf
  /\ dirty' = page.dirty
  /\ UNCHANGED <<buffered, blk_start, blk_cnt>>

(* kblock_write() of bytes lo .. hi - 1 of block i: into the buffer, or    *)
(* directly to the device, which may take only some of them.               *)
kblock_write(i, lo, hi, data, s, l) ==
  /\ IF buffered
     THEN LET page == kblock_loadPage(i, s, l) IN
          /\ dev' = page.dev
          /\ curr_blk' = page.curr_blk
          /\ buf' = IF page.ok THEN Over(page.buf, data, lo, hi) ELSE page.buf
          /\ dirty' = (page.ok \/ page.dirty)
     ELSE /\ dev' = [dev EXCEPT ![Phys(i)] =
                       Over(@, data, lo, lo + WriteLen(i, lo, hi, s, l))]
          /\ UNCHANGED <<buf, curr_blk, dirty>>
  /\ UNCHANGED <<buffered, blk_start, blk_cnt>>

(* kblock_copy(): buffered, the loaded source becomes the changed content  *)
(* of the destination; unbuffered, a chunk at a time until one fails.      *)
(* A source that is in the buffer already is not flushed: changes it has   *)
(* not stored go to the destination with the buffer.                       *)
kblock_copy(src, dest, s, l) ==
  /\ IF buffered
     THEN LET page == kblock_loadPage(src, s, l) IN
          /\ dev' = page.dev
          /\ buf' = page.buf
          /\ curr_blk' = IF page.ok THEN dest ELSE page.curr_blk
          /\ dirty' = (page.ok \/ page.dirty)
     ELSE /\ dev' = [dev EXCEPT ![Phys(dest)] =
                       Over(@, dev[Phys(src)], 0, s)]
          /\ UNCHANGED <<buf, curr_blk, dirty>>
  /\ UNCHANGED <<buffered, blk_start, blk_cnt>>

(* A trim that leaves the buffer on the block it held.                     *)
kblock_trim_mutant(start, count, s, l) ==
  /\ start + count <= blk_cnt
  /\ blk_start' = blk_start + start
  /\ curr_blk' = 0
  /\ blk_cnt' = count
  /\ UNCHANGED <<buffered, dev, buf, dirty>>

(* A trim that forgets that curr_blk counts from the start of the window.  *)
kblock_trim_keeps(start, count, s, l) ==
  /\ start + count <= blk_cnt
  /\ blk_start' = blk_start + start
  /\ blk_cnt' = count
  /\ UNCHANGED <<buffered, dev, buf, curr_blk, dirty>>

(* kblock_trim(): the first block of the new window is brought into the    *)
(* buffer, so that the buffer never holds a block outside the window.      *)
kblock_trim(start, count, s, l) ==
  /\ start + count <= blk_cnt
  /\ LET page == IF buffered THEN kblock_loadPage(start, s, l)
                             ELSE Page(TRUE, dev, buf, curr_blk, dirty)
     IN  /\ dev' = page.dev
         /\ buf' = page.buf
         /\ dirty' = page.dirty
         /\ blk_start' = IF page.ok THEN blk_start + start ELSE blk_start
         /\ curr_blk' = IF page.ok THEN 0 ELSE page.curr_blk
         /\ blk_cnt' = IF page.ok THEN count ELSE blk_cnt
  /\ UNCHANGED buffered

---------------------------------------------------------------------------

(* The contract of a block device: an array of blocks.  A call changes it  *)
(* by the number of bytes it reports, from the first one on.               *)
Written(i, lo, n, data) ==
  content' = [content EXCEPT ![i] = Over(@, data, lo, lo + n)]

(* The exception.  kblock.h says that the content of the source is copied; *)
(* a source with changes that are only in the buffer gives them away with  *)
(* it, and is left with what the device has of it.                         *)
Unstored(i) == buffered /\ dirty /\ i = curr_blk

Copied(src, dest, n) ==
  LET left == IF Unstored(src) THEN [content EXCEPT ![src] = dev[Phys(src)]] ELSE content
  IN  content' = [left EXCEPT ![dest] = Over(content[dest], content[src], 0, n)]

Trimmed(start, count) == content' = [i \in 0 .. count - 1 |-> content[start + i]]

(* The bytes of the source that are in the destination after the call.     *)
CopyLen(src, s, l) ==
  IF buffered THEN IF kblock_loadPage(src, s, l).ok THEN BlkSize ELSE 0 ELSE s

Flush == \E s \in StoreResults : kblock_flush(s) /\ UNCHANGED content

Write ==
  \E s \in StoreResults, l \in LoadResults,
     i \in Logical, lo \in Offset, hi \in 1 .. BlkSize, data \in Block :
       /\ lo < hi
       /\ kblock_write(i, lo, hi, data, s, l)
       /\ Written(i, lo, WriteLen(i, lo, hi, s, l), data)

Copy ==
  \E s \in StoreResults, l \in LoadResults, src, dest \in Logical :
    kblock_copy(src, dest, s, l) /\ Copied(src, dest, CopyLen(src, s, l))

Trim ==
  \E s \in StoreResults, l \in LoadResults, start \in Logical, count \in 1 .. blk_cnt :
    /\ kblock_trim(start, count, s, l)
    /\ IF buffered => kblock_loadPage(start, s, l).ok
       THEN Trimmed(start, count) ELSE UNCHANGED content

Next == Flush \/ Write \/ Copy \/ Trim

Spec == Init /\ [][Next]_vars

---------------------------------------------------------------------------

(* kblock_cacheDirty() is false only if "the cache is clean and coherent   *)
(* with device content": what the buffer holds is then what the device     *)
(* has, so replacing it loses nothing.                                     *)
CleanIsCoherent ==
  buffered /\ ~dirty => buf = dev[blk_start + curr_blk]

(* A user that only calls kblock_read() cannot tell the device with its    *)
(* page buffer, its window and its failing driver from an array of blocks: *)
(* every read returns what was last written, whatever was flushed, loaded, *)
(* copied, trimmed or failed in between.  The one thing that undoes a      *)
(* write is kblock_copy() from a block whose changes are not stored yet    *)
(* (Copied): the block is read as the device has it from then on.          *)
ReadsBack == \A i \in Logical : kblock_read(i) = content[i]

(* What leaves the window with kblock_trim() is on the device: the blocks  *)
(* outside hold what a read of them returned, changes in the buffer too.   *)
TrimmedIsStored ==
  [][blk_cnt' # blk_cnt =>
       \A i \in Logical :
          blk_start + i \notin blk_start' .. blk_start' + blk_cnt' - 1
            => dev'[blk_start + i] = content[i]]_vars

(* "The blocks outside this range are no more accessible": no call, and    *)
(* no store the buffer does on its own, changes a block outside the window.*)
OutsideUntouched ==
  [][\A n \in 0 .. NBlocks - 1 :
        n \notin blk_start .. blk_start + blk_cnt - 1 => dev'[n] = dev[n]]_vars
===========================================================================
