----------------------------- MODULE StorageProofs -----------------------------
(***************************************************************************)
(* What the program keeps on a device is what it wrote there.              *)
(*                                                                         *)
(* The block device with its page buffer is an array of blocks, and a call *)
(* of the file on top of it moves exactly the bytes it reports: for any    *)
(* number and size of the blocks, and wherever the driver stops short.     *)
(*                                                                         *)
(* Recoverable holds of Dli for every set of keys and texts and for every  *)
(* width of the counter, and StartsAsItRan of Config for every range of    *)
(* the variables.                                                          *)
(***************************************************************************)
EXTENDS KFileBlock, Config, TLAPS, SequenceTheorems

(* What moving bytes over a block gives: a block again, and the whole new  *)
(* block when all of it was moved.                                         *)
LEMMA OverType ==
  ASSUME NEW old \in Block, NEW new, NEW lo \in Int, NEW hi \in Int,
         \A o \in Offset : o \in lo .. hi - 1 => new[o] \in Byte
  PROVE  Over(old, new, lo, hi) \in Block
  BY DEF Over, Block

LEMMA OverWhole ==
  ASSUME NEW old \in Block, NEW new \in Block
  PROVE  Over(old, new, 0, BlkSize) = new
<1>1. \A o \in Offset : Over(old, new, 0, BlkSize)[o] = new[o]
  BY KBlockAssumption DEF Over, Offset, KBlockAssumption
<1> QED
  BY <1>1 DEF Over, Block

(* The blocks a user can name are blocks of the device, each its own.      *)
LEMMA PhysInWindow ==
  ASSUME TypeOK, NEW i \in Logical
  PROVE  /\ Phys(i) \in 0 .. NBlocks - 1
         /\ Phys(i) \in blk_start .. blk_start + blk_cnt - 1
         /\ \A j \in Logical : Phys(j) = Phys(i) => j = i
  BY KBlockAssumption DEF TypeOK, Logical, Phys, KBlockAssumption

LEMMA ResultTypes ==
  /\ \A s \in StoreResults : s \in 0 .. BlkSize
  /\ \A l \in LoadResults : l \in 0 .. BlkSize
  /\ ~LoadFails => LoadResults = {BlkSize}
  BY KBlockAssumption DEF StoreResults, LoadResults, KBlockAssumption

(* kblock_store() changes the block the buffer is for, and no other.       *)
LEMMA Stores ==
  ASSUME TypeOK, NEW s \in 0 .. BlkSize
  PROVE  /\ kblock_store(s) \in [0 .. NBlocks - 1 -> Block]
         /\ \A n \in 0 .. NBlocks - 1 : n # Phys(curr_blk) => kblock_store(s)[n] = dev[n]
         /\ s = BlkSize => kblock_store(s)[Phys(curr_blk)] = buf
<1>1. /\ dev \in [0 .. NBlocks - 1 -> Block]
      /\ buf \in Block
      /\ Phys(curr_blk) \in 0 .. NBlocks - 1
  BY PhysInWindow DEF TypeOK
<1>2. Over(dev[Phys(curr_blk)], buf, 0, s) \in Block
  <2>1. dev[Phys(curr_blk)] \in Block /\ 0 \in Int /\ s \in Int /\ \A o \in Offset : buf[o] \in Byte
    BY <1>1, KBlockAssumption DEF Block, KBlockAssumption
  <2> QED
    BY <2>1, OverType
<1>3. s = BlkSize => Over(dev[Phys(curr_blk)], buf, 0, s) = buf
  BY <1>1, OverWhole
<1> QED
  BY <1>1, <1>2, <1>3 DEF kblock_store

-----------------------------------------------------------------------------
(* What kblock_loadPage() leaves in the device, and what is read from it.  *)
PageType(page) ==
  /\ page.ok \in BOOLEAN
  /\ page.dev \in [0 .. NBlocks - 1 -> Block]
  /\ page.buf \in Block
  /\ page.curr_blk \in Logical
  /\ page.dirty \in BOOLEAN

PageReads(page) ==
  /\ \A j \in Logical :
       (IF j = page.curr_blk THEN page.buf ELSE page.dev[Phys(j)]) = content[j]
  /\ ~page.dirty => page.buf = page.dev[Phys(page.curr_blk)]

PageOutside(page) ==
  \A n \in 0 .. NBlocks - 1 :
    n \notin blk_start .. blk_start + blk_cnt - 1 => page.dev[n] = dev[n]

(* Also when the store or the load fails.                                  *)
LEMMA LoadPageType ==
  ASSUME TypeOK, NEW i \in Logical, NEW s \in StoreResults, NEW l \in LoadResults
  PROVE  LET page == kblock_loadPage(i, s, l)
         IN  /\ PageType(page) /\ PageOutside(page)
             /\ page.ok => page.curr_blk = i
<1>1. /\ s \in 0 .. BlkSize /\ l \in 0 .. BlkSize
      /\ kblock_store(s) \in [0 .. NBlocks - 1 -> Block]
      /\ \A n \in 0 .. NBlocks - 1 : n # Phys(curr_blk) => kblock_store(s)[n] = dev[n]
  BY ResultTypes, Stores
<1>2. /\ dev \in [0 .. NBlocks - 1 -> Block] /\ buf \in Block
      /\ curr_blk \in Logical /\ dirty \in BOOLEAN
  BY DEF TypeOK
<1>3. Phys(curr_blk) \in blk_start .. blk_start + blk_cnt - 1 /\ Phys(i) \in 0 .. NBlocks - 1
  BY <1>2, PhysInWindow
<1>4. ASSUME NEW d \in [0 .. NBlocks - 1 -> Block]
      PROVE  Over(buf, d[Phys(i)], 0, l) \in Block
  <2>1. d[Phys(i)] \in Block
    BY <1>3
  <2>2. \A o \in Offset : d[Phys(i)][o] \in Byte
    BY <2>1 DEF Block
  <2> QED
    BY <1>1, <1>2, <2>2, OverType
<1>5. CASE i = curr_blk
  BY <1>2, <1>5 DEF kblock_loadPage, Page, PageType, PageOutside
<1>6. CASE i # curr_blk /\ dirty /\ s # BlkSize
  BY <1>1, <1>2, <1>3, <1>6 DEF kblock_loadPage, Page, PageType, PageOutside
<1>7. CASE i # curr_blk /\ ~(dirty /\ s # BlkSize)
  <2> DEFINE stored == IF dirty THEN kblock_store(s) ELSE dev
  <2>1. /\ stored \in [0 .. NBlocks - 1 -> Block]
        /\ \A n \in 0 .. NBlocks - 1 : n # Phys(curr_blk) => stored[n] = dev[n]
    BY <1>1, <1>2
  <2>2. kblock_loadPage(i, s, l) =
          IF l = BlkSize THEN Page(TRUE, stored, Over(buf, stored[Phys(i)], 0, l), i, FALSE)
                         ELSE Page(FALSE, stored, Over(buf, stored[Phys(i)], 0, l), curr_blk, FALSE)
    BY <1>7, Zenon DEF kblock_loadPage
  <2> HIDE DEF stored
  <2>3. PICK b \in Block : b = Over(buf, stored[Phys(i)], 0, l)
    BY <1>4, <2>1, Zenon
  <2>4. kblock_loadPage(i, s, l) = IF l = BlkSize THEN Page(TRUE, stored, b, i, FALSE)
                                                  ELSE Page(FALSE, stored, b, curr_blk, FALSE)
    BY <2>2, <2>3
  <2> QED
    BY <1>2, <1>3, <2>1, <2>4 DEF Page, PageType, PageOutside
<1> QED
  BY <1>5, <1>6, <1>7

(* The blocks still read as they did, when no load fails.                  *)
LEMMA LoadPageReads ==
  ASSUME ~LoadFails, TypeOK, ReadsBack, CleanIsCoherent, buffered,
         NEW i \in Logical, NEW s \in StoreResults, NEW l \in LoadResults
  PROVE  LET page == kblock_loadPage(i, s, l)
         IN  /\ PageReads(page)
             /\ page.ok /\ i # curr_blk => ~page.dirty
<1>1. /\ s \in 0 .. BlkSize /\ l = BlkSize
      /\ \A n \in 0 .. NBlocks - 1 : n # Phys(curr_blk) => kblock_store(s)[n] = dev[n]
      /\ s = BlkSize => kblock_store(s)[Phys(curr_blk)] = buf
      /\ kblock_store(s) \in [0 .. NBlocks - 1 -> Block]
  BY ResultTypes, Stores
<1>2. /\ dev \in [0 .. NBlocks - 1 -> Block] /\ buf \in Block
      /\ curr_blk \in Logical /\ dirty \in BOOLEAN
  BY DEF TypeOK
<1>3. \A j \in Logical : Phys(j) \in 0 .. NBlocks - 1 /\ (Phys(j) = Phys(curr_blk) => j = curr_blk)
  BY <1>2, PhysInWindow
<1>4. /\ buf = content[curr_blk]
      /\ \A j \in Logical : j # curr_blk => dev[Phys(j)] = content[j]
      /\ ~dirty => buf = dev[Phys(curr_blk)]
  BY <1>2 DEF ReadsBack, kblock_read, CleanIsCoherent, Phys
<1>5. CASE i = curr_blk
  BY <1>4, <1>5 DEF kblock_loadPage, Page, PageReads
<1>6. CASE i # curr_blk /\ dirty /\ s # BlkSize
  BY <1>1, <1>3, <1>4, <1>6 DEF kblock_loadPage, Page, PageReads
<1>7. CASE i # curr_blk /\ ~(dirty /\ s # BlkSize)
  <2> DEFINE stored == IF dirty THEN kblock_store(s) ELSE dev
  <2>1. \A j \in Logical : stored[Phys(j)] = content[j]
    BY <1>1, <1>2, <1>3, <1>4, <1>7
  <2>2. stored[Phys(i)] \in Block
    BY <1>1, <1>2, <1>3
  <2>3. kblock_loadPage(i, s, l) = Page(TRUE, stored, Over(buf, stored[Phys(i)], 0, BlkSize), i, FALSE)
    BY <1>1, <1>7, Zenon DEF kblock_loadPage
  <2> HIDE DEF stored
  <2>4. Over(buf, stored[Phys(i)], 0, BlkSize) = stored[Phys(i)]
    BY <1>2, <2>2, OverWhole
  <2> QED
    BY <2>1, <2>3, <2>4 DEF Page, PageReads
<1> QED
  BY <1>5, <1>6, <1>7

-----------------------------------------------------------------------------
(* No call, and no store the buffer does on its own, changes a block       *)
(* outside the window.                                                     *)
Outside ==
  \A n \in 0 .. NBlocks - 1 :
    n \notin blk_start .. blk_start + blk_cnt - 1 => dev'[n] = dev[n]

LEMMA OverNothing ==
  ASSUME NEW old \in Block, NEW new, NEW lo \in Int
  PROVE  Over(old, new, lo, lo) = old
<1>1. \A o \in Offset : Over(old, new, lo, lo)[o] = old[o]
  BY KBlockAssumption DEF Over, Offset, KBlockAssumption
<1> QED
  BY <1>1 DEF Over, Block

(* kblock_flush() does not change what is read.                            *)
LEMMA FlushStep ==
  ASSUME TypeOK, NEW s \in StoreResults, kblock_flush(s), UNCHANGED content
  PROVE  /\ TypeOK' /\ Outside
         /\ ReadsBack /\ CleanIsCoherent => ReadsBack' /\ CleanIsCoherent'
<1>1. /\ s \in 0 .. BlkSize /\ curr_blk \in Logical /\ buf \in Block
      /\ \A n \in 0 .. NBlocks - 1 : n # Phys(curr_blk) => kblock_store(s)[n] = dev[n]
      /\ s = BlkSize => kblock_store(s)[Phys(curr_blk)] = buf
      /\ kblock_store(s) \in [0 .. NBlocks - 1 -> Block]
  BY ResultTypes, Stores DEF TypeOK
<1>2. \A j \in Logical : /\ Phys(j) \in 0 .. NBlocks - 1
                         /\ Phys(j) \in blk_start .. blk_start + blk_cnt - 1
                         /\ (Phys(j) = Phys(curr_blk) => j = curr_blk)
  BY <1>1, PhysInWindow
<1>3. /\ dev' = kblock_store(s) /\ dirty' = (s # BlkSize) /\ buffered
      /\ UNCHANGED <<buffered, buf, curr_blk, blk_start, blk_cnt, content>>
  BY DEF kblock_flush
<1>4. TypeOK'
  BY <1>1, <1>3 DEF TypeOK, Logical
<1>5. Outside
  BY <1>1, <1>2, <1>3 DEF Outside
<1>6. ASSUME ReadsBack
      PROVE  ReadsBack'
  <2>1. ASSUME NEW j \in Logical
        PROVE  kblock_read(j)' = kblock_read(j)
    BY <1>1, <1>2, <1>3 DEF kblock_read, Phys
  <2> QED
    BY <1>3, <1>6, <2>1 DEF ReadsBack, Logical
<1>7. CleanIsCoherent'
  BY <1>1, <1>3, Zenon DEF CleanIsCoherent, Phys
<1> QED
  BY <1>4, <1>5, <1>6, <1>7

(* The arguments of kblock_write(), and what it returns.                   *)
LEMMA WriteLenRange ==
  ASSUME TypeOK, NEW i, NEW lo \in Offset, NEW hi \in 1 .. BlkSize, lo < hi,
         NEW s \in StoreResults, NEW l \in LoadResults
  PROVE  WriteLen(i, lo, hi, s, l) \in 0 .. hi - lo
<1>1. s \in Nat /\ lo \in Nat /\ hi \in Nat /\ hi - lo \in Nat
  BY ResultTypes, KBlockAssumption DEF Offset, KBlockAssumption
<1>2. WriteLen(i, lo, hi, s, l) \in {hi - lo, 0} \/ (WriteLen(i, lo, hi, s, l) = s /\ s < hi - lo)
  BY DEF WriteLen
<1> QED
  BY <1>1, <1>2

LEMMA WriteType ==
  ASSUME TypeOK, NEW i \in Logical, NEW lo \in Offset, NEW hi \in 1 .. BlkSize, lo < hi,
         NEW bytes, \A o \in lo .. hi - 1 : bytes[o] \in Byte,
         NEW s \in StoreResults, NEW l \in LoadResults,
         kblock_write(i, lo, hi, bytes, s, l), Written(i, lo, WriteLen(i, lo, hi, s, l), bytes)
  PROVE  TypeOK' /\ Outside
<1>1. PICK n \in 0 .. hi - lo : n = WriteLen(i, lo, hi, s, l)
  BY WriteLenRange
<1>2. ASSUME NEW old \in Block, NEW to \in lo .. hi
      PROVE  Over(old, bytes, lo, to) \in Block
  <2>1. lo \in Int /\ to \in Int /\ \A o \in Offset : o \in lo .. to - 1 => bytes[o] \in Byte
    BY <1>2, KBlockAssumption DEF Offset, KBlockAssumption
  <2> QED
    BY <2>1, OverType
<1>3. lo + n \in lo .. hi /\ hi \in lo .. hi
  BY <1>1, KBlockAssumption DEF Offset, KBlockAssumption
<1>4. content' \in [Logical -> Block]
  BY <1>1, <1>2, <1>3 DEF Written, TypeOK
<1>5. Phys(i) \in 0 .. NBlocks - 1 /\ Phys(i) \in blk_start .. blk_start + blk_cnt - 1
  BY PhysInWindow
<1>6. UNCHANGED <<buffered, blk_start, blk_cnt>>
  BY DEF kblock_write
<1>7. CASE buffered
  <2>1. PICK page : page = kblock_loadPage(i, s, l)
    OBVIOUS
  <2>2. PageType(page) /\ PageOutside(page)
    BY <2>1, LoadPageType
  <2>3. /\ dev' = page.dev /\ curr_blk' = page.curr_blk
        /\ buf' = IF page.ok THEN Over(page.buf, bytes, lo, hi) ELSE page.buf
        /\ dirty' = (page.ok \/ page.dirty)
    BY <1>7, <2>1 DEF kblock_write
  <2>4. Over(page.buf, bytes, lo, hi) \in Block
    BY <1>2, <1>3, <2>2 DEF PageType
  <2>5. TypeOK'
    BY <1>4, <1>6, <2>2, <2>3, <2>4, Zenon DEF TypeOK, PageType, Logical
  <2> QED
    BY <2>2, <2>3, <2>5 DEF Outside, PageOutside
<1>8. CASE ~buffered
  <2>1. /\ dev' = [dev EXCEPT ![Phys(i)] = Over(@, bytes, lo, lo + n)]
        /\ UNCHANGED <<buf, curr_blk, dirty>>
    BY <1>1, <1>8 DEF kblock_write
  <2>2. Over(dev[Phys(i)], bytes, lo, lo + n) \in Block
    BY <1>2, <1>3, <1>5 DEF TypeOK
  <2>3. TypeOK'
    BY <1>4, <1>6, <2>1, <2>2, Zenon DEF TypeOK, Logical
  <2> QED
    BY <1>5, <2>1, <2>3 DEF Outside, TypeOK
<1> QED
  BY <1>7, <1>8

LEMMA WriteReads ==
  ASSUME ~LoadFails, TypeOK, ReadsBack, CleanIsCoherent,
         NEW i \in Logical, NEW lo \in Offset, NEW hi \in 1 .. BlkSize, lo < hi, NEW bytes,
         NEW s \in StoreResults, NEW l \in LoadResults,
         kblock_write(i, lo, hi, bytes, s, l), Written(i, lo, WriteLen(i, lo, hi, s, l), bytes)
  PROVE  ReadsBack' /\ CleanIsCoherent'
<1>1. UNCHANGED <<buffered, blk_start, blk_cnt>>
  BY DEF kblock_write
<1>2. /\ content \in [Logical -> Block]
      /\ content' = [content EXCEPT ![i] = Over(@, bytes, lo, lo + WriteLen(i, lo, hi, s, l))]
  BY DEF Written, TypeOK
<1>3. lo \in Int /\ hi \in Int
  BY KBlockAssumption DEF Offset, KBlockAssumption
<1>4. CASE buffered
  <2>1. PICK page : page = kblock_loadPage(i, s, l)
    OBVIOUS
  <2>2. /\ PageReads(page) /\ page.ok \in BOOLEAN /\ (page.ok => page.curr_blk = i)
        /\ page.curr_blk \in Logical
    BY <1>4, <2>1, LoadPageReads, LoadPageType DEF PageType
  <2>3. /\ dev' = page.dev /\ curr_blk' = page.curr_blk
        /\ buf' = IF page.ok THEN Over(page.buf, bytes, lo, hi) ELSE page.buf
        /\ dirty' = (page.ok \/ page.dirty)
    BY <1>4, <2>1 DEF kblock_write
  <2>4. CASE page.ok
    <3>1. content' = [content EXCEPT ![i] = Over(@, bytes, lo, hi)]
      BY <1>2, <1>3, <1>4, <2>1, <2>4 DEF WriteLen
    <3>2. page.buf = content[i] /\ \A j \in Logical : j # i => page.dev[Phys(j)] = content[j]
      BY <2>2, <2>4 DEF PageReads
    <3>3. ASSUME NEW j \in Logical
          PROVE  kblock_read(j)' = content'[j]
      BY <1>1, <1>2, <1>4, <2>2, <2>3, <2>4, <3>1, <3>2 DEF kblock_read, Phys
    <3> QED
      BY <1>1, <2>3, <2>4, <3>3, Zenon DEF ReadsBack, CleanIsCoherent, Logical
  <2>5. CASE ~page.ok
    <3>1. content' = content
      BY <1>2, <1>3, <1>4, <2>1, <2>5, OverNothing DEF WriteLen
    <3>2. ASSUME NEW j \in Logical
          PROVE  kblock_read(j)' = content'[j]
      BY <1>1, <1>4, <2>2, <2>3, <2>5, <3>1 DEF kblock_read, Phys, PageReads
    <3> QED
      BY <1>1, <2>2, <2>3, <2>5, <3>2, Zenon DEF ReadsBack, CleanIsCoherent, Logical, PageReads, Phys
  <2> QED
    BY <2>2, <2>4, <2>5
<1>5. CASE ~buffered
  <2>1. dev' = [dev EXCEPT ![Phys(i)] = Over(@, bytes, lo, lo + WriteLen(i, lo, hi, s, l))]
    BY <1>5 DEF kblock_write
  <2>2. \A j \in Logical : Phys(j) \in 0 .. NBlocks - 1 /\ (Phys(j) = Phys(i) => j = i)
    BY PhysInWindow
  <2>3. \A j \in Logical : dev[Phys(j)] = content[j]
    BY <1>5 DEF ReadsBack, kblock_read
  <2>4. \A j \in Logical : dev'[Phys(j)] = content'[j]
    BY <1>2, <2>1, <2>2, <2>3 DEF TypeOK
  <2> QED
    BY <1>1, <1>5, <2>4 DEF ReadsBack, kblock_read, Logical, Phys, CleanIsCoherent
<1> QED
  BY <1>4, <1>5

(* kblock_copy() of one block over another.                                *)
LEMMA CopyType ==
  ASSUME TypeOK, NEW src \in Logical, NEW dest \in Logical,
         NEW s \in StoreResults, NEW l \in LoadResults,
         kblock_copy(src, dest, s, l), Copied(src, dest, CopyLen(src, s, l))
  PROVE  TypeOK' /\ Outside /\ blk_cnt' = blk_cnt
<1>1. s \in 0 .. BlkSize /\ UNCHANGED <<buffered, blk_start, blk_cnt>>
  BY ResultTypes DEF kblock_copy
<1>2. ASSUME NEW old \in Block, NEW new \in Block, NEW n \in 0 .. BlkSize
      PROVE  Over(old, new, 0, n) \in Block
  <2>1. 0 \in Int /\ n \in Int /\ \A o \in Offset : new[o] \in Byte
    BY KBlockAssumption DEF Block, KBlockAssumption
  <2> QED
    BY <2>1, OverType
<1>3. CopyLen(src, s, l) \in 0 .. BlkSize
  BY <1>1, KBlockAssumption DEF CopyLen, KBlockAssumption
<1>5. /\ Phys(src) \in 0 .. NBlocks - 1 /\ Phys(dest) \in 0 .. NBlocks - 1
      /\ Phys(dest) \in blk_start .. blk_start + blk_cnt - 1
  BY PhysInWindow
<1>4. content' \in [Logical -> Block]
  <2>1. PICK left :
          /\ left = IF Unstored(src) THEN [content EXCEPT ![src] = dev[Phys(src)]] ELSE content
          /\ content' = [left EXCEPT ![dest] = Over(content[dest], content[src], 0, CopyLen(src, s, l))]
    BY Zenon DEF Copied
  <2>2. content \in [Logical -> Block] /\ dev[Phys(src)] \in Block
    BY <1>5 DEF TypeOK
  <2>3. left \in [Logical -> Block]
    BY <2>1, <2>2
  <2>4. Over(content[dest], content[src], 0, CopyLen(src, s, l)) \in Block
    BY <1>2, <1>3, <2>2
  <2> QED
    BY <2>1, <2>3, <2>4
<1>6. CASE buffered
  <2>1. PICK page : page = kblock_loadPage(src, s, l)
    OBVIOUS
  <2>2. PageType(page) /\ PageOutside(page)
    BY <2>1, LoadPageType
  <2>3. /\ dev' = page.dev /\ buf' = page.buf
        /\ curr_blk' = IF page.ok THEN dest ELSE page.curr_blk
        /\ dirty' = (page.ok \/ page.dirty)
    BY <1>6, <2>1 DEF kblock_copy
  <2>4. TypeOK'
    BY <1>1, <1>4, <2>2, <2>3 DEF TypeOK, PageType, Logical
  <2> QED
    BY <1>1, <2>2, <2>3, <2>4 DEF Outside, PageOutside
<1>7. CASE ~buffered
  <2>1. /\ dev' = [dev EXCEPT ![Phys(dest)] = Over(@, dev[Phys(src)], 0, s)]
        /\ UNCHANGED <<buf, curr_blk, dirty>>
    BY <1>7 DEF kblock_copy
  <2>2. Over(dev[Phys(dest)], dev[Phys(src)], 0, s) \in Block
    BY <1>1, <1>2, <1>5 DEF TypeOK
  <2>3. TypeOK'
    BY <1>1, <1>4, <2>1, <2>2, Zenon DEF TypeOK, Logical
  <2> QED
    BY <1>1, <1>5, <2>1, <2>3 DEF Outside, TypeOK
<1> QED
  BY <1>6, <1>7

LEMMA CopyReads ==
  ASSUME ~LoadFails, TypeOK, ReadsBack, CleanIsCoherent,
         NEW src \in Logical, NEW dest \in Logical,
         NEW s \in StoreResults, NEW l \in LoadResults,
         kblock_copy(src, dest, s, l), Copied(src, dest, CopyLen(src, s, l))
  PROVE  ReadsBack' /\ CleanIsCoherent'
<1>1. s \in 0 .. BlkSize /\ UNCHANGED <<buffered, blk_start, blk_cnt>>
  BY ResultTypes DEF kblock_copy
<1>2. /\ content \in [Logical -> Block]
      /\ ~Unstored(src) =>
           content' = [content EXCEPT ![dest] = Over(content[dest], content[src], 0, CopyLen(src, s, l))]
  BY Zenon DEF Copied, TypeOK
<1>5. CASE Unstored(src)
  <2>1. /\ dev' = dev /\ buf' = buf /\ curr_blk' = dest /\ dirty' /\ buffered' /\ src = curr_blk
        /\ CopyLen(src, s, l) = BlkSize
    <3>1. buffered /\ dirty /\ src = curr_blk
      BY <1>5, Zenon DEF Unstored
    <3>2. PICK page : page = kblock_loadPage(src, s, l)
      OBVIOUS
    <3>3. page.ok /\ page.dev = dev /\ page.buf = buf
      BY <3>1, <3>2 DEF kblock_loadPage, Page
    <3>4. /\ dev' = page.dev /\ buf' = page.buf
          /\ curr_blk' = IF page.ok THEN dest ELSE page.curr_blk
          /\ dirty' = (page.ok \/ page.dirty)
      BY <3>1, <3>2, Zenon DEF kblock_copy
    <3> QED
      BY <1>1, <3>1, <3>2, <3>3, <3>4, Zenon DEF CopyLen
  <2>2. PICK left :
          /\ left = [content EXCEPT ![src] = dev[Phys(src)]]
          /\ content' = [left EXCEPT ![dest] = Over(content[dest], content[src], 0, CopyLen(src, s, l))]
    BY <1>5, Zenon DEF Copied
  <2>3. Over(content[dest], content[src], 0, CopyLen(src, s, l)) = content[src]
    BY <1>2, <2>1, OverWhole, Zenon
  <2>4. \A j \in Logical : content'[j] = IF j = dest THEN content[src]
                                         ELSE IF j = src THEN dev[Phys(src)] ELSE content[j]
    BY <1>2, <2>2, <2>3, Zenon
  <2>5. buf = content[src] /\ \A j \in Logical : j # src => dev[Phys(j)] = content[j]
    BY <1>5, <2>1, Zenon DEF ReadsBack, kblock_read, Unstored
  <2>6. ASSUME NEW j \in Logical
        PROVE  kblock_read(j)' = content'[j]
    BY <1>1, <2>1, <2>4, <2>5, Zenon DEF kblock_read, Phys
  <2> QED
    BY <1>1, <2>1, <2>6, Zenon DEF ReadsBack, CleanIsCoherent, Logical
<1>3. CASE buffered /\ ~Unstored(src)
  <2>1. PICK page : page = kblock_loadPage(src, s, l)
    OBVIOUS
  <2>2. /\ PageReads(page) /\ page.ok \in BOOLEAN /\ (page.ok => page.curr_blk = src)
        /\ page.curr_blk \in Logical /\ (page.ok /\ src # curr_blk => ~page.dirty)
    BY <1>3, <2>1, LoadPageReads, LoadPageType DEF PageType
  <2>3. /\ dev' = page.dev /\ buf' = page.buf
        /\ curr_blk' = IF page.ok THEN dest ELSE page.curr_blk
        /\ dirty' = (page.ok \/ page.dirty)
    BY <1>3, <2>1 DEF kblock_copy
  <2>4. CASE page.ok
    <3>1. content' = [content EXCEPT ![dest] = content[src]]
      <4>1. CopyLen(src, s, l) = BlkSize
        BY <1>3, <2>1, <2>4 DEF CopyLen
      <4> QED
        BY <1>2, <1>3, <4>1, OverWhole, Zenon
    <3>2. ~page.dirty
      <4>1. CASE src = curr_blk
        BY <1>3, <2>1, <4>1 DEF kblock_loadPage, Page, Unstored
      <4> QED
        BY <2>2, <2>4, <4>1
    <3>3. page.buf = content[src] /\ \A j \in Logical : page.dev[Phys(j)] = content[j]
      BY <2>2, <2>4, <3>2 DEF PageReads
    <3>4. ASSUME NEW j \in Logical
          PROVE  kblock_read(j)' = content'[j]
      BY <1>1, <1>2, <1>3, <2>3, <2>4, <3>1, <3>3 DEF kblock_read, Phys
    <3> QED
      BY <1>1, <2>3, <2>4, <3>4, Zenon DEF ReadsBack, CleanIsCoherent, Logical
  <2>5. CASE ~page.ok
    <3>1. content' = content
      BY <1>2, <1>3, <2>1, <2>5, OverNothing, SMTT(30) DEF CopyLen
    <3>2. ASSUME NEW j \in Logical
          PROVE  kblock_read(j)' = content'[j]
      BY <1>1, <1>3, <2>2, <2>3, <2>5, <3>1, SMTT(30) DEF kblock_read, Phys, PageReads
    <3> QED
      BY <1>1, <2>2, <2>3, <2>5, <3>2, Zenon DEF ReadsBack, CleanIsCoherent, Logical, PageReads, Phys
  <2> QED
    BY <2>2, <2>4, <2>5
<1>4. CASE ~buffered
  <2>5. ~Unstored(src)
    BY <1>4 DEF Unstored
  <2>1. /\ dev' = [dev EXCEPT ![Phys(dest)] = Over(@, dev[Phys(src)], 0, s)]
        /\ CopyLen(src, s, l) = s
    BY <1>4 DEF kblock_copy, CopyLen
  <2>2. \A j \in Logical : Phys(j) \in 0 .. NBlocks - 1 /\ (Phys(j) = Phys(dest) => j = dest)
    BY PhysInWindow
  <2>3. \A j \in Logical : dev[Phys(j)] = content[j]
    BY <1>4 DEF ReadsBack, kblock_read
  <2>4. \A j \in Logical : dev'[Phys(j)] = content'[j]
    BY <1>2, <2>1, <2>2, <2>3, <2>5 DEF TypeOK
  <2> QED
    BY <1>1, <1>4, <2>4, Zenon DEF ReadsBack, kblock_read, Logical, Phys, CleanIsCoherent
<1> QED
  BY <1>3, <1>4, <1>5

(* kblock_trim(): page is what it has brought into the buffer.             *)
TrimPage(start, s, l) ==
  IF buffered THEN kblock_loadPage(start, s, l) ELSE Page(TRUE, dev, buf, curr_blk, dirty)

LEMMA TrimPageFacts ==
  ASSUME TypeOK, NEW start \in Logical, NEW s \in StoreResults, NEW l \in LoadResults
  PROVE  LET page == TrimPage(start, s, l)
         IN  /\ PageType(page) /\ PageOutside(page)
             /\ buffered /\ page.ok => page.curr_blk = start
             /\ ~buffered => page = Page(TRUE, dev, buf, curr_blk, dirty)
<1>1. CASE buffered
  BY <1>1, LoadPageType DEF TrimPage
<1>2. CASE ~buffered
  BY <1>2 DEF TrimPage, Page, PageType, PageOutside, TypeOK
<1> QED
  BY <1>1, <1>2, Zenon

LEMMA TrimStep ==
  ASSUME NEW start, NEW cnt, NEW s, NEW l, NEW page, page = TrimPage(start, s, l),
         kblock_trim(start, cnt, s, l),
         IF buffered => kblock_loadPage(start, s, l).ok THEN Trimmed(start, cnt) ELSE UNCHANGED content
  PROVE  /\ start + cnt <= blk_cnt /\ buffered' = buffered
         /\ dev' = page.dev /\ buf' = page.buf /\ dirty' = page.dirty
         /\ page.ok => /\ blk_start' = blk_start + start /\ curr_blk' = 0 /\ blk_cnt' = cnt
                       /\ content' = [i \in 0 .. cnt - 1 |-> content[start + i]]
         /\ ~page.ok => /\ curr_blk' = page.curr_blk
                        /\ UNCHANGED <<blk_start, blk_cnt, content>>
<1>1. page.ok <=> (buffered => kblock_loadPage(start, s, l).ok)
  BY DEF TrimPage, Page
<1>2. page = IF buffered THEN kblock_loadPage(start, s, l)
             ELSE Page(TRUE, dev, buf, curr_blk, dirty)
  BY DEF TrimPage
<1> QED
  BY <1>1, <1>2, Zenon DEF kblock_trim, Trimmed

LEMMA TrimType ==
  ASSUME TypeOK, NEW start \in Logical, NEW cnt \in 1 .. blk_cnt,
         NEW s \in StoreResults, NEW l \in LoadResults,
         kblock_trim(start, cnt, s, l),
         IF buffered => kblock_loadPage(start, s, l).ok THEN Trimmed(start, cnt) ELSE UNCHANGED content
  PROVE  TypeOK' /\ Outside
<1>1. PICK page : page = TrimPage(start, s, l)
  OBVIOUS
<1>2. PageType(page) /\ PageOutside(page)
  BY <1>1, TrimPageFacts, Zenon
<1>3. /\ start + cnt <= blk_cnt /\ buffered' = buffered
      /\ dev' = page.dev /\ buf' = page.buf /\ dirty' = page.dirty
      /\ page.ok => /\ blk_start' = blk_start + start /\ curr_blk' = 0 /\ blk_cnt' = cnt
                    /\ content' = [i \in 0 .. cnt - 1 |-> content[start + i]]
      /\ ~page.ok => /\ curr_blk' = page.curr_blk
                     /\ UNCHANGED <<blk_start, blk_cnt, content>>
  BY <1>1, TrimStep
<1>4. CASE page.ok
  <2>1. \A i \in 0 .. cnt - 1 : start + i \in Logical
    BY <1>3, KBlockAssumption DEF Logical, TypeOK, KBlockAssumption
  <2>2. content' \in [0 .. cnt - 1 -> Block]
    BY <1>3, <1>4, <2>1 DEF TypeOK
  <2>3. /\ blk_start' \in 0 .. NBlocks - 1 /\ blk_cnt' \in 1 .. NBlocks - blk_start'
        /\ 0 \in 0 .. cnt - 1
    BY <1>3, <1>4, KBlockAssumption DEF Logical, TypeOK, KBlockAssumption
  <2>4. TypeOK'
    BY <1>2, <1>3, <1>4, <2>2, <2>3 DEF TypeOK, Logical, PageType
  <2> QED
    BY <1>2, <1>3, <2>4 DEF Outside, PageOutside
<1>5. CASE ~page.ok
  BY <1>2, <1>3, <1>5 DEF TypeOK, Logical, PageType, Outside, PageOutside
<1> QED
  BY <1>2, <1>4, <1>5 DEF PageType

(* Besides what is read from the window: what has left it is on the device.*)
LEMMA TrimReads ==
  ASSUME ~LoadFails, TypeOK, ReadsBack, CleanIsCoherent,
         NEW start \in Logical, NEW cnt \in 1 .. blk_cnt,
         NEW s \in StoreResults, NEW l \in LoadResults,
         kblock_trim(start, cnt, s, l),
         IF buffered => kblock_loadPage(start, s, l).ok THEN Trimmed(start, cnt) ELSE UNCHANGED content
  PROVE  /\ ReadsBack' /\ CleanIsCoherent'
         /\ blk_cnt' # blk_cnt =>
              \A i \in Logical :
                 blk_start + i \notin blk_start' .. blk_start' + blk_cnt' - 1
                   => dev'[blk_start + i] = content[i]
<1>1. PICK page : page = TrimPage(start, s, l)
  OBVIOUS
<1>2. /\ PageType(page) /\ (buffered /\ page.ok => page.curr_blk = start)
      /\ ~buffered => page = Page(TRUE, dev, buf, curr_blk, dirty)
  BY <1>1, TrimPageFacts, Zenon
<1>3. /\ start + cnt <= blk_cnt /\ buffered' = buffered
      /\ dev' = page.dev /\ buf' = page.buf /\ dirty' = page.dirty
      /\ page.ok => /\ blk_start' = blk_start + start /\ curr_blk' = 0 /\ blk_cnt' = cnt
                    /\ content' = [i \in 0 .. cnt - 1 |-> content[start + i]]
      /\ ~page.ok => /\ curr_blk' = page.curr_blk
                     /\ UNCHANGED <<blk_start, blk_cnt, content>>
  BY <1>1, TrimStep
<1>4. \A i \in 0 .. cnt - 1 :
         start + i \in Logical /\ blk_start + start + i = Phys(start + i)
  BY <1>3, KBlockAssumption DEF Logical, TypeOK, Phys, KBlockAssumption
<1>5. CASE buffered /\ page.ok
  <2>1. PageReads(page)
    BY <1>1, <1>5, LoadPageReads DEF TrimPage
  <2>2. /\ page.buf = content[start]
        /\ \A j \in Logical : j # start => page.dev[Phys(j)] = content[j]
        /\ ~page.dirty => page.buf = page.dev[Phys(start)]
    BY <1>2, <1>5, <2>1 DEF PageReads
  <2>3. ASSUME NEW i \in 0 .. cnt - 1
        PROVE  kblock_read(i)' = content'[i]
    <3>1. i = 0 => start + i = start
      BY KBlockAssumption DEF Logical, TypeOK, KBlockAssumption
    <3>2. i # 0 => start + i # start
      BY KBlockAssumption DEF Logical, TypeOK, KBlockAssumption
    <3> QED
      BY <1>3, <1>4, <1>5, <2>2, <3>1, <3>2 DEF kblock_read, Phys
  <2>4. CleanIsCoherent'
    <3>1. blk_start + start + 0 = Phys(start)
      BY KBlockAssumption DEF Logical, TypeOK, Phys, KBlockAssumption
    <3> QED
      BY <1>3, <1>5, <2>2, <3>1 DEF CleanIsCoherent
  <2>5. ASSUME NEW i \in Logical, blk_start + i \notin blk_start' .. blk_start' + blk_cnt' - 1
        PROVE  dev'[blk_start + i] = content[i]
    <3>1. i # start
      BY <1>3, <1>5, <2>5, KBlockAssumption DEF Logical, TypeOK, KBlockAssumption
    <3> QED
      BY <1>3, <2>2, <3>1 DEF Phys
  <2> QED
    BY <1>3, <1>5, <2>3, <2>4, <2>5 DEF ReadsBack, Logical
<1>6. CASE buffered /\ ~page.ok
  <2>1. PageReads(page)
    BY <1>1, <1>6, LoadPageReads DEF TrimPage
  <2>2. ASSUME NEW j \in Logical
        PROVE  kblock_read(j)' = content'[j]
    BY <1>3, <1>6, <2>1 DEF kblock_read, Phys, PageReads
  <2> QED
    BY <1>3, <1>6, <2>1, <2>2 DEF ReadsBack, CleanIsCoherent, Logical, PageReads, Phys
<1>7. CASE ~buffered
  <2>1. page.ok /\ dev' = dev /\ \A j \in Logical : dev[Phys(j)] = content[j]
    BY <1>2, <1>3, <1>7 DEF ReadsBack, kblock_read, Page
  <2>2. ASSUME NEW i \in 0 .. cnt - 1
        PROVE  kblock_read(i)' = content'[i]
    BY <1>3, <1>4, <1>7, <2>1 DEF kblock_read, Phys
  <2> QED
    BY <1>3, <1>7, <2>1, <2>2 DEF ReadsBack, CleanIsCoherent, Logical, Phys
<1> QED
  BY <1>5, <1>6, <1>7

-----------------------------------------------------------------------------
(* Positions of the file, and the blocks they are in.                      *)
LEMMA DivMod ==
  ASSUME NEW b \in Nat \ {0}, NEW p \in Nat
  PROVE  /\ p \div b \in Nat /\ p % b \in 0 .. b - 1
         /\ p = (p \div b) * b + (p % b)
  BY SMT

LEMMA DivLess ==
  ASSUME NEW b \in Nat \ {0}, NEW p \in Nat, NEW q \in Nat
  PROVE  (p < q * b) <=> (p \div b < q)
<1>1. /\ p \div b \in Nat /\ p % b \in 0 .. b - 1
      /\ p = (p \div b) * b + (p % b)
  BY DivMod, Zenon
<1>2. PICK d \in Nat, m \in 0 .. b - 1 : d = p \div b /\ p = d * b + m
  BY <1>1
<1>3. CASE d < q
  <2>1. PICK k \in Nat : q = d + 1 + k
    <3>1. q - d - 1 \in Nat /\ q = d + 1 + (q - d - 1)
      BY <1>2, <1>3
    <3> QED BY <3>1
  <2>2. q * b = d * b + b + k * b /\ k * b \in Nat /\ d * b \in Nat
    BY <2>1, <1>2
  <2> QED
    BY <1>2, <1>3, <2>2
<1>4. CASE ~(d < q)
  <2>1. PICK k \in Nat : d = q + k
    <3>1. d - q \in Nat /\ d = q + (d - q)
      BY <1>2, <1>4
    <3> QED BY <3>1
  <2>2. d * b = q * b + k * b /\ k * b \in Nat /\ q * b \in Nat
    BY <2>1, <1>2
  <2> QED
    BY <1>2, <1>4, <2>2
<1> QED
  BY <1>3, <1>4

LEMMA SameBlock ==
  ASSUME NEW b \in Nat \ {0}, NEW s \in Nat, NEW p \in Nat, NEW n \in 0 .. b - (s % b)
  PROVE  /\ p \div b = s \div b /\ s % b <= p % b /\ p % b < (s % b) + n
              <=> p \in s .. s + n - 1
         /\ p \div b = s \div b => (p % b) - (s % b) = p - s
<1>1. PICK d \in Nat, m \in 0 .. b - 1 : d = p \div b /\ m = p % b /\ p = d * b + m
  BY DivMod
<1>2. PICK e \in Nat, o \in 0 .. b - 1 : e = s \div b /\ o = s % b /\ s = e * b + o
  BY DivMod
<1>3. d * b \in Nat /\ e * b \in Nat
  BY <1>1, <1>2
<1>4. CASE d = e
  BY <1>1, <1>2, <1>3, <1>4
<1>5. CASE d # e
  <2>1. ~(p \in s .. s + n - 1)
    <3>1. CASE d < e
      <4>1. p < e * b
        BY <1>1, <1>2, <3>1, DivLess, Zenon
      <4> QED
        BY <1>2, <1>3, <4>1
    <3>2. CASE e < d
      <4>1. e + 1 \in Nat /\ ~(d < e + 1)
        BY <1>1, <1>2, <3>2
      <4>2. ~(p < (e + 1) * b)
        BY <1>1, <4>1, DivLess, Zenon
      <4>3. (e + 1) * b = e * b + b
        BY <1>2
      <4> QED
        BY <1>1, <1>2, <1>3, <4>2, <4>3
    <3>3. d < e \/ e < d
      BY <1>1, <1>2, <1>5
    <3> QED
      BY <3>1, <3>2, <3>3
  <2> QED
    BY <1>1, <1>2, <1>5, <2>1
<1> QED
  BY <1>4, <1>5

LEMMA InBlock ==
  ASSUME NEW b \in Nat \ {0}, NEW s \in Nat, NEW n \in 0 .. b - (s % b),
         NEW p \in Nat, p \in s .. s + n - 1
  PROVE  p \div b = s \div b /\ p % b = (s % b) + (p - s)
<1>1. p \div b = s \div b
  BY SameBlock, Zenon
<1>2. (p % b) - (s % b) = p - s
  BY <1>1, SameBlock, Zenon
<1>3. p % b \in Int /\ s % b \in Int
  BY DivMod
<1> QED
  BY <1>1, <1>2, <1>3

(* The running call: how far it is, and the bytes of a write it still has  *)
(* to move.                                                                *)
CallInv ==
  /\ seek_pos \in Nat
  /\ size \in Nat
  /\ dir \in {"none", "read", "write"}
  /\ dir # "none" => /\ size # 0
                     /\ at_call.pos \in 0 .. seek_pos
                     /\ at_call.pos # seek_pos => seek_pos <= FileSize
  /\ dir = "write" => data \in [1 .. len + size -> Byte]

LEMMA PosInBlock ==
  ASSUME TypeOK, NEW p \in Nat
  PROVE  /\ p \in Pos <=> p \div BlkSize \in Logical
         /\ p % BlkSize \in Offset
<1>1. BlkSize \in Nat \ {0} /\ blk_cnt \in Nat
  BY KBlockAssumption DEF TypeOK, KBlockAssumption
<1>2. (p < blk_cnt * BlkSize) <=> (p \div BlkSize < blk_cnt)
  BY <1>1, DivLess
<1>3. p \div BlkSize \in Nat /\ p % BlkSize \in 0 .. BlkSize - 1
  BY <1>1, DivMod, Zenon
<1>4. p \in Pos <=> p < blk_cnt * BlkSize
  BY <1>1 DEF Pos, FileSize
<1>5. p \div BlkSize \in Logical <=> p \div BlkSize < blk_cnt
  BY <1>1, <1>3 DEF Logical
<1> QED
  BY <1>2, <1>3, <1>4, <1>5 DEF Offset

(* One iteration of the loop moves bytes of one block, all in the file.    *)
LEMMA Iteration ==
  ASSUME TypeOK, CallInv, dir # "none", id < blk_cnt
  PROVE  /\ id \in Logical /\ offset \in Offset
         /\ count \in 1 .. BlkSize - offset /\ count <= size
         /\ offset + count \in 1 .. BlkSize /\ offset < offset + count
         /\ seek_pos + count <= FileSize
<1>1. BlkSize \in Nat \ {0} /\ blk_cnt \in Nat /\ seek_pos \in Nat /\ size \in Nat \ {0}
  BY KBlockAssumption DEF TypeOK, KBlockAssumption, CallInv
<1>2. id \in Nat /\ offset \in 0 .. BlkSize - 1
  BY <1>1, DivMod, Zenon DEF id, offset
<1>3. count \in 1 .. BlkSize - offset /\ count <= size
  BY <1>1, <1>2 DEF count
<1>4. PICK n \in 1 .. BlkSize - offset : n = count
  BY <1>3
<1>5. PICK p \in Nat : p = seek_pos + n - 1 /\ p \in seek_pos .. seek_pos + n - 1
  BY <1>1, <1>2, <1>4
<1>6. n \in 0 .. BlkSize - (seek_pos % BlkSize)
  BY <1>4 DEF offset
<1>7. p \div BlkSize = id
  <2>1. BlkSize \in Nat \ {0} /\ seek_pos \in Nat
    BY <1>1
  <2>2. p \div BlkSize = seek_pos \div BlkSize
    BY <2>1, <1>5, <1>6, InBlock, Zenon
  <2> QED
    BY <2>2 DEF id
<1>8. p < blk_cnt * BlkSize
  BY <1>1, <1>5, <1>7, DivLess
<1>9. blk_cnt * BlkSize \in Nat
  BY <1>1
<1> QED
  BY <1>1, <1>2, <1>3, <1>4, <1>5, <1>8, <1>9 DEF Logical, Offset, FileSize

(* The bytes of an iteration of a write are bytes of the caller.           *)
LEMMA IterationBytes ==
  ASSUME TypeOK, CallInv, dir = "write", id < blk_cnt, NEW o \in offset .. offset + count - 1
  PROVE  data[len + 1 + o - offset] \in Byte
<1>1. offset \in Offset /\ count \in 1 .. BlkSize - offset /\ count <= size /\ BlkSize \in Nat
  BY Iteration, KBlockAssumption DEF KBlockAssumption
<1>2. len \in Nat /\ size \in Nat /\ data \in [1 .. len + size -> Byte]
  BY DEF CallInv, len
<1>3. len + 1 + o - offset \in 1 .. len + size
  BY <1>1, <1>2, SMTT(30) DEF Offset
<1> QED
  BY <1>2, <1>3

LEMMA FileWriteStep ==
  ASSUME TypeOK, CallInv, NEW s \in StoreResults, NEW l \in LoadResults, KFILEBLOCK_write(s, l)
  PROVE  \E hi, ret, bytes :
           /\ hi \in 1 .. BlkSize /\ ret \in 0 .. count
           /\ hi = offset + count /\ offset < hi
           /\ \A o \in offset .. hi - 1 :
                bytes[o] = data[len + 1 + o - offset] /\ bytes[o] \in Byte
           /\ ret = WriteLen(id, offset, hi, s, l)
           /\ kblock_write(id, offset, hi, bytes, s, l)
           /\ Written(id, offset, ret, bytes)
           /\ Advance(ret)
<1> DEFINE bytes == [o \in offset .. offset + count - 1 |-> data[len + 1 + o - offset]]
           ret == WriteLen(id, offset, offset + count, s, l)
<1>1. dir = "write" /\ id < blk_cnt
  BY DEF KFILEBLOCK_write
<1>2. /\ id \in Logical /\ offset \in Offset /\ offset + count \in 1 .. BlkSize
      /\ offset < offset + count /\ count \in 1 .. BlkSize - offset
  BY <1>1, Iteration
<1>3. PICK hi \in 1 .. BlkSize : hi = offset + count /\ offset < hi /\ hi - offset = count
  BY <1>2, KBlockAssumption DEF Offset, KBlockAssumption
<1>4. WriteLen(id, offset, hi, s, l) \in 0 .. hi - offset
  BY <1>2, <1>3, WriteLenRange
<1>5. ASSUME NEW o \in offset .. hi - 1
      PROVE  bytes[o] = data[len + 1 + o - offset] /\ bytes[o] \in Byte
  <2>1. o \in offset .. offset + count - 1
    BY <1>2, <1>3, <1>5, KBlockAssumption DEF Offset, KBlockAssumption
  <2> QED
    BY <1>1, <2>1, IterationBytes
<1>6. /\ kblock_write(id, offset, hi, bytes, s, l)
      /\ Written(id, offset, ret, bytes) /\ Advance(ret)
  BY <1>3 DEF KFILEBLOCK_write
<1>7. ret = WriteLen(id, offset, hi, s, l)
  BY <1>3
<1> HIDE DEF bytes, ret
<1>8. ret \in 0 .. count
  BY <1>3, <1>4, <1>7
<1> QED
  BY <1>3, <1>5, <1>6, <1>7, <1>8

(* What moves the device from one state to another.                        *)
LEMMA DeviceType ==
  ASSUME TypeOK, Copy \/ Trim
  PROVE  TypeOK' /\ Outside
<1>1. CASE Copy
  BY <1>1, CopyType DEF Copy
<1>2. CASE Trim
  BY <1>2, TrimType DEF Trim
<1> QED
  BY <1>1, <1>2

(* An iteration that moved ret bytes.                                      *)
LEMMA AdvanceInv ==
  ASSUME TypeOK, CallInv, dir # "none", id < blk_cnt, NEW ret \in 0 .. count, Advance(ret),
         blk_cnt' = blk_cnt, dir = "write" => data' = data
  PROVE  CallInv'
<1>1. /\ seek_pos \in Nat /\ size \in Nat /\ dir \in {"read", "write"}
      /\ at_call.pos \in 0 .. seek_pos
      /\ dir = "write" => data \in [1 .. len + size -> Byte]
  BY DEF CallInv
<1>2. PICK cnt \in Nat : cnt = count /\ cnt <= size /\ seek_pos + cnt <= FileSize
  <2>1. /\ offset \in Offset /\ count \in 1 .. BlkSize - offset /\ count <= size
        /\ seek_pos + count <= FileSize
    BY Iteration
  <2>2. count \in Nat
    BY <2>1, KBlockAssumption DEF Offset, KBlockAssumption
  <2> QED
    BY <2>1, <2>2
<1>3. FileSize \in Nat /\ FileSize' = FileSize
  <2>1. blk_cnt \in Nat /\ BlkSize \in Nat
    BY KBlockAssumption DEF TypeOK, KBlockAssumption
  <2> QED
    BY <2>1 DEF FileSize
<1>4. /\ size' = size - ret /\ seek_pos' = seek_pos + ret /\ at_call' = at_call
      /\ dir' \in {"none", dir} /\ (dir' # "none" => size' # 0)
  BY DEF Advance
<1>5. size' \in Nat /\ seek_pos' \in Nat /\ at_call'.pos \in 0 .. seek_pos' /\ seek_pos' <= FileSize
  BY <1>1, <1>2, <1>3, <1>4
<1>6. dir = "write" => len' + size' = len + size
  BY <1>1, <1>2, <1>4 DEF len
<1>7. dir' = "write" => dir = "write" /\ data' \in [1 .. len' + size' -> Byte]
  BY <1>1, <1>4, <1>6
<1> QED
  BY <1>1, <1>3, <1>4, <1>5, <1>7 DEF CallInv

LEMMA FileTypeStep ==
  ASSUME TypeOK, CallInv, [FileNext]_fvars
  PROVE  TypeOK' /\ CallInv' /\ Outside
<1>1. UNCHANGED vars => TypeOK' /\ Outside
  BY DEF vars, TypeOK, Logical, Outside
<1>2. CASE UNCHANGED fvars
  BY <1>1, <1>2 DEF fvars, vars, CallInv, FileSize, len
<1>3. ASSUME NEW p \in 0 .. FileSize + 1, kfile_genericSeek(p)
      PROVE  CallInv' /\ UNCHANGED vars
  <2>1. FileSize \in Nat
    <3>1. blk_cnt \in Nat /\ BlkSize \in Nat
      BY KBlockAssumption DEF TypeOK, KBlockAssumption
    <3> QED
      BY <3>1 DEF FileSize
  <2> QED
    BY <1>3, <2>1 DEF kfile_genericSeek, CallInv
<1>4. ASSUME NEW n \in 1 .. MaxReq, kfileblock_read(n)
      PROVE  CallInv' /\ UNCHANGED vars
  BY <1>4 DEF kfileblock_read, Call, CallInv
<1>5. ASSUME NEW n \in 1 .. MaxReq, NEW bytes \in [1 .. n -> Byte], kfileblock_write(bytes)
      PROVE  CallInv' /\ UNCHANGED vars
  <2>1. bytes \in Seq(Byte) /\ Len(bytes) = n
    BY <1>5
  <2>2. /\ dir' = "write" /\ data' = bytes /\ size' = n /\ seek_pos' = seek_pos
        /\ at_call'.pos = seek_pos /\ seek_pos \in Nat /\ UNCHANGED vars
    BY <1>5, <2>1 DEF kfileblock_write, Call, CallInv
  <2>3. len' + size' = n
    BY <2>2 DEF len
  <2> QED
    BY <2>2, <2>3 DEF CallInv
<1>6. CASE KFILEBLOCK_end
  BY <1>1, <1>6 DEF KFILEBLOCK_end, CallInv
<1>7. ASSUME NEW l \in 0 .. BlkSize, KFILEBLOCK_read(l)
      PROVE  CallInv' /\ UNCHANGED vars
  <2>1. PICK ret : ret = (IF l < count THEN l ELSE count) /\ Advance(ret)
    BY <1>7 DEF KFILEBLOCK_read
  <2>2. dir = "read" /\ id < blk_cnt /\ UNCHANGED vars
    BY <1>7 DEF KFILEBLOCK_read
  <2>3. offset \in Offset /\ count \in 1 .. BlkSize - offset
    BY <2>2, Iteration
  <2>4. ret \in 0 .. count
    BY <2>1, <2>3, KBlockAssumption DEF Offset, KBlockAssumption
  <2> QED
    BY <2>1, <2>2, <2>4, AdvanceInv DEF vars
<1>8. ASSUME NEW s \in StoreResults, NEW l \in LoadResults, KFILEBLOCK_write(s, l)
      PROVE  TypeOK' /\ CallInv' /\ Outside
  <2>1. PICK hi, ret, bytes :
          /\ hi \in 1 .. BlkSize /\ ret \in 0 .. count
          /\ offset < hi /\ \A o \in offset .. hi - 1 : bytes[o] \in Byte
          /\ ret = WriteLen(id, offset, hi, s, l)
          /\ kblock_write(id, offset, hi, bytes, s, l)
          /\ Written(id, offset, ret, bytes)
          /\ Advance(ret)
    BY <1>8, FileWriteStep, Zenon
  <2>2. dir = "write" /\ id < blk_cnt /\ data' = data /\ blk_cnt' = blk_cnt
    BY <1>8, <2>1, Zenon DEF KFILEBLOCK_write, kblock_write
  <2>3. id \in Logical /\ offset \in Offset
    BY <2>2, Iteration
  <2>4. TypeOK' /\ Outside
    BY <2>1, <2>3, WriteType
  <2> QED
    BY <2>1, <2>2, <2>4, AdvanceInv
<1>9. ASSUME NEW s \in StoreResults, kfileblock_flush(s)
      PROVE  TypeOK' /\ CallInv' /\ Outside
  BY <1>9, FlushStep DEF kfileblock_flush, CallInv
<1>10. CASE Device
  BY <1>10, DeviceType DEF Device, CallInv
<1> QED
  BY <1>1, <1>2, <1>3, <1>4, <1>5, <1>6, <1>7, <1>8, <1>9, <1>10 DEF FileNext, KFILEBLOCK_end

(* What a step of the file may never do to the blocks kblock_trim() has    *)
(* taken out of the window.                                                *)
TrimStored ==
  blk_cnt' # blk_cnt =>
    \A i \in Logical :
       blk_start + i \notin blk_start' .. blk_start' + blk_cnt' - 1
         => dev'[blk_start + i] = content[i]

LEMMA FileReadsStep ==
  ASSUME ~LoadFails, TypeOK, CallInv, ReadsBack, CleanIsCoherent, [FileNext]_fvars
  PROVE  ReadsBack' /\ CleanIsCoherent' /\ TrimStored
<1>1. UNCHANGED vars => ReadsBack' /\ CleanIsCoherent' /\ TrimStored
  BY SMTT(30) DEF vars, ReadsBack, CleanIsCoherent, Logical, kblock_read, Phys, TrimStored
<1>2. ASSUME NEW s \in StoreResults, NEW l \in LoadResults, KFILEBLOCK_write(s, l)
      PROVE  ReadsBack' /\ CleanIsCoherent' /\ blk_cnt' = blk_cnt
  <2>1. PICK hi, ret, bytes :
          /\ hi \in 1 .. BlkSize /\ ret \in 0 .. count
          /\ offset < hi
          /\ ret = WriteLen(id, offset, hi, s, l)
          /\ kblock_write(id, offset, hi, bytes, s, l)
          /\ Written(id, offset, ret, bytes)
    BY <1>2, FileWriteStep, Zenon
  <2>2. dir = "write" /\ id < blk_cnt
    BY <1>2 DEF KFILEBLOCK_write
  <2>3. id \in Logical /\ offset \in Offset
    BY <2>2, Iteration
  <2>4. ReadsBack' /\ CleanIsCoherent'
    BY <2>1, <2>3, WriteReads
  <2> QED
    BY <2>1, <2>4, Zenon DEF kblock_write
<1>3. ASSUME NEW s \in StoreResults, kfileblock_flush(s)
      PROVE  ReadsBack' /\ CleanIsCoherent' /\ blk_cnt' = blk_cnt
  BY <1>3, FlushStep DEF kfileblock_flush, kblock_flush
<1>4. CASE Device /\ Copy
  BY <1>4, CopyReads, CopyType, Zenon DEF Copy, TrimStored
<1>5. CASE Device /\ Trim
  BY <1>5, TrimReads, Zenon DEF Trim, TrimStored
<1>6. ASSUME \/ UNCHANGED fvars
             \/ \E p \in 0 .. FileSize + 1 : kfile_genericSeek(p)
             \/ \E n \in 1 .. MaxReq :
                  kfileblock_read(n) \/ \E bytes \in [1 .. n -> Byte] : kfileblock_write(bytes)
             \/ KFILEBLOCK_end
             \/ \E l \in 0 .. BlkSize : KFILEBLOCK_read(l)
      PROVE  UNCHANGED vars
  BY <1>6 DEF fvars, kfile_genericSeek, kfileblock_read, kfileblock_write, Call,
              KFILEBLOCK_end, KFILEBLOCK_read
<1> QED
  BY <1>1, <1>2, <1>3, <1>4, <1>5, <1>6 DEF FileNext, Device, TrimStored

-----------------------------------------------------------------------------
LEMMA FileInitInv ==
  ASSUME FileInit
  PROVE  TypeOK /\ CallInv /\ ReadsBack /\ CleanIsCoherent
<1>1. /\ NBlocks \in Nat \ {0} /\ buffered \in BOOLEAN
      /\ dev \in [0 .. NBlocks - 1 -> Block] /\ buf = dev[0] /\ curr_blk = 0 /\ dirty = FALSE
      /\ blk_start = 0 /\ blk_cnt = NBlocks /\ content = dev
  BY KBlockAssumption DEF FileInit, Init, KBlockAssumption
<1>2. Logical = 0 .. NBlocks - 1 /\ 0 \in 0 .. NBlocks - 1 /\ blk_cnt \in 1 .. NBlocks - blk_start
  BY <1>1 DEF Logical
<1>3. TypeOK
  BY <1>1, <1>2, Zenon DEF TypeOK
<1>4. \A i \in Logical : Phys(i) = i
  BY <1>1, <1>2 DEF Phys
<1>5. ReadsBack /\ CleanIsCoherent
  BY <1>1, <1>2, <1>4 DEF ReadsBack, CleanIsCoherent, kblock_read
<1> QED
  BY <1>3, <1>5 DEF FileInit, CallInv

(* The window of a block device stays within the device, and its page      *)
(* buffer on a block of the window, whatever is written, copied, trimmed   *)
(* or fails: kblock_trim() and kblock_copy() change what curr_blk counts   *)
(* from and stands for.                                                    *)
THEOREM WindowTypes == FileSpec => []TypeOK
<1>1. FileInit => TypeOK /\ CallInv
  BY FileInitInv
<1>2. TypeOK /\ CallInv /\ [FileNext]_fvars => TypeOK' /\ CallInv'
  BY FileTypeStep
<1> QED
  BY <1>1, <1>2, PTL DEF FileSpec

(* No call, and no store the page buffer does on its own, changes a block  *)
(* outside the window kblock_trim() left, also when the driver fails.      *)
THEOREM TrimmedAreSafe == FileSpec => OutsideUntouched
<1>1. FileInit => TypeOK /\ CallInv
  BY FileInitInv
<1>2. TypeOK /\ CallInv /\ [FileNext]_fvars => TypeOK' /\ CallInv'
  BY FileTypeStep
<1>3. TypeOK /\ CallInv /\ [FileNext]_fvars =>
        [\A n \in 0 .. NBlocks - 1 :
           n \notin blk_start .. blk_start + blk_cnt - 1 => dev'[n] = dev[n]]_vars
  BY FileTypeStep DEF Outside
<1> QED
  BY <1>1, <1>2, <1>3, PTL DEF FileSpec, OutsideUntouched

(* The content and the clean buffer need each other. *)
LEMMA ReadsInvariant ==
  ASSUME ~LoadFails
  PROVE  FileSpec => [](ReadsBack /\ CleanIsCoherent)
<1>1. FileInit => TypeOK /\ CallInv /\ ReadsBack /\ CleanIsCoherent
  BY FileInitInv
<1>2. TypeOK /\ CallInv /\ ReadsBack /\ CleanIsCoherent /\ [FileNext]_fvars
        => TypeOK' /\ CallInv' /\ ReadsBack' /\ CleanIsCoherent'
  BY FileTypeStep, FileReadsStep
<1> QED
  BY <1>1, <1>2, PTL DEF FileSpec

(* With a device whose loads do not fail, the page buffer, the window and  *)
(* the failing writes cannot be told from an array of blocks: kblock_read() *)
(* returns what was last written, wherever it is at the moment, unless     *)
(* kblock_copy() has moved the unstored changes of the block to another.   *)
THEOREM DeviceIsAnArray ==
  ASSUME ~LoadFails
  PROVE  FileSpec => []ReadsBack
<1>1. FileSpec => [](ReadsBack /\ CleanIsCoherent)
  BY ReadsInvariant
<1> QED
  BY <1>1, PTL

(* A page buffer that is clean holds what the device has in that block.    *)
THEOREM CleanBuffer ==
  ASSUME ~LoadFails
  PROVE  FileSpec => []CleanIsCoherent
<1>1. FileSpec => [](ReadsBack /\ CleanIsCoherent)
  BY ReadsInvariant
<1> QED
  BY <1>1, PTL

(* What leaves the window with kblock_trim() has reached the device.       *)
THEOREM TrimStores ==
  ASSUME ~LoadFails
  PROVE  FileSpec => TrimmedIsStored
<1>1. FileInit => TypeOK /\ CallInv /\ ReadsBack /\ CleanIsCoherent
  BY FileInitInv
<1>2. TypeOK /\ CallInv /\ ReadsBack /\ CleanIsCoherent /\ [FileNext]_fvars
        => TypeOK' /\ CallInv' /\ ReadsBack' /\ CleanIsCoherent'
  BY FileTypeStep, FileReadsStep
<1>3. TypeOK /\ CallInv /\ ReadsBack /\ CleanIsCoherent /\ [FileNext]_fvars =>
        [blk_cnt' # blk_cnt =>
           \A i \in Logical :
              blk_start + i \notin blk_start' .. blk_start' + blk_cnt' - 1
                => dev'[blk_start + i] = content[i]]_vars
  BY FileReadsStep DEF TrimStored
<1> QED
  BY <1>1, <1>2, <1>3, PTL DEF FileSpec, TrimmedIsStored

-----------------------------------------------------------------------------
(* What the running call has done to the file and to the caller's bytes.   *)
ReadSoFar ==
  /\ data = [k \in 1 .. len |-> at_call.file[at_call.pos + k - 1]]
  /\ \A p \in Pos : FileByte(p) = at_call.file[p]

WrittenSoFar ==
  \A p \in Pos : FileByte(p) = IF p \in at_call.pos .. seek_pos - 1
                               THEN data[p - at_call.pos + 1] ELSE at_call.file[p]

MovedInv ==
  /\ dir # "none" => at_call.file \in [Pos -> Byte]
  /\ dir = "read" => ReadSoFar
  /\ dir = "write" => WrittenSoFar

LEMMA FileByteType ==
  ASSUME TypeOK, NEW p \in Pos
  PROVE  FileByte(p) \in Byte /\ p \in Nat
<1>1. p \in Nat
  <2>1. blk_cnt * BlkSize \in Int
    BY KBlockAssumption DEF TypeOK, KBlockAssumption
  <2> QED
    BY <2>1 DEF Pos, FileSize
<1>2. p \div BlkSize \in Logical /\ p % BlkSize \in Offset
  BY <1>1, PosInBlock
<1>3. kblock_read(p \div BlkSize) \in Block
  BY <1>2, PhysInWindow DEF kblock_read, TypeOK
<1> QED
  BY <1>1, <1>2, <1>3 DEF FileByte, Block

LEMMA Appended ==
  ASSUME NEW S, NEW a \in Seq(S), NEW b \in Seq(S), NEW F,
         \A k \in 1 .. Len(a) : a[k] = F[k],
         \A k \in 1 .. Len(b) : b[k] = F[Len(a) + k]
  PROVE  a \o b = [k \in 1 .. Len(a) + Len(b) |-> F[k]]
<1>1. /\ Len(a) \in Nat /\ Len(b) \in Nat /\ a \o b \in Seq(S)
      /\ Len(a \o b) = Len(a) + Len(b)
  OBVIOUS
<1>2. ASSUME NEW k \in 1 .. Len(a) + Len(b)
      PROVE  (a \o b)[k] = F[k]
  <2>1. CASE k <= Len(a)
    BY <1>1, <2>1
  <2>2. CASE k > Len(a)
    <3>1. k - Len(a) \in 1 .. Len(b) /\ Len(a) + (k - Len(a)) = k
      BY <1>1, <2>2
    <3>2. (a \o b)[k] = b[k - Len(a)]
      BY <1>1, <2>2
    <3> QED
      BY <3>1, <3>2
  <2> QED
    BY <1>1, <2>1, <2>2
<1>3. PICK c \in Seq(S) : c = a \o b /\ Len(c) = Len(a) + Len(b)
  BY <1>1, Zenon
<1>4. c \in [1 .. Len(c) -> S]
  BY LenProperties
<1>5. c = [k \in 1 .. Len(c) |-> c[k]]
  BY <1>4
<1> QED
  BY <1>2, <1>3, <1>5

(* An iteration of a read appends the next bytes of the file.              *)
LEMMA ReadMoves ==
  ASSUME TypeOK, CallInv, MovedInv, NEW l \in 0 .. BlkSize, KFILEBLOCK_read(l)
  PROVE  ReadSoFar'
<1>1. PICK ret : /\ ret = (IF l < count THEN l ELSE count) /\ Advance(ret)
                 /\ data' = data \o [k \in 1 .. ret |-> kblock_read(id)[offset + k - 1]]
  BY Zenon DEF KFILEBLOCK_read
<1>2. dir = "read" /\ id < blk_cnt /\ UNCHANGED vars
  BY DEF KFILEBLOCK_read
<1>3. /\ BlkSize \in Nat \ {0} /\ seek_pos \in Nat /\ at_call.pos \in 0 .. seek_pos
      /\ at_call.pos # seek_pos => seek_pos <= FileSize
      /\ at_call.file \in [Pos -> Byte] /\ FileSize \in Nat
  <2>1. blk_cnt * BlkSize \in Nat
    BY KBlockAssumption DEF TypeOK, KBlockAssumption
  <2> QED
    BY <1>2, <2>1, KBlockAssumption DEF CallInv, MovedInv, KBlockAssumption, FileSize
<1>4. offset \in Offset /\ count \in 1 .. BlkSize - offset /\ seek_pos + count <= FileSize
  BY <1>2, Iteration
<1>5. PICK n \in Nat : n = count /\ n \in 0 .. BlkSize - (seek_pos % BlkSize)
  BY <1>3, <1>4 DEF Offset, offset
<1>6. ret \in 0 .. n
  BY <1>1, <1>3, <1>5
<1> DEFINE F == [k \in Nat |-> at_call.file[at_call.pos + k - 1]]
           more == [k \in 1 .. ret |-> kblock_read(id)[offset + k - 1]]
<1>7. ASSUME NEW k \in 1 .. ret
      PROVE  /\ more[k] = at_call.file[at_call.pos + (len + k) - 1]
             /\ more[k] \in Byte
  <2>1. PICK p \in Nat : p = seek_pos + k - 1 /\ p \in seek_pos .. seek_pos + n - 1 /\ p \in Pos
    BY <1>3, <1>4, <1>5, <1>6, <1>7 DEF Pos
  <2>2. BlkSize \in Nat \ {0} /\ seek_pos \in Nat /\ n \in 0 .. BlkSize - (seek_pos % BlkSize)
    BY <1>3, <1>5
  <2>3. /\ p \div BlkSize = seek_pos \div BlkSize
        /\ p % BlkSize = (seek_pos % BlkSize) + (p - seek_pos)
    BY <2>1, <2>2, InBlock, Zenon
  <2>4. p % BlkSize = offset + k - 1
    <3>1. offset \in Int /\ seek_pos % BlkSize = offset
      BY <2>2, DivMod DEF offset
    <3> QED
      BY <2>1, <2>2, <2>3, <3>1
  <2>5. FileByte(p) = more[k]
    BY <1>7, <2>3, <2>4 DEF FileByte, id
  <2>6. FileByte(p) = at_call.file[p] /\ FileByte(p) \in Byte
    BY <1>2, <2>1, FileByteType DEF MovedInv, ReadSoFar
  <2>7. at_call.pos + (len + k) - 1 = p
    BY <1>3, <2>1 DEF len
  <2> QED
    BY <2>5, <2>6, <2>7
<1>8. /\ len \in Nat /\ data = [k \in 1 .. len |-> at_call.file[at_call.pos + k - 1]]
      /\ \A k \in 1 .. len : at_call.pos + k - 1 \in Pos
  <2>1. len \in Nat /\ data = [k \in 1 .. len |-> at_call.file[at_call.pos + k - 1]]
    BY <1>2, <1>3 DEF len, MovedInv, ReadSoFar
  <2>2. ASSUME NEW k \in 1 .. len PROVE at_call.pos + k - 1 \in Pos
    BY <1>3, <2>2 DEF len, Pos
  <2> QED
    BY <2>1, <2>2
<1>9. /\ data \in Seq(Byte) /\ Len(data) = len
      /\ \A k \in 1 .. len : data[k] = at_call.file[at_call.pos + k - 1]
  BY <1>3, <1>8
<1>10. more \in Seq(Byte) /\ Len(more) = ret
  <2>1. ret \in Nat
    BY <1>5, <1>6
  <2>2. more = [k \in 1 .. ret |-> more[k]] /\ \A k \in 1 .. ret : more[k] \in Byte
    BY <1>7, Zenon
  <2> HIDE DEF more
  <2>3. more \in [1 .. ret -> Byte]
    BY <2>2, Zenon
  <2> QED
    BY <2>1, <2>3
<1>11. \A k \in 1 .. Len(data) : data[k] = F[k]
  BY <1>8, <1>9
<1>12. \A k \in 1 .. Len(more) : more[k] = F[Len(data) + k]
  <2>1. ASSUME NEW k \in 1 .. ret PROVE F[len + k] = at_call.file[at_call.pos + (len + k) - 1]
    <3>1. len + k \in Nat
      BY <1>5, <1>6, <1>8
    <3> QED
      BY <3>1
  <2> QED
    BY <1>7, <1>9, <1>10, <2>1, Zenon
<1>13. data' = [k \in 1 .. len + ret |-> F[k]]
  <2>1. data' = data \o more
    BY <1>1
  <2> HIDE DEF more, F
  <2>2. PICK d \in Seq(Byte), m \in Seq(Byte) : d = data /\ m = more
    BY <1>9, <1>10
  <2>3. PICK G : G = F
    BY Zenon
  <2>4. /\ \A k \in 1 .. Len(d) : d[k] = G[k]
        /\ \A k \in 1 .. Len(m) : m[k] = G[Len(d) + k]
    <3>1. \A k \in 1 .. Len(d) : d[k] = G[k]
      BY ONLY <1>11, <2>2, <2>3
    <3>2. \A k \in 1 .. Len(m) : m[k] = G[Len(d) + k]
      BY ONLY <1>12, <2>2, <2>3
    <3> QED
      BY <3>1, <3>2, Zenon
  <2>5. d \o m = [k \in 1 .. Len(d) + Len(m) |-> G[k]]
    BY <2>4, Appended, SMTT(30)
  <2> QED
    BY <1>9, <1>10, <2>1, <2>2, <2>3, <2>5
<1>14. at_call' = at_call /\ len' = len + ret
  <2>1. at_call' = at_call /\ seek_pos' = seek_pos + ret
    BY <1>1 DEF Advance
  <2>2. ret \in Int /\ seek_pos \in Int /\ at_call.pos \in Int
    BY <1>3, <1>5, <1>6
  <2> QED
    BY <2>1, <2>2 DEF len
<1>15. data' = [k \in 1 .. len' |-> at_call'.file[at_call'.pos + k - 1]]
  BY <1>5, <1>6, <1>8, <1>13, <1>14 DEF F
<1>16. \A p \in Pos' : FileByte(p)' = at_call'.file[p]
  BY <1>2, <1>14 DEF vars, Pos, FileSize, FileByte, kblock_read, Phys, MovedInv, ReadSoFar
<1> QED
  BY <1>15, <1>16 DEF ReadSoFar

(* An iteration of a write changes the next bytes of the file and no other.*)
LEMMA WriteMoves ==
  ASSUME ~LoadFails, TypeOK, CallInv, ReadsBack, CleanIsCoherent, MovedInv,
         NEW s \in StoreResults, NEW l \in LoadResults, KFILEBLOCK_write(s, l)
  PROVE  WrittenSoFar'
<1>1. PICK hi, ret, bytes :
          /\ hi \in 1 .. BlkSize /\ ret \in 0 .. count
          /\ hi = offset + count /\ offset < hi
          /\ \A o \in offset .. hi - 1 : bytes[o] = data[len + 1 + o - offset]
          /\ ret = WriteLen(id, offset, hi, s, l)
          /\ kblock_write(id, offset, hi, bytes, s, l)
          /\ Written(id, offset, ret, bytes)
          /\ Advance(ret)
  BY FileWriteStep, Zenon
<1>2. /\ dir = "write" /\ id < blk_cnt /\ data' = data /\ blk_cnt' = blk_cnt
      /\ at_call' = at_call /\ seek_pos' = seek_pos + ret
  BY <1>1, Zenon DEF KFILEBLOCK_write, kblock_write, Advance
<1>3. /\ BlkSize \in Nat \ {0} /\ seek_pos \in Nat /\ at_call.pos \in 0 .. seek_pos
      /\ content \in [Logical -> Block]
  BY <1>2, KBlockAssumption DEF CallInv, KBlockAssumption, TypeOK
<1>4. id \in Logical /\ offset \in Offset /\ count \in 1 .. BlkSize - offset
  BY <1>2, Iteration
<1>5. ReadsBack'
  BY <1>1, <1>4, WriteReads, Zenon
<1>6. /\ ret \in Nat /\ offset \in Nat /\ hi \in Nat
      /\ ret \in 0 .. BlkSize - (seek_pos % BlkSize) /\ ret <= hi - offset
  BY <1>1, <1>3, <1>4 DEF Offset, offset
<1>7. ASSUME NEW p \in Pos
      PROVE  FileByte(p)' = IF p \in at_call.pos .. seek_pos' - 1
                            THEN data[p - at_call.pos + 1] ELSE at_call.file[p]
  <2>1. p \in Nat
    BY FileByteType
  <2>2. PICK i, o : i = p \div BlkSize /\ o = p % BlkSize /\ i \in Logical /\ o \in Offset
    BY <2>1, PosInBlock
  <2>3. FileByte(p) = content[i][o] /\ FileByte(p)' = content'[i][o]
    BY <1>2, <1>5, <2>2 DEF FileByte, ReadsBack, Logical
  <2>4. FileByte(p) = IF p \in at_call.pos .. seek_pos - 1
                      THEN data[p - at_call.pos + 1] ELSE at_call.file[p]
    BY <1>2 DEF MovedInv, WrittenSoFar
  <2>5. content' = [content EXCEPT ![id] = Over(@, bytes, offset, offset + ret)]
    BY <1>1, Zenon DEF Written
  <2>6. CASE p \in seek_pos .. seek_pos + ret - 1
    <3>1. i = id /\ o = (seek_pos % BlkSize) + (p - seek_pos)
      BY <1>3, <1>6, <2>1, <2>2, <2>6, InBlock, Zenon DEF id
    <3>2. o = offset + (p - seek_pos)
      BY <3>1 DEF offset
    <3>3. o \in Int /\ offset <= o /\ o < offset + ret /\ o \in offset .. hi - 1
      <4>1. PICK d \in Nat : d = p - seek_pos /\ d < ret
        BY <1>3, <1>6, <2>1, <2>6
      <4>2. o = offset + d /\ offset \in Nat /\ ret <= hi - offset /\ ret \in Nat /\ hi \in Nat
        BY <1>6, <3>2, <4>1
      <4> QED
        BY <4>1, <4>2
    <3>4. content'[i][o] = bytes[o]
      <4>1. PICK from \in Int, to \in Int : from = offset /\ to = offset + ret
        BY <1>6
      <4>2. content'[i] = Over(content[i], bytes, from, to)
        BY <1>3, <2>2, <2>5, <3>1, <4>1
      <4>3. o \in from .. to - 1
        BY <3>3, <4>1
      <4>4. o \in Offset
        BY <2>2
      <4>5. Over(content[i], bytes, from, to)[o] = bytes[o]
        BY <4>3, <4>4, Zenon DEF Over
      <4> QED
        BY <4>2, <4>5, Zenon
    <3>5. len + 1 + o - offset = p - at_call.pos + 1
      BY <1>3, <1>6, <2>1, <3>2 DEF len
    <3>6. p \in at_call.pos .. seek_pos' - 1
      BY <1>2, <1>3, <1>6, <2>1, <2>6
    <3> QED
      BY <1>1, <2>3, <3>3, <3>4, <3>5, <3>6, Zenon
  <2>7. CASE p \notin seek_pos .. seek_pos + ret - 1
    <3>1. ~(i = id /\ offset <= o /\ o < offset + ret)
      <4>1. ~(p \div BlkSize = seek_pos \div BlkSize /\ seek_pos % BlkSize <= p % BlkSize
              /\ p % BlkSize < (seek_pos % BlkSize) + ret)
        BY <1>3, <1>6, <2>1, <2>7, SameBlock, Zenon
      <4> QED
        BY <2>2, <4>1 DEF id, offset
    <3>2. content'[i][o] = content[i][o]
      <4>1. offset \in Int /\ offset + ret \in Int
        BY <1>6
      <4>2. CASE i = id
        <5>1. content'[i] = Over(content[i], bytes, offset, offset + ret)
          BY <1>3, <2>2, <2>5, <4>2
        <5>2. o \notin offset .. (offset + ret) - 1
          BY <1>6, <2>2, <3>1, <4>2 DEF Offset
        <5>3. Over(content[i], bytes, offset, offset + ret)[o] = content[i][o]
          BY <2>2, <5>2, Zenon DEF Over
        <5> QED
          BY <5>1, <5>3, Zenon
      <4>3. CASE i # id
        BY <1>3, <1>4, <2>2, <2>5, <4>3
      <4> QED
        BY <4>2, <4>3, Zenon
    <3>3. p \in at_call.pos .. seek_pos' - 1 <=> p \in at_call.pos .. seek_pos - 1
      BY <1>2, <1>3, <1>6, <2>1, <2>7
    <3> QED
      BY <2>3, <2>4, <3>2, <3>3, Zenon
  <2> QED
    BY <2>6, <2>7
<1>8. Pos' = Pos
  BY <1>2 DEF Pos, FileSize
<1> QED
  BY <1>2, <1>7, <1>8 DEF WrittenSoFar

(* ReturnIsExact as a step.                                                *)
Returned ==
  dir # "none" /\ dir' = "none" =>
    LET moved == seek_pos' - at_call.pos IN
    /\ dir = "read" =>
         data' = [k \in 1 .. moved |-> at_call.file[at_call.pos + k - 1]]
    /\ dir = "write" =>
         \A p \in Pos : FileByte(p)' = IF p \in at_call.pos .. seek_pos' - 1
                                       THEN data[p - at_call.pos + 1] ELSE at_call.file[p]

LEMMA MovedStep ==
  ASSUME ~LoadFails, TypeOK, CallInv, ReadsBack, CleanIsCoherent, MovedInv, [FileNext]_fvars
  PROVE  MovedInv' /\ Returned
<1>1. UNCHANGED vars => Pos' = Pos /\ \A p \in Pos : FileByte(p)' = FileByte(p)
  BY SMTT(30) DEF vars, Pos, FileSize, FileByte, kblock_read, Phys
<1>2. CASE UNCHANGED fvars
  BY <1>1, <1>2 DEF fvars, MovedInv, ReadSoFar, WrittenSoFar, len, Returned
<1>3. ASSUME dir = "none", dir' = "none"
      PROVE  MovedInv' /\ Returned
  BY <1>3 DEF MovedInv, Returned
<1>4. ASSUME NEW d \in {"read", "write"}, NEW bytes, NEW n, Call(d, bytes, n), d = "read" => bytes = <<>>
      PROVE  MovedInv' /\ Returned
  <2>1. /\ dir' = d /\ data' = bytes /\ seek_pos' = seek_pos /\ UNCHANGED vars /\ dir = "none"
        /\ at_call' = [pos |-> seek_pos, file |-> [p \in Pos |-> FileByte(p)]]
    BY <1>4 DEF Call
  <2>2. /\ at_call'.pos = seek_pos /\ at_call'.file \in [Pos' -> Byte]
        /\ \A p \in Pos' : FileByte(p)' = at_call'.file[p] /\ p \in Nat
    BY <1>1, <2>1, FileByteType
  <2>3. seek_pos \in Nat
    BY DEF CallInv
  <2>4. d = "read" => ReadSoFar'
    <3>1. len' = 0
      BY <2>1, <2>2, <2>3 DEF len
    <3>2. d = "read" => data' = [k \in 1 .. len' |-> at_call'.file[at_call'.pos + k - 1]]
      BY <1>4, <2>1, <3>1
    <3> QED
      BY <2>2, <3>2 DEF ReadSoFar
  <2>5. WrittenSoFar'
    <3>1. \A p \in Nat : p \notin seek_pos .. seek_pos - 1
      BY <2>3, SMTT(30)
    <3> QED
      BY <2>1, <2>2, <3>1 DEF WrittenSoFar
  <2> QED
    BY <2>1, <2>2, <2>4, <2>5, Zenon DEF MovedInv, Returned
<1>5. CASE KFILEBLOCK_end
  <2>1. /\ dir # "none" /\ dir' = "none" /\ UNCHANGED <<seek_pos, data, at_call>> /\ UNCHANGED vars
    BY <1>5 DEF KFILEBLOCK_end
  <2>2. dir = "read" => data' = [k \in 1 .. seek_pos' - at_call.pos |-> at_call.file[at_call.pos + k - 1]]
    BY <2>1 DEF MovedInv, ReadSoFar, len
  <2>3. dir = "write" =>
          \A p \in Pos : FileByte(p)' = IF p \in at_call.pos .. seek_pos' - 1
                                        THEN data[p - at_call.pos + 1] ELSE at_call.file[p]
    BY <1>1, <2>1, SMTT(30) DEF MovedInv, WrittenSoFar
  <2> QED
    BY <2>1, <2>2, <2>3 DEF MovedInv, Returned
<1>6. ASSUME NEW l \in 0 .. BlkSize, KFILEBLOCK_read(l)
      PROVE  MovedInv' /\ Returned
  <2>1. /\ dir = "read" /\ dir' \in {"none", "read"} /\ at_call' = at_call /\ UNCHANGED vars
    BY <1>6 DEF KFILEBLOCK_read, Advance
  <2>2. ReadSoFar'
    BY <1>6, ReadMoves, SMTT(30)
  <2>3. data' = [k \in 1 .. seek_pos' - at_call.pos |-> at_call.file[at_call.pos + k - 1]]
    BY <2>1, <2>2 DEF ReadSoFar, len
  <2> QED
    BY <1>1, <2>1, <2>2, <2>3 DEF MovedInv, Returned
<1>7. ASSUME NEW s \in StoreResults, NEW l \in LoadResults, KFILEBLOCK_write(s, l)
      PROVE  MovedInv' /\ Returned
  <2>1. /\ dir = "write" /\ dir' \in {"none", "write"} /\ at_call' = at_call
        /\ data' = data /\ blk_cnt' = blk_cnt
    BY <1>7, Zenon DEF KFILEBLOCK_write, kblock_write, Advance
  <2>2. WrittenSoFar' /\ Pos' = Pos
    BY <1>7, <2>1, WriteMoves DEF Pos, FileSize
  <2>3. \A p \in Pos : FileByte(p)' = IF p \in at_call.pos .. seek_pos' - 1
                                      THEN data[p - at_call.pos + 1] ELSE at_call.file[p]
    BY <2>1, <2>2 DEF WrittenSoFar
  <2> QED
    BY <2>1, <2>2, <2>3 DEF MovedInv, Returned
<1>8. ASSUME \/ \E p \in 0 .. FileSize + 1 : kfile_genericSeek(p)
             \/ \E s \in StoreResults : kfileblock_flush(s)
             \/ Device
      PROVE  dir = "none" /\ dir' = "none"
  BY <1>8 DEF kfile_genericSeek, kfileblock_flush, Device
<1> QED
  BY <1>2, <1>3, <1>4, <1>5, <1>6, <1>7, <1>8, SMTT(30) DEF FileNext, kfileblock_read, kfileblock_write

(* Every call of kfile_read() and kfile_write() on a block device moves    *)
(* exactly the bytes it reports, however the loop of KFILEBLOCK cut the    *)
(* request at the block boundaries and wherever the driver stopped short.  *)
THEOREM CallsAreExact ==
  ASSUME ~LoadFails
  PROVE  FileSpec => ReturnIsExact
<1> DEFINE Inv == TypeOK /\ CallInv /\ ReadsBack /\ CleanIsCoherent /\ MovedInv
<1>1. FileInit => Inv
  BY FileInitInv DEF FileInit, MovedInv
<1>2. Inv /\ [FileNext]_fvars => Inv'
  BY FileTypeStep, FileReadsStep, MovedStep, SMTT(30)
<1>3. Inv /\ [FileNext]_fvars =>
        [dir # "none" /\ dir' = "none" =>
           LET moved == seek_pos' - at_call.pos IN
           /\ dir = "read" =>
                data' = [k \in 1 .. moved |-> at_call.file[at_call.pos + k - 1]]
           /\ dir = "write" =>
                \A p \in Pos : FileByte(p)' = IF p \in at_call.pos .. seek_pos' - 1
                                              THEN data[p - at_call.pos + 1] ELSE at_call.file[p]]_fvars
  BY MovedStep DEF Returned
<1> QED
  BY <1>1, <1>2, <1>3, PTL DEF FileSpec, ReturnIsExact
-----------------------------------------------------------------------------
(* The stored settings.                                                    *)

Succ(c) == IF c = 2 * Half - 1 THEN 0 ELSE c + 1

Table == [{0, 1} -> Entry]

(* Each entry is kept at the place of the file it names. *)
InPlace(f) == \A i \in {0, 1} : f[i].valid => f[i].last_file = i

(* A restart would not take the file l, and the entry that it would take,  *)
(* if there is one, has the counter c: what fat_update() adds one to.      *)
Leaves(f, l, c) ==
  /\ findLast(f).last_file = 1 - l
  /\ f[1 - l].valid => f[1 - l].counter = c

(* Recoverable alone is not inductive: it does not tell which of the two   *)
(* files the call in progress is writing.  While it copies, a restart      *)
(* would take the other file; when the entry is to be written, the file is *)
(* complete and the counter is the next one.                               *)
DliInv ==
  /\ DliTypeOK
  /\ InPlace(fat)
  /\ pc = "fat" => last_entry.valid
  /\ agreed => pc # "erase" /\ Found \in {before, after}
  /\ agreed /\ pc = "idle" /\ last_entry.last_file = findLast(fat).last_file =>
       LET i == last_entry.last_file
       IN  fat[i].valid => fat[i].counter = last_entry.counter
  /\ agreed /\ pc = "copy" =>
       Found = before /\ Leaves(fat, last_entry.last_file, last_entry.counter)
  /\ agreed /\ pc = "fat" =>
       /\ Found = before
       /\ files[last_entry.last_file] = after
       /\ \E c \in Counter : /\ last_entry.counter = Succ(c)
                             /\ Leaves(fat, last_entry.last_file, c)
-----------------------------------------------------------------------------
(* The next counter is newer than the last one, also when it has wrapped,  *)
(* and never the other way round.                                          *)
LEMMA CounterOrder ==
  ASSUME NEW c \in Counter
  PROVE  /\ Succ(c) \in Counter
         /\ Newer(Succ(c), c)
         /\ ~Newer(c, Succ(c))
  BY DliAssumption DEF Succ, Counter, Newer

LEMMA BadEntry == Bad \in Entry /\ ~Bad.valid /\ Bad.last_file = 0
  BY DliAssumption DEF Bad, Entry, Counter

(* What findLast() returns: an entry that is valid, or the default one. *)
LEMMA LastEntry ==
  ASSUME NEW f \in Table, InPlace(f)
  PROVE  /\ findLast(f) \in Entry
         /\ findLast(f).last_file \in {0, 1}
         /\ f[findLast(f).last_file].valid => findLast(f) = f[findLast(f).last_file]
         /\ ~f[findLast(f).last_file].valid =>
              findLast(f) = Bad /\ ~f[0].valid /\ ~f[1].valid
<1>1. f[0] \in Entry /\ f[1] \in Entry
  BY DEF Table
<1>2. findLast(f) \in {Bad, f[0], f[1]}
  BY DEF findLast
<1>3. \/ findLast(f) = f[0] /\ f[0].valid
      \/ findLast(f) = f[1] /\ f[1].valid
      \/ findLast(f) = Bad /\ ~f[0].valid /\ ~f[1].valid
  BY <1>1, Zenon DEF findLast, Entry
<1>4. findLast(f) \in Entry /\ findLast(f).last_file \in {0, 1}
  BY <1>1, <1>2, BadEntry DEF Entry
<1> QED
  BY <1>1, <1>3, <1>4, BadEntry, Zenon DEF InPlace, Entry

(* An entry with the next counter, written where the last one is not, is   *)
(* the one that findLast() returns.                                        *)
LEMMA WrittenWins ==
  ASSUME NEW f \in Table, InPlace(f),
         NEW e \in Entry, e.valid,
         NEW c \in Counter, e.counter = Succ(c),
         Leaves(f, e.last_file, c)
  PROVE  findLast([f EXCEPT ![e.last_file] = e]) = e
<1> DEFINE l == e.last_file
           g == [f EXCEPT ![l] = e]
<1>1. l \in {0, 1} /\ f[0] \in Entry /\ f[1] \in Entry
  BY DEF Table, Entry
<1>2. g[l] = e /\ g[1 - l] = f[1 - l]
  BY <1>1 DEF Table
<1>3. CASE ~f[1 - l].valid
  BY <1>1, <1>2, <1>3 DEF findLast, Entry
<1>4. CASE f[1 - l].valid
  <2>1. g[1 - l].valid /\ g[1 - l].counter = c
    BY <1>2, <1>4 DEF Leaves
  <2>2. Newer(Succ(c), c) /\ ~Newer(c, Succ(c))
    BY CounterOrder
  <2>3. CASE l = 0
    BY <1>2, <2>1, <2>2, <2>3 DEF findLast
  <2>4. CASE l = 1
    BY <1>2, <2>1, <2>2, <2>4 DEF findLast
  <2> QED BY <1>1, <2>3, <2>4
<1> QED
  BY <1>1, <1>3, <1>4 DEF Entry

(* An entry spoilt where the last one is not changes nothing. *)
LEMMA SpoiltLoses ==
  ASSUME NEW f \in Table, InPlace(f), NEW l \in {0, 1},
         findLast(f).last_file = 1 - l
  PROVE  findLast([f EXCEPT ![l] = Bad]).last_file = 1 - l
<1> DEFINE g == [f EXCEPT ![l] = Bad]
<1>1. g[l] = Bad /\ g[1 - l] = f[1 - l] /\ f[0] \in Entry /\ f[1] \in Entry
  BY DEF Table
<1>2. CASE f[1 - l].valid
  <2>1. findLast(g) = f[1 - l]
    BY <1>1, <1>2, BadEntry DEF findLast
  <2> QED BY <1>2, <2>1 DEF InPlace
<1>3. CASE ~f[1 - l].valid
  <2>1. findLast(f) = Bad
    BY <1>3, LastEntry, Zenon
  <2>2. ~g[0].valid /\ ~g[1].valid
    BY <1>1, <1>3, BadEntry
  <2>3. findLast(g) = Bad
    BY <2>2, Zenon DEF findLast
  <2> QED BY <2>1, <2>3, Zenon
<1> QED
  BY <1>1, <1>2, <1>3 DEF Entry
-----------------------------------------------------------------------------
LEMMA InitInv == DliInit => DliInv
<1> SUFFICES ASSUME DliInit PROVE DliInv
  OBVIOUS
<1>1. Empty \in Contents
  BY DEF Empty, Contents
<1>2. DliTypeOK
  BY <1>1, BadEntry DEF DliInit, DliTypeOK
<1>3. InPlace(fat) /\ Found = Empty
  BY BadEntry DEF DliInit, InPlace, Found, findLast
<1> QED
  BY <1>2, <1>3 DEF DliInit, DliInv

(* Facts about a state of the invariant that the steps below share. *)
LEMMA InvFacts ==
  ASSUME DliInv
  PROVE  /\ fat \in Table /\ InPlace(fat)
         /\ last_entry \in Entry /\ last_entry.last_file \in {0, 1}
         /\ last_entry.counter \in Counter
         /\ findLast(fat) \in Entry /\ findLast(fat).last_file \in {0, 1}
         /\ Found \in Contents \cup {Torn}
<1>1. fat \in Table /\ InPlace(fat) /\ last_entry \in Entry
  BY DEF DliInv, DliTypeOK, Table
<1>2. findLast(fat) \in Entry /\ findLast(fat).last_file \in {0, 1}
  BY <1>1, LastEntry
<1> QED
  BY <1>1, <1>2 DEF DliInv, DliTypeOK, Found, Entry

LEMMA InitStep ==
  ASSUME DliInv, dli_init
  PROVE  DliInv'
<1>1. DliTypeOK'
  BY InvFacts DEF DliInv, DliTypeOK, dli_init
<1>2. Found' = Found
  BY DEF dli_init, Found
<1>3. fat[last_entry'.last_file].valid =>
        fat[last_entry'.last_file].counter = last_entry'.counter
  BY InvFacts, LastEntry, Zenon DEF dli_init
<1> QED
  BY <1>1, <1>2, <1>3, Zenon DEF DliInv, dli_init

LEMMA SetType ==
  ASSUME NEW in \in Contents \cup {Torn}, NEW k \in Keys, NEW v \in Texts
  PROVE  ini_setString(in, k, v) \in Contents \cup {Torn}
  BY DEF ini_setString, Contents

LEMMA SetStep ==
  ASSUME DliInv, NEW k \in Keys, NEW v \in Texts, dli_set(k, v)
  PROVE  DliInv'
<1>1. /\ last_entry' \in Entry
      /\ last_entry'.last_file = 1 - last_entry.last_file
      /\ last_entry'.counter = last_entry.counter
  BY InvFacts, SMTT(30) DEF dli_set, nextIni, Entry
<1>2. files[last_entry.last_file] \in Contents \cup {Torn}
  BY InvFacts DEF DliInv, DliTypeOK
<1>3. DliTypeOK'
  BY <1>1, <1>2, InvFacts, SetType DEF DliInv, DliTypeOK, dli_set
<1>4. Found' = Found
  BY DEF dli_set, Found
<1>5. ASSUME agreed'
      PROVE  Leaves(fat, last_entry'.last_file, last_entry'.counter)
  <2>1. agreed /\ last_entry.last_file = findLast(fat).last_file
    BY <1>5, Zenon DEF dli_set
  <2>2. fat[last_entry.last_file].valid =>
          fat[last_entry.last_file].counter = last_entry.counter
    BY <2>1 DEF DliInv, dli_set
  <2>3. 1 - last_entry'.last_file = last_entry.last_file
    BY <1>1, InvFacts
  <2> QED BY <1>1, <2>1, <2>2, <2>3, Zenon DEF Leaves
<1> QED
  BY <1>3, <1>4, <1>5 DEF DliInv, dli_set

LEMMA CopyDoneStep ==
  ASSUME DliInv, CopyDone
  PROVE  DliInv'
<1> DEFINE l == last_entry.last_file
<1>1. /\ last_entry' \in Entry
      /\ last_entry'.last_file = l
      /\ last_entry'.counter = Succ(last_entry.counter)
      /\ last_entry'.valid
  <2>1. Succ(last_entry.counter) \in Counter
    BY InvFacts, CounterOrder
  <2>2. last_entry' = [last_entry EXCEPT !.valid = TRUE, !.counter = Succ(@)]
    BY SMTT(30) DEF CopyDone, fat_update, Succ
  <2> QED BY <2>1, <2>2, InvFacts, Zenon DEF Entry
<1>2. DliTypeOK'
  BY <1>1, InvFacts, ZenonT(40) DEF DliInv, DliTypeOK, CopyDone
<1>3. files'[l] = after /\ \A i \in {0, 1} : i # l => files'[i] = files[i]
  BY InvFacts, Zenon DEF CopyDone, DliInv, DliTypeOK
<1>4. ASSUME agreed
      PROVE  /\ Found' = before
             /\ Leaves(fat, l, last_entry.counter)
  <2>1. Found = before /\ Leaves(fat, l, last_entry.counter)
    BY <1>4, ZenonT(40) DEF DliInv, CopyDone
  <2>2. findLast(fat).last_file # l
    <3>1. findLast(fat).last_file = 1 - l /\ l \in {0, 1}
      BY <2>1, InvFacts, Zenon DEF Leaves
    <3> QED
      BY <3>1
  <2>3. files'[findLast(fat).last_file] = files[findLast(fat).last_file]
    BY <2>2, <1>3, InvFacts
  <2> QED BY <2>1, <2>3, Zenon DEF Found, CopyDone
<1> QED
  BY <1>1, <1>2, <1>3, <1>4, InvFacts, Zenon DEF DliInv, CopyDone

(* Whatever a copy that is not completed leaves in the file it writes, a   *)
(* restart finds the other one.                                            *)
LEMMA CopyInPart ==
  ASSUME DliInv, pc = "copy", NEW x \in Contents \cup {Torn},
         files' = [files EXCEPT ![last_entry.last_file] = x], fat' = fat
  PROVE  /\ files' \in [{0, 1} -> Contents \cup {Torn}]
         /\ agreed => /\ Found' = before
                      /\ findLast(fat).last_file # last_entry.last_file
<1>1. files' \in [{0, 1} -> Contents \cup {Torn}]
  BY Zenon DEF DliInv, DliTypeOK
<1>2. ASSUME agreed
      PROVE  /\ Found' = before
             /\ findLast(fat).last_file # last_entry.last_file
  <2>1. Found = before /\ findLast(fat).last_file = 1 - last_entry.last_file
    BY <1>2, Zenon DEF DliInv, Leaves
  <2>2. findLast(fat).last_file # last_entry.last_file
    BY <2>1, InvFacts, SMTT(30)
  <2>3. files'[findLast(fat).last_file] = files[findLast(fat).last_file]
    BY <2>2, InvFacts DEF DliInv, DliTypeOK
  <2> QED BY <2>1, <2>2, <2>3 DEF Found
<1> QED
  BY <1>1, <1>2

(* Whatever part of the entry is written, a restart finds the old file or  *)
(* the new one; the new one if all of it is written.                       *)
LEMMA FatInPartFound ==
  ASSUME DliInv, pc = "fat", NEW e \in FatInPart(last_entry),
         fat' = [fat EXCEPT ![last_entry.last_file] = e], files' = files
  PROVE  /\ fat' \in Table /\ InPlace(fat')
         /\ agreed /\ e = last_entry =>
              Found' = after /\ findLast(fat') = last_entry
         /\ agreed /\ e # last_entry =>
              Found' = before /\ findLast(fat').last_file # last_entry.last_file
<1> DEFINE l == last_entry.last_file
<1>1. /\ l \in {0, 1} /\ fat[l] \in Entry /\ last_entry \in Entry
      /\ fat \in Table /\ InPlace(fat) /\ last_entry.valid
  BY InvFacts DEF DliInv, Table
<1>2. e \in Entry /\ (e.valid => e.last_file = l)
  BY <1>1, BadEntry DEF FatInPart, InPlace
<1>3. fat' \in Table /\ InPlace(fat')
  BY <1>1, <1>2, SMTT(30) DEF Table, InPlace
<1>4. ASSUME agreed, e = last_entry
      PROVE  Found' = after /\ findLast(fat') = last_entry
  <2>1. PICK c \in Counter : last_entry.counter = Succ(c) /\ Leaves(fat, l, c)
    BY <1>4 DEF DliInv
  <2>2. findLast(fat') = last_entry
    BY <1>1, <1>4, <2>1, WrittenWins, Zenon
  <2> QED BY <1>4, <2>2, SMTT(30) DEF DliInv, Found
<1>5. ASSUME agreed, e # last_entry
      PROVE  Found' = before /\ findLast(fat').last_file # l
  <2>1. findLast(fat).last_file = 1 - l /\ Found = before
    BY <1>5, Zenon DEF DliInv, Leaves
  <2>2. findLast(fat').last_file = 1 - l
    <3>1. CASE e = fat[l]
      <4>1. fat' = fat
        BY <1>1, <3>1 DEF Table
      <4> QED BY <4>1, <2>1
    <3>2. CASE e = Bad
      BY <1>1, <2>1, <3>2, SpoiltLoses, Zenon
    <3> QED BY <1>5, <3>1, <3>2 DEF FatInPart
  <2> QED BY <1>1, <2>1, <2>2 DEF Found
<1> QED
  BY <1>3, <1>4, <1>5, SMTT(30)
-----------------------------------------------------------------------------
LEMMA CopyFailsStep ==
  ASSUME DliInv, CopyFails
  PROVE  DliInv'
<1>1. PICK x \in {files[last_entry.last_file], Torn} :
        files' = [files EXCEPT ![last_entry.last_file] = x]
  BY Zenon DEF CopyFails
<1>2. x \in Contents \cup {Torn}
  BY InvFacts DEF DliInv, DliTypeOK
<1>3. /\ files' \in [{0, 1} -> Contents \cup {Torn}]
      /\ agreed => Found' = before /\ findLast(fat).last_file # last_entry.last_file
  BY <1>1, <1>2, CopyInPart, Zenon DEF CopyFails
<1>4. DliTypeOK'
  BY <1>3 DEF DliInv, DliTypeOK, CopyFails
<1> QED
  BY <1>3, <1>4, Zenon DEF DliInv, CopyFails

LEMMA FatStep ==
  ASSUME DliInv, FatDone \/ FatFails
  PROVE  DliInv'
<1>1. PICK e \in FatInPart(last_entry) :
        /\ fat' = [fat EXCEPT ![last_entry.last_file] = e]
        /\ FatDone => e = last_entry
  BY DEF FatDone, FatFails, FatInPart
<1>2. /\ fat' \in Table /\ InPlace(fat')
      /\ agreed /\ e = last_entry => Found' = after /\ findLast(fat') = last_entry
      /\ agreed /\ e # last_entry =>
           Found' = before /\ findLast(fat').last_file # last_entry.last_file
  BY <1>1, FatInPartFound, Zenon DEF FatDone, FatFails
<1>3. DliTypeOK'
  BY <1>2 DEF DliInv, DliTypeOK, FatDone, FatFails, Table
<1>4. e = last_entry => fat'[last_entry.last_file] = last_entry
  BY <1>1, InvFacts DEF Table
<1>5. before' \in {before, after} /\ after' = after /\ (FatFails => before' = before)
  BY DEF FatDone, FatFails
<1>6. pc' = "idle" /\ agreed' = agreed /\ last_entry' = last_entry
  BY DEF FatDone, FatFails
<1>7. agreed => Found' \in {before', after'}
  BY <1>1, <1>2, <1>5
<1> QED
  BY <1>2, <1>3, <1>4, <1>6, <1>7, Zenon DEF DliInv

LEMMA EraseType ==
  ASSUME DliInv, EraseUnit
  PROVE  /\ fat' \in Table /\ InPlace(fat')
         /\ files' \in [{0, 1} -> Contents \cup {Torn}]
<1>1. unit \in 0..3 /\ fat \in Table /\ InPlace(fat)
      /\ files \in [{0, 1} -> Contents \cup {Torn}]
  BY InvFacts DEF DliInv, DliTypeOK
<1>2. CASE unit < 2
  <2>1. unit \in {0, 1} /\ files' = files
    BY <1>1, <1>2 DEF EraseUnit
  <2>2. PICK e \in {fat[unit], Bad} : fat' = [fat EXCEPT ![unit] = e]
    BY <1>1, <1>2 DEF EraseUnit
  <2>3. e \in Entry /\ (e.valid => e.last_file = unit)
    BY <1>1, <2>1, BadEntry DEF Table, InPlace
  <2> QED BY <1>1, <2>1, <2>2, <2>3 DEF Table, InPlace
<1>3. CASE unit >= 2
  <2>1. unit - 2 \in {0, 1} /\ fat' = fat
    BY <1>1, <1>3 DEF EraseUnit
  <2>2. PICK x \in {files[unit - 2], Torn, Empty} :
          files' = [files EXCEPT ![unit - 2] = x]
    BY <1>1, <1>3 DEF EraseUnit
  <2>3. x \in Contents \cup {Torn}
    BY <1>1, <2>1 DEF Empty, Contents
  <2> QED BY <1>1, <2>1, <2>2, <2>3
<1> QED
  BY <1>1, <1>2, <1>3, SMTT(30)

LEMMA ResetStep ==
  ASSUME DliInv, dli_reset
  PROVE  DliInv'
<1>1. unit' \in 0..3
  BY DEF dli_reset
<1>2. DliTypeOK'
  BY <1>1, Zenon DEF DliInv, DliTypeOK, dli_reset
<1> QED
  BY <1>2, Zenon DEF DliInv, dli_reset

LEMMA EraseStep ==
  ASSUME DliInv, Erase
  PROVE  DliInv'
<1>1. /\ fat' \in Table /\ InPlace(fat')
      /\ files' \in [{0, 1} -> Contents \cup {Torn}]
  BY EraseType DEF Erase
<1>2. ~agreed
  BY Zenon DEF DliInv, Erase
<1>3. CASE unit = 3
  <2>1. Empty \in Contents
    BY DEF Empty, Contents
  <2>2. agreed' \in BOOLEAN
    BY <1>3, Zenon DEF Erase
  <2>3. /\ pc' = "idle" /\ unit' = 0 /\ last_entry' = last_entry
        /\ before' = Empty /\ after' = Empty
    BY <1>3 DEF Erase
  <2>4. DliTypeOK'
    BY <1>1, <2>1, <2>2, <2>3 DEF DliInv, DliTypeOK, Table
  <2>5. ASSUME agreed'
        PROVE  /\ Found' = Empty
               /\ ~fat'[0].valid /\ ~fat'[1].valid
    <3>1. \A i \in {0, 1} : ~fat'[i].valid /\ files'[i] = Empty
      BY <1>3, <2>5 DEF Erase
    <3>2. findLast(fat').last_file \in {0, 1}
      BY <1>1, LastEntry
    <3> QED BY <3>1, <3>2 DEF Found
  <2>6. last_entry'.last_file \in {0, 1}
    BY InvFacts DEF Erase
  <2> QED
    BY <1>1, <1>3, <2>4, <2>5, <2>6, Zenon DEF DliInv, Erase
<1>4. CASE unit # 3
  <2>1. DliTypeOK'
    BY <1>1, <1>4 DEF DliInv, DliTypeOK, Erase, Table
  <2> QED
    BY <1>1, <1>2, <1>4, <2>1, Zenon DEF DliInv, Erase
<1> QED
  BY <1>3, <1>4

LEMMA PowerLossStep ==
  ASSUME DliInv, PowerLoss
  PROVE  DliInv'
<1> SUFFICES /\ fat' \in Table /\ InPlace(fat')
             /\ files' \in [{0, 1} -> Contents \cup {Torn}]
             /\ agreed => Found' \in {before, after}
  <2>1. /\ pc' = "off" /\ unit' = 0 /\ last_entry' = last_entry /\ before' = before
        /\ after' = after /\ agreed' = agreed
    BY Zenon DEF PowerLoss
  <2> QED
    BY <2>1 DEF DliInv, DliTypeOK, Table
<1>1. CASE pc = "idle"
  BY <1>1, InvFacts, Zenon DEF PowerLoss, DliInv, DliTypeOK, Found
<1>2. CASE pc = "copy"
  <2>1. PICK x \in {files[last_entry.last_file], Torn, after} :
          files' = [files EXCEPT ![last_entry.last_file] = x]
    BY <1>2 DEF PowerLoss
  <2>2. fat' = fat
    BY <1>2 DEF PowerLoss
  <2>3. x \in Contents \cup {Torn}
    BY InvFacts, Zenon DEF DliInv, DliTypeOK
  <2> QED BY <1>2, <2>1, <2>2, <2>3, CopyInPart, InvFacts, Zenon
<1>3. CASE pc = "fat"
  <2>1. PICK e \in FatInPart(last_entry) :
          fat' = [fat EXCEPT ![last_entry.last_file] = e]
    BY <1>3 DEF PowerLoss
  <2>2. files' = files /\ files \in [{0, 1} -> Contents \cup {Torn}]
    BY <1>3 DEF PowerLoss, DliInv, DliTypeOK
  <2> QED BY <1>3, <2>1, <2>2, FatInPartFound, Zenon
<1>4. CASE pc = "erase"
  BY <1>4, EraseType DEF PowerLoss, DliInv
<1> QED
  BY <1>1, <1>2, <1>3, <1>4, SMTT(30) DEF PowerLoss

LEMMA NextInv == DliInv /\ [DliNext]_dliVars => DliInv'
<1> SUFFICES ASSUME DliInv, [DliNext]_dliVars PROVE DliInv'
  OBVIOUS
<1>1. CASE UNCHANGED dliVars
  BY <1>1, Zenon DEF dliVars, DliInv, DliTypeOK, Found, Leaves, InPlace
<1>2. CASE \E k \in Keys, v \in Texts : dli_set(k, v)
  BY <1>2, SetStep
<1>3. CASE CopyDone \/ CopyFails \/ FatDone \/ FatFails
  BY <1>3, CopyDoneStep, CopyFailsStep, FatStep
<1>4. CASE dli_init \/ dli_reset \/ Erase \/ PowerLoss
  BY <1>4, InitStep, ResetStep, EraseStep, PowerLossStep
<1> QED
  BY <1>1, <1>2, <1>3, <1>4 DEF DliNext

(* dli_set() survives a power loss at any moment: a restart finds the      *)
(* settings of before or after the call.                                   *)
THEOREM DliRecoverable == DliSpec => []Recoverable
<1>1. DliInv => Recoverable
  BY Zenon DEF DliInv, Recoverable
<1> QED
  BY <1>1, InitInv, NextInv, PTL DEF DliSpec
-----------------------------------------------------------------------------
(* What config_load() makes of a file. *)
Load(file, k) ==
  IF file[k] = Missing \/ file[k] \in Words THEN Default ELSE MINMAX(Min, file[k], Max)

Loaded(file) == file # Torn /\ ram = [k \in Known |-> Load(file, k)]

(* As long as nothing has gone wrong, the variables are what config_load() *)
(* would make of the file that a restart finds, or of the one that the     *)
(* call in progress is to leave.                                           *)
ConfigInv ==
  /\ DliInv
  /\ ~troubled =>
       /\ agreed
       /\ pc \in {"off", "idle"} => Loaded(Found)
       /\ pc = "idle" => last_entry.last_file = findLast(fat).last_file
       /\ pc \in {"copy", "fat"} => Loaded(after)

LEMMA DefaultStays == Default \notin Words /\ MINMAX(Min, Default, Max) = Default
  BY ConfigAssumption DEF MINMAX

(* Setting a variable and loading the text that was stored for it agree. *)
LEMMA SetLoads ==
  ASSUME NEW old, NEW text
  PROVE  config_setInt(old, text, TRUE).var =
           IF text \in Words THEN Default ELSE MINMAX(Min, text, Max)
  BY DEF config_setInt

LEMMA StartLoads ==
  ASSUME ConfigInv, Start, Found # Torn
  PROVE  ram' = [k \in Known |-> Load(Found, k)]
<1>1. PICK text \in [Known -> Texts \cup {Default}] :
        /\ \A k \in Known : text[k] \in dli_get(Found, k, Default)
        /\ ram' = [k \in Known |-> config_setInt(ram[k], text[k], TRUE).var]
  BY Zenon DEF Start
<1>2. ASSUME NEW k \in Known
      PROVE  config_setInt(ram[k], text[k], TRUE).var = Load(Found, k)
  <2>1. text[k] = IF Found[k] = Missing THEN Default ELSE Found[k]
    BY <1>1, Zenon DEF dli_get
  <2> QED BY <2>1, SetLoads, DefaultStays, ZenonT(40) DEF Load
<1> QED
  BY <1>1, <1>2, Zenon

LEMMA ConfigInitInv == ConfigInit => ConfigInv
<1> SUFFICES ASSUME ConfigInit PROVE ConfigInv
  OBVIOUS
<1>1. DliInv
  BY InitInv DEF ConfigInit
<1>2. Found = Empty /\ Empty # Torn
  BY DliAssumption DEF ConfigInit, DliInit, Found, findLast, Bad, Empty, Contents
<1>3. \A k \in Known : Load(Empty, k) = Default
  BY ConfigAssumption DEF Load, Empty
<1>4. Loaded(Found)
  BY <1>2, <1>3 DEF Loaded, ConfigInit
<1> QED
  BY <1>1, <1>4 DEF ConfigInv, ConfigInit, DliInit

LEMMA CmdSetStep ==
  ASSUME ConfigInv, NEW k \in Keys, NEW v \in Texts, cmd_dli_set(k, v), ~troubled
  PROVE  agreed' /\ pc' = "copy" /\ Loaded(after)'
<1>1. /\ agreed /\ Loaded(Found) /\ Found \in Contents
      /\ last_entry.last_file = findLast(fat).last_file
  BY InvFacts DEF ConfigInv, cmd_dli_set, dli_set, Loaded
<1>2. after' = [Found EXCEPT ![k] = v]
  BY <1>1, SMTT(30) DEF cmd_dli_set, dli_set, ini_setString, Found, Loaded
<1>3. after' \in Contents /\ after' # Torn
  BY <1>1, <1>2, DliAssumption, ZenonT(40) DEF Contents
<1>4. after'[k] = v /\ \A j \in Keys : j # k => after'[j] = Found[j]
  BY <1>1, <1>2, Zenon DEF Contents
<1>5. v # Missing
  BY DliAssumption
<1>6. CASE k \in Known
  <2>1. v \notin Words /\ ram' = [ram EXCEPT ![k] = MINMAX(Min, v, Max)]
    BY <1>6 DEF cmd_dli_set, config_setInt
  <2>2. Load(after', k) = MINMAX(Min, v, Max)
    BY <1>4, <1>5, <2>1, Zenon DEF Load
  <2>3. \A j \in Known : j # k => Load(after', j) = Load(Found, j)
    BY <1>4, ConfigAssumption DEF Load
  <2>4. ram' = [j \in Known |-> Load(after', j)]
    BY <1>1, <2>1, <2>2, <2>3, Zenon DEF Loaded
  <2> QED BY <1>1, <1>3, <2>4, Zenon DEF Loaded, cmd_dli_set, dli_set
<1>7. CASE k \notin Known
  <2>1. \A j \in Known : Load(after', j) = Load(Found, j)
    BY <1>4, <1>7, ConfigAssumption, SMTT(30) DEF Load
  <2>2. ram' = [j \in Known |-> Load(after', j)]
    BY <1>1, <1>7, <2>1 DEF Loaded, cmd_dli_set
  <2> QED BY <1>1, <1>3, <2>2, Zenon DEF Loaded, cmd_dli_set, dli_set
<1> QED
  BY <1>6, <1>7

LEMMA StoredStep ==
  ASSUME ConfigInv, Stored, ~troubled
  PROVE  /\ agreed'
         /\ CopyDone => pc' = "fat" /\ Loaded(after)'
         /\ FatDone => /\ pc' = "idle" /\ Loaded(Found)'
                       /\ last_entry'.last_file = findLast(fat').last_file
<1>1. agreed /\ Loaded(after)
  BY Zenon DEF ConfigInv, Stored, CopyDone, FatDone
<1>2. agreed' /\ Loaded(after)'
  BY <1>1, Zenon DEF Stored, CopyDone, FatDone, Loaded
<1>3. ASSUME FatDone
      PROVE  Found' = after /\ findLast(fat') = last_entry
  <2>1. last_entry \in FatInPart(last_entry)
    BY DEF FatInPart
  <2> QED BY <1>1, <1>3, <2>1, FatInPartFound, Zenon DEF ConfigInv, FatDone
<1> QED
  BY <1>1, <1>2, <1>3 DEF CopyDone, FatDone, Stored, Loaded

LEMMA ConfigNextInv == ConfigInv /\ [ConfigNext]_configVars => ConfigInv'
<1> SUFFICES ASSUME ConfigInv, [ConfigNext]_configVars PROVE ConfigInv'
  OBVIOUS
<1>1. [DliNext]_dliVars
  BY Zenon DEF ConfigNext, Start, cmd_dli_set, Stored, Failed, cmd_dli_reset, Stop,
         configVars, DliNext
<1>2. DliInv'
  BY <1>1, NextInv DEF ConfigInv
<1>3. CASE UNCHANGED configVars
  BY <1>2, <1>3, Zenon DEF configVars, dliVars, ConfigInv, Loaded, Found
<1>4. CASE Start
  <2>1. Found' = Found /\ pc' = "idle" /\ agreed' /\ last_entry' = findLast(fat')
    BY <1>4, Zenon DEF Start, dli_init, Found
  <2>2. ~troubled' => Loaded(Found)'
    BY <1>4, <2>1, StartLoads, ZenonT(40) DEF Start, Loaded
  <2> QED BY <1>2, <2>1, <2>2, Zenon DEF ConfigInv
<1>5. CASE \E k \in Keys, v \in Texts : cmd_dli_set(k, v)
  <2>1. PICK k \in Keys, v \in Texts : cmd_dli_set(k, v)
    BY <1>5
  <2>2. pc' = "copy" /\ troubled' = troubled
    BY <2>1 DEF cmd_dli_set, dli_set
  <2>3. ~troubled => agreed' /\ Loaded(after)'
    BY <2>1, CmdSetStep, SMTT(30)
  <2> QED BY <1>2, <2>2, <2>3, Zenon DEF ConfigInv
<1>6. CASE Stored
  BY <1>2, <1>6, StoredStep DEF ConfigInv, Stored
<1>7. CASE Failed \/ cmd_dli_reset
  <2>1. troubled' = TRUE
    BY <1>7, Zenon DEF Failed, cmd_dli_reset
  <2> QED BY <1>2, <2>1, Zenon DEF ConfigInv
<1>8. CASE Stop
  <2>1. ~troubled' => /\ ~troubled /\ pc = "idle"
                      /\ fat' = fat /\ files' = files
    BY <1>8, Zenon DEF Stop, PowerLoss
  <2> QED BY <1>2, <1>8, <2>1 DEF ConfigInv, Stop, PowerLoss, Loaded, Found
<1> QED
  BY <1>3, <1>4, <1>5, <1>6, <1>7, <1>8 DEF ConfigNext

(* Clamping a value before or after it is stored makes no difference to    *)
(* what the board starts with.                                             *)
THEOREM ConfigStartsAsItRan == ConfigSpec => StartsAsItRan
<1>1. ConfigInv /\ [ConfigNext]_configVars => [Start /\ ~troubled => ram' = ram]_configVars
  <2> SUFFICES ASSUME ConfigInv, Start, ~troubled PROVE ram' = ram
    OBVIOUS
  <2>1. Loaded(Found)
    BY Zenon DEF ConfigInv, Start, dli_init
  <2> QED BY <2>1, StartLoads DEF Loaded
<1> QED
  BY <1>1, ConfigInitInv, ConfigNextInv, PTL DEF ConfigSpec, StartsAsItRan
=============================================================================
