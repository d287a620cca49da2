---------------------------- MODULE KFileBlock ----------------------------
(***************************************************************************)
(* The file io/kfile_block.c makes of a block device: reads and writes of  *)
(* any length at a seek position, cut at the block boundaries by the loop  *)
(* of the macro KFILEBLOCK.  One iteration of the loop is one step: it     *)
(* makes one call of kblock_read() or kblock_write().                      *)
(***************************************************************************)
EXTENDS KBlock, Sequences, TLC

CONSTANTS MaxReq      \* the longest request of a caller

VARIABLES seek_pos,   \* fd->seek_pos
          dir,        \* the running call: "read", "write", or "none"
          data,       \* bytes of the caller: all of them, or those read so far
          size,       \* what is left of the size asked for
          at_call     \* ghost: seek_pos and the bytes of the file at the call

fvars == <<seek_pos, dir, data, size, at_call, vars>>

(* Positions of the file, and one beyond: kfile_genericSeek() only logs a  *)
(* seek past the end.                                                      *)
FileSize == blk_cnt * BlkSize
Pos == 0 .. FileSize - 1

FileByte(p) == kblock_read(p \div BlkSize)[p % BlkSize]

len == seek_pos - at_call.pos

FileInit ==
  /\ Init
  /\ seek_pos = 0
  /\ dir = "none"
  /\ data = <<>>
  /\ size = 0
  /\ at_call = [pos |-> 0, file |-> <<>>]

(* kfile_genericSeek(), whatever the mode.                                 *)
kfile_genericSeek(p) ==
  /\ dir = "none"
  /\ seek_pos' = p
  /\ at_call' = [at_call EXCEPT !.pos = p]
  /\ UNCHANGED <<dir, data, size, vars>>

Call(d, bytes, n) ==
  /\ dir = "none"
  /\ dir' = d
  /\ data' = bytes
  /\ size' = n
  /\ at_call' = [pos |-> seek_pos, file |-> [p \in Pos |-> FileByte(p)]]
  /\ UNCHANGED <<seek_pos, vars>>

kfileblock_read(n) == Call("read", <<>>, n)
kfileblock_write(bytes) == Call("write", bytes, Len(bytes))

id == seek_pos \div BlkSize
offset == seek_pos % BlkSize
count == IF size < BlkSize - offset THEN size ELSE BlkSize - offset

(* The loop ends on a short call, at the end of the device, or when        *)
(* nothing is left.                                                        *)
Advance(ret) ==
  /\ size' = size - ret
  /\ seek_pos' = seek_pos + ret
  /\ dir' = IF ret # count \/ size' = 0 THEN "none" ELSE dir
  /\ UNCHANGED at_call

(* The position is past the last block.                                    *)
KFILEBLOCK_end ==
  /\ dir # "none"
  /\ id >= blk_cnt
  /\ dir' = "none"
  /\ UNCHANGED <<seek_pos, data, size, at_call, vars>>

(* An iteration of a read: a block in the buffer is read whole, the device *)
(* may stop short after l bytes.                                           *)
KFILEBLOCK_read(l) ==
  /\ dir = "read" /\ id < blk_cnt
  /\ LET ret == IF l < count THEN l ELSE count
     IN  /\ buffered /\ id = curr_blk => ret = count
         /\ data' = data \o [k \in 1 .. ret |-> kblock_read(id)[offset + k - 1]]
         /\ Advance(ret)
  /\ UNCHANGED vars

(* The bytes of an iteration taken from the beginning of the caller's.     *)
KFILEBLOCK_write_mutant(s, l) ==
  /\ dir = "write" /\ id < blk_cnt
  /\ LET ret == WriteLen(id, offset, offset + count, s, l)
         bytes == [o \in offset .. offset + count - 1 |-> data[1 + o - offset]]
     IN  /\ kblock_write(id, offset, offset + count, bytes, s, l)
         /\ Written(id, offset, ret, bytes)
         /\ Advance(ret)
  /\ UNCHANGED data

(* An iteration of a write.                                                *)
KFILEBLOCK_write(s, l) ==
  /\ dir = "write" /\ id < blk_cnt
  /\ LET ret == WriteLen(id, offset, offset + count, s, l)
         bytes == [o \in offset .. offset + count - 1 |-> data[len + 1 + o - offset]]
     IN  /\ kblock_write(id, offset, offset + count, bytes, s, l)
         /\ Written(id, offset, ret, bytes)
         /\ Advance(ret)
  /\ UNCHANGED data

kfileblock_flush(s) ==
  /\ dir = "none"
  /\ kblock_flush(s)
  /\ UNCHANGED <<content, seek_pos, dir, data, size, at_call>>

(* Between two calls the owner of the device copies and trims its blocks.  *)
Device ==
  /\ dir = "none"
  /\ Copy \/ Trim
  /\ UNCHANGED <<seek_pos, dir, data, size, at_call>>

FileNext ==
  \/ \E p \in 0 .. FileSize + 1 : kfile_genericSeek(p)
  \/ \E n \in 1 .. MaxReq : kfileblock_read(n) \/ \E bytes \in [1 .. n -> Byte] : kfileblock_write(bytes)
  \/ KFILEBLOCK_end
  \/ \E l \in 0 .. BlkSize : KFILEBLOCK_read(l)
  \/ \E s \in StoreResults, l \in LoadResults : KFILEBLOCK_write(s, l)
  \/ \E s \in StoreResults : kfileblock_flush(s)
  \/ Device

(* The bytes are only moved, never looked at. *)
ByteSymmetry == Permutations(Byte)

FileSpec == FileInit /\ [][FileNext]_fvars

---------------------------------------------------------------------------

(* However a request is cut into blocks and wherever an iteration stops    *)
(* short, what a call reports by moving seek_pos is exactly what it moved: *)
(* a read returns the file's bytes from where it began, and a write has    *)
(* changed those bytes and no other.                                       *)
ReturnIsExact ==
  [][dir # "none" /\ dir' = "none" =>
       LET moved == seek_pos' - at_call.pos IN
       /\ dir = "read" =>
            data' = [k \in 1 .. moved |-> at_call.file[at_call.pos + k - 1]]
       /\ dir = "write" =>
            \A p \in Pos : FileByte(p)' = IF p \in at_call.pos .. seek_pos' - 1
                                          THEN data[p - at_call.pos + 1] ELSE at_call.file[p]]_fvars
===========================================================================
