-------------------------------- MODULE Boot --------------------------------
(***************************************************************************)
(* The boot loader (boot/main.c): it receives a firmware over TFTP, writes *)
(* it to the flash of the STM32F2 through the buffered block device        *)
(* (bertos/cpu/cortex-m3/drv/flash_stm32.c under bertos/io/kblock.c),      *)
(* checks its CRC and jumps to it.                                         *)
(*                                                                         *)
(* A cell of a file fills one flash page.  The device keeps one page in    *)
(* RAM and stores it when the file moves to another page; storing the      *)
(* first page of a sector erases the sector, storing any other page        *)
(* programs what is there, which only works on erased flash.  The board    *)
(* may be reset at any time, in the middle of a store too.                 *)
(***************************************************************************)
EXTENDS Tftp

CONSTANTS Sector,  \* pages in a sector
          Erased,  \* a page of erased flash
          Garbage  \* a page programmed over something else

Pages == 1 .. CHOOSE n \in Files : \A f \in Files : f <= n

ASSUME BootAssumption ==
  /\ Sector \in Nat \ {0}
  /\ Erased # Garbage
  /\ \E n \in Files : \A f \in Files : f <= n   \* the flash holds the longest

VARIABLES pc,     \* what main() is doing
          first,  \* this is main()'s first receiveFirmware
          flash,  \* the pages of the flash, from TRIM_START on
          cache,  \* the page in RAM: [curr_blk, dirty, page]
          chunk,  \* what of recv_buf is still to be written
          full,   \* recv_buf was filled: rd == sizeof(recv_buf)
          pos     \* seek_pos of the flash file, in pages

bootVars == <<pc, first, flash, cache, chunk, full, pos>>
boardVars == <<tftpVars, bootVars>>

Whole(f, content) == \A i \in 1..f : content[i] = Cell(f, i)

-----------------------------------------------------------------------------
\* The flash.

\* stm32_flash_writeDirect: the flash after page p was stored with v.
Store(p, v) ==
  LET starts == (p - 1) % Sector = 0
      same(i) == (i - 1) \div Sector = (p - 1) \div Sector
      old == IF starts THEN Erased ELSE flash[p]
  IN  [i \in Pages |->
         CASE i = p -> IF old \in {Erased, v, [v EXCEPT !.whole = FALSE]}
                       THEN v ELSE Garbage
           [] i # p /\ starts /\ same(i) -> Erased
           [] OTHER -> flash[i]]

\* A store that failed, or that a reset interrupted: not begun, in the
\* erasure of the sector, after it, or with some words programmed.
Interrupted(p, v) ==
  LET done == Store(p, v)
      starts == (p - 1) % Sector = 0
  IN  {flash, [done EXCEPT ![p] = IF @ = v THEN [v EXCEPT !.whole = FALSE] ELSE @]}
      \union IF ~starts THEN {}
             ELSE {[done EXCEPT ![p] = Erased],
                   [i \in Pages |-> IF i = p \/ done[i] # flash[i]
                                    THEN Garbage ELSE flash[i]]}

\* kblock_flush: the flash, once a dirty page is stored.
Flushed == IF cache.dirty THEN Store(cache.curr_blk, cache.page) ELSE flash

\* The store of a dirty page fails; it stays dirty.
StoreFails ==
  /\ cache.dirty /\ Fault
  /\ flash' \in Interrupted(cache.curr_blk, cache.page)

Loaded(content, p) == [curr_blk |-> p, dirty |-> FALSE, page |-> content[p]]

-----------------------------------------------------------------------------
\* receiveFirmware.

\* It returns false: main() checks the CRC the first time, and listens again
\* every other time.
Failed == pc' = IF first THEN "crc" ELSE "listen"

\* tftp_listen times out.  Later calls only start over.
ListenTimeout ==
  /\ pc = "listen" /\ first
  /\ Failed
  /\ session' = Session(session.addr)
  /\ UNCHANGED <<net, acks, client, faults, first, flash, cache, chunk, full>>
  /\ pos' = 0

\* tftp_listen receives a datagram.  A write request with a good name opens
\* the session, and the first tftp_read acknowledges it; a bad name is
\* answered with an error; anything else is discarded.
Listen(d) ==
  /\ pc = "listen"
  /\ Arrives(d)
  /\ session' = Session(d.tid)
  /\ pos' = 0
  /\ \/ /\ d.n = 0 /\ d.file \in Accepted
        /\ acks' = acks \union {Reply(d.tid, 0)}
        /\ pc' = "read"
     \/ /\ d.n = 0 /\ d.file \notin Accepted
        /\ acks' = acks \union {Reply(d.tid, Error)}
        /\ Failed
     \/ d.n # 0 /\ Failed /\ UNCHANGED acks
  /\ UNCHANGED <<client, first, flash, cache, chunk, full>>

\* tftp_read returns what it was asked for, or what is left of the file.
Read(s) ==
  /\ chunk' = Chunk(s)
  /\ full' = (Len(Chunk(s)) = Buffer)
  /\ session' = Rest(s)
  /\ pc' = "write"

Enough == Len(session.data) >= Buffer \/ session.is_xfer_end

tftp_read ==
  /\ pc = "read" /\ Enough
  /\ Read(session)
  /\ UNCHANGED <<net, acks, client, faults, first, flash, cache, pos>>

\* tftp_read waits for a packet, and gets one.
ReadPacket(d) ==
  /\ pc = "read" /\ ~Enough
  /\ Arrives(d)
  /\ checkPacket(session, d) # "err"
  /\ acks' = acks \union Answer(session, d)
  /\ IF checkPacket(session, d) = "ok"
     THEN Read(Filled(session, d))
     ELSE UNCHANGED <<session, pc, chunk, full>>
  /\ UNCHANGED <<client, first, flash, cache, pos>>

\* tftp_read returns 0 and copies errno.  When that is 0, as it may be after
\* a timeout, receiveFirmware takes it for the end of the file.
ReadError ==
  /\ session' = [session EXCEPT !.data = <<>>]
  /\ \/ Failed /\ UNCHANGED <<chunk, full>>
     \/ pc' = "write" /\ chunk' = <<>> /\ full' = FALSE
  /\ UNCHANGED <<acks, client, first, flash, cache, pos>>

\* A packet that is out of order, or whose acknowledgement cannot be sent.
BadPacket(d) ==
  /\ pc = "read" /\ ~Enough
  /\ \/ checkPacket(session, d) = "err" /\ Arrives(d)
     \/ checkPacket(session, d) # "err" /\ d \in net /\ net' = net \ {d} /\ Fault
  /\ ReadError

\* No packet for RECV_TIMEOUT.  A client that waits for the board resends
\* sooner, so that this is a fault while there is one.
ReadTimeout ==
  /\ pc = "read" /\ ~Enough
  /\ IF net = {} /\ ~client.busy THEN NoFault ELSE Fault
  /\ ReadError
  /\ UNCHANGED net

\* kfile_write, one page at a time.
Write ==
  /\ pc = "write" /\ chunk # <<>>
  /\ IF cache.curr_blk = pos + 1 THEN UNCHANGED flash ELSE flash' = Flushed
  /\ cache' = [curr_blk |-> pos + 1, dirty |-> TRUE, page |-> Head(chunk)]
  /\ pos' = pos + 1
  /\ chunk' = Tail(chunk)
  /\ UNCHANGED <<tftpVars, pc, first, full>>

WriteFails ==
  /\ pc = "write" /\ chunk # <<>> /\ cache.curr_blk # pos + 1
  /\ StoreFails
  /\ Failed
  /\ chunk' = <<>>
  /\ UNCHANGED <<net, acks, client, session, first, cache, full, pos>>

\* recv_buf is written; the last one is followed by kfile_flush, whose
\* result is ignored.
Written ==
  /\ pc = "write" /\ chunk = <<>>
  /\ \/ full /\ pc' = "read" /\ UNCHANGED <<flash, cache, faults>>
     \/ /\ ~full /\ pc' = "crc"
        /\ \/ flash' = Flushed /\ cache' = [cache EXCEPT !.dirty = FALSE] /\ NoFault
           \/ StoreFails /\ UNCHANGED cache
  /\ UNCHANGED <<net, acks, client, session, first, chunk, full, pos>>

-----------------------------------------------------------------------------
\* main().

\* Mutant: the last page is left out of the CRC.
CrcOk_mutant(f, content) == \A i \in 1..(f - 1) : content[i] = Cell(f, i)

\* The CRC of the file the header names matches.
CrcOk(f, content) == Whole(f, content)

\* kblock_read: page i is read from RAM when it is there, from the flash when
\* it is not.  Nothing is stored or loaded for it.
ReadPage(i) == IF i = cache.curr_blk THEN cache.page ELSE flash[i]

\* crcCheckOk.  The header is in page 1.  A page that is dirty in RAM is
\* checked there, and the flash may still lack it.  The next receiveFirmware
\* seeks back to 0.
CrcCheck ==
  /\ pc = "crc"
  /\ pc' = IF \E f \in Files :
                ReadPage(1) = Cell(f, 1) /\ CrcOk(f, [i \in Pages |-> ReadPage(i)])
           THEN "app" ELSE "listen"
  /\ first' = FALSE
  /\ pos' = 0
  /\ UNCHANGED <<tftpVars, flash, cache, chunk, full>>

\* The board starts: init(), tftp_init.
Start ==
  /\ pc' = "listen" /\ first' = TRUE
  /\ chunk' = <<>> /\ full' = FALSE /\ pos' = 0
  /\ session' = Session(0)
  /\ cache' = Loaded(flash', 1)
  /\ UNCHANGED <<net, acks, client>>

\* A reset, which may interrupt a store: that of the page in RAM when the
\* file moves to another one, or the last flush.
Reset ==
  /\ Fault
  /\ \/ UNCHANGED flash
     \/ /\ pc = "write" /\ cache.dirty
        /\ IF chunk = <<>> THEN ~full ELSE cache.curr_blk # pos + 1
        /\ flash' \in Interrupted(cache.curr_blk, cache.page)
  /\ Start

-----------------------------------------------------------------------------
Serving == pc \in {"read", "write", "crc"}

\* The board does not serve the attempt the client is making.
Ignored ==
  /\ client.busy
  /\ pc # "listen" \/ client.sent # 0
  /\ ~Serving \/ session.addr # client.tid

\* A client sends a file whose name the board accepts, starts while the board
\* listens (it waits longer than RECV_TIMEOUT after another attempt), resends
\* a packet when it would have been answered by now, and gives up when the
\* board does not serve it; anything else is a fault.
BeginAttempt ==
  /\ \E f \in Files :
       /\ ClientStart(f)
       /\ IF pc = "listen" /\ f \in Accepted THEN NoFault ELSE Fault
  /\ UNCHANGED <<session, bootVars>>

EndAttempt ==
  /\ ClientGiveUp
  /\ IF Ignored THEN NoFault ELSE Fault
  /\ UNCHANGED bootVars

Resend ==
  /\ ClientResend
  /\ IF net = {} /\ acks = {} /\ pc \in {"listen", "read"} THEN NoFault ELSE Fault
  /\ UNCHANGED bootVars

Client ==
  \/ BeginAttempt
  \/ EndAttempt
  \/ Resend
  \/ (\E a \in acks : ClientReceive(a)) /\ UNCHANGED bootVars

Board ==
  \/ ListenTimeout
  \/ \E d \in net : Listen(d) \/ ReadPacket(d) \/ BadPacket(d)
  \/ tftp_read \/ ReadTimeout
  \/ Write \/ Written \/ CrcCheck

Faulty ==
  \/ Lose /\ UNCHANGED bootVars
  \/ WriteFails \/ Reset

\* The flash is empty or holds a firmware when the board is switched on.
BootInit ==
  /\ TftpInit
  /\ pc = "listen" /\ first = TRUE
  /\ chunk = <<>> /\ full = FALSE /\ pos = 0
  /\ \/ flash = [i \in Pages |-> Erased]
     \/ \E f \in Accepted :
          flash = [i \in Pages |-> IF i <= f THEN Cell(f, i) ELSE Erased]
  /\ cache = Loaded(flash, 1)

BootNext == Board \/ Client \/ Faulty

Fairness ==
  /\ WF_boardVars(Board)
  /\ WF_boardVars(BeginAttempt /\ NoFault)
  /\ WF_boardVars(EndAttempt /\ NoFault)
  /\ WF_boardVars(Resend /\ NoFault)
  /\ WF_boardVars((\E a \in acks : ClientReceive(a)) /\ UNCHANGED bootVars)

BootSpec == BootInit /\ [][BootNext]_boardVars /\ Fairness

-----------------------------------------------------------------------------
\* The board jumps to the application only when the flash holds one firmware
\* from its first page to its last, whatever was lost, repeated, reordered,
\* mixed from two transfers or torn by a reset since receiveFirmware
\* (boot/main.c) began to overwrite the old one.  One page may be missing:
\* the one that is still dirty in RAM, because the last flush, whose result
\* receiveFirmware ignores, failed, or because the transfer broke off on it.
\* crcCheckOk reads that page in RAM, where it is right.
RunsWholeFirmware ==
  pc = "app" =>
    \E f \in Files : \A i \in 1..f :
      \/ flash[i] = Cell(f, i)
      \/ cache.dirty /\ cache.curr_blk = i /\ cache.page = Cell(f, i)

\* Every page of a file is in its place, and while receiveFirmware runs the
\* flash holds all the pages before the one in RAM, whole: neither the
\* acknowledgements nor the leftover that tftp_read carries from one packet
\* into the next recv_buf ever skip, repeat or shift a part of the file, and
\* the pages are only programmed on erased flash.
PagesInPlace ==
  /\ \A i \in Pages : flash[i] \notin {Erased, Garbage} => flash[i].at = i
  /\ pc \in {"read", "write"} /\ pos # 0 =>
       /\ cache.curr_blk = pos /\ cache.page.at = pos
       /\ \A i \in 1..(pos - 1) : \E f \in Files : flash[i] = Cell(f, i)

\* Once faults stop, the board ends by jumping to an application: a lost
\* acknowledgement, a session left by its client, one opened by a late
\* request, a page torn by a reset or left dirty by a transfer that broke off
\* never keep it from being reprogrammed.  (RunsWholeFirmware says what is in
\* the flash then.)
BoardStarts == []<>(pc = "app")
=============================================================================
