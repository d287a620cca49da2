-------------------------------- MODULE Tftp --------------------------------
(***************************************************************************)
(* The TFTP server of bertos/net/tftp.c, the network it listens to and the *)
(* client that sends it a file.                                            *)
(*                                                                         *)
(* A file is named by its length, counted in cells: the firmware is cut    *)
(* into cells, a full packet carries Packet of them (512 bytes) and the    *)
(* reader asks for Buffer at a time (300 bytes, which do not divide 512).  *)
(* The datagrams on their way are a set: they arrive in any order, may be  *)
(* lost and may arrive twice.  The client, external, sends one packet and  *)
(* waits for its acknowledgement; every attempt uses another port, `tid'.  *)
(* A fault (a loss, a duplicate, an untimely timeout...) costs one of      *)
(* MaxFaults.                                                              *)
(***************************************************************************)
EXTENDS Naturals, Sequences

CONSTANTS Files,     \* the files a client may send, each named by its length
          Accepted,  \* those whose name receiveFirmware accepts
          Packet,    \* cells in a full packet
          Buffer,    \* cells the reader asks for at a time
          MaxFaults  \* bound on the faults of a behaviour

ASSUME TftpAssumption ==
  /\ Files \subseteq Nat \ {0, 1} /\ Accepted \subseteq Files
  /\ Packet \in Nat \ {0} /\ Buffer \in Nat \ {0} /\ MaxFaults \in Nat

VARIABLES net,      \* datagrams on their way to the board
          acks,     \* acknowledgements and errors on their way to the client
          client,   \* [busy, tid, file, sent]: `sent' is the packet it waits on
          session,  \* TftpSession: [addr, block, data, is_xfer_end]
          faults    \* how many faults there were

tftpVars == <<net, acks, client, session, faults>>

Min2(a, b) == IF a < b THEN a ELSE b

Cell(f, i) == [file |-> f, at |-> i, whole |-> TRUE]
Blocks(f) == f \div Packet + 1
Data(f, n) == [i \in 1 .. Min2(Packet, f - (n - 1) * Packet) |->
                 Cell(f, (n - 1) * Packet + i)]

\* Packet 0 is the write request, packet n > 0 is data block n.
Datagram(c) == [tid |-> c.tid, file |-> c.file, n |-> c.sent]
Reply(tid, n) == [tid |-> tid, n |-> n]
Error == 100

Fault == faults < MaxFaults /\ faults' = faults + 1
NoFault == UNCHANGED faults

-----------------------------------------------------------------------------
\* The client.

ClientStart(f) ==
  LET c == [busy |-> TRUE, tid |-> 1 - client.tid, file |-> f, sent |-> 0]
  IN  /\ ~client.busy
      /\ client' = c
      /\ net' = {d \in net : d.tid # c.tid} \union {Datagram(c)}
      /\ acks' = {}

ClientResend ==
  /\ client.busy /\ Datagram(client) \notin net
  /\ net' = net \union {Datagram(client)}
  /\ UNCHANGED <<acks, client, session>>

ClientReceive(a) ==
  /\ a \in acks
  /\ acks' = acks \ {a}
  /\ LET mine == client.busy /\ a.tid = client.tid
         done == a.n = Error \/ client.sent = Blocks(client.file)
         next == [client EXCEPT !.sent = @ + 1]
     IN  IF ~mine \/ a.n \notin {client.sent, Error}
         THEN UNCHANGED <<client, net>>
         ELSE IF done
         THEN client' = [client EXCEPT !.busy = FALSE] /\ UNCHANGED net
         ELSE client' = next /\ net' = net \union {Datagram(next)}
  /\ UNCHANGED <<session, faults>>

ClientGiveUp ==
  /\ client.busy
  /\ client' = [client EXCEPT !.busy = FALSE]
  /\ UNCHANGED <<net, acks, session>>

-----------------------------------------------------------------------------
\* The network.

Lose ==
  /\ Fault
  /\ \/ \E d \in net : net' = net \ {d} /\ UNCHANGED acks
     \/ \E a \in acks : acks' = acks \ {a} /\ UNCHANGED net
  /\ UNCHANGED <<client, session>>

\* d arrives, and may arrive again later.
Arrives(d) ==
  /\ d \in net
  /\ \/ net' = net \ {d} /\ NoFault
     \/ net' = net /\ Fault

-----------------------------------------------------------------------------
\* The server.

\* resetTftpState, and the address of the write request.
Session(tid) == [addr |-> tid, block |-> 0, data |-> <<>>, is_xfer_end |-> FALSE]

\* Mutant: a block received before passes for the next one.
checkPacket_mutant(s, d) ==
  CASE d.n = 0 -> IF s.block = 0 THEN "dup" ELSE "err"
    [] d.n > s.block + 1 -> "err"
    [] OTHER -> "ok"

\* checkPacket: what the datagram is in this session.  The sender is not
\* compared with the one of the write request.
checkPacket(s, d) ==
  CASE d.n = 0 -> IF s.block = 0 THEN "dup" ELSE "err"
    [] d.n > s.block + 1 -> "err"
    [] d.n > 0 /\ d.n < s.block + 1 -> "dup"
    [] OTHER -> "ok"

\* Mutant: a duplicate is not acknowledged again.
Answer_mutant(s, d) ==
  IF checkPacket(s, d) = "ok" THEN {Reply(s.addr, s.block + 1)} ELSE {}

\* The acknowledgement checkPacket sends: of the new block, or again of the
\* last one for a duplicate.
Answer(s, d) ==
  CASE checkPacket(s, d) = "ok" -> {Reply(s.addr, s.block + 1)}
    [] checkPacket(s, d) = "dup" -> {Reply(s.addr, s.block)}
    [] OTHER -> {}

\* The session after tftp_readPacket returned d to tftp_read: what was left
\* of the packet before has been copied, and d's cells follow.
Filled(s, d) ==
  LET cells == Data(d.file, d.n)
  IN  [s EXCEPT !.block = @ + 1,
                !.data = @ \o cells,
                !.is_xfer_end = Len(cells) < Packet]

\* What a call of tftp_read returns once enough is buffered or the transfer
\* is over, and what it leaves for the next call.
Chunk(s) == SubSeq(s.data, 1, Min2(Buffer, Len(s.data)))
Rest(s) == [s EXCEPT !.data = SubSeq(@, Len(Chunk(s)) + 1, Len(@))]

TftpInit ==
  /\ net = {} /\ acks = {} /\ faults = 0
  /\ client = [busy |-> FALSE, tid |-> 0, file |-> 0, sent |-> 0]
  /\ session = Session(0)
=============================================================================
