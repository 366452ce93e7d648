----------------------------- MODULE SerialLink -----------------------------
(***************************************************************************)
(* File transfer over the serial line: the receive and send routines of    *)
(* FLOS (FLOS_serial_code_v104.asm) and the program Serial Link on the PC, *)
(* here the host (Serial_link_v3_3.pb).                                    *)
(*                                                                         *)
(* A transfer is a header block and the blocks of the file, each of which  *)
(* waits for the acknowledge "OK".  The line carries bytes; a block is     *)
(* Bytes of them, the last of them the checksum, and its checksum is good  *)
(* when exactly its own bytes are put together.  FLOS has room for one     *)
(* byte that it has not read, the host for a block.                        *)
(*                                                                         *)
(* Times.  A byte takes far less than any timeout, so nobody gives up      *)
(* while bytes are on their way.  FLOS waits one second inside a file, the *)
(* host two or more, so FLOS gives up first when both wait.                *)
(***************************************************************************)
EXTENDS Integers, Sequences, SequencesExt

CONSTANTS
  Files,       \* the files that are sent
  Length,      \* the blocks of a file
  Room,        \* the blocks of a file that lie within the memory of FLOS
  Bytes,       \* bytes in a block with its checksum, 258
  MaxFaults,   \* bound on the bytes the line loses, spoils or invents
  RX           \* FLOS receives with the command RX, not with kernal calls

ASSUME SerialLinkAssumption ==
  /\ Length \in [Files -> Nat \ {0}]
  /\ Room \in [Files -> Nat]
  /\ Bytes \in Nat /\ Bytes >= 2
  /\ MaxFaults \in Nat
  /\ RX \in BOOLEAN
  /\ Files \cap {"*", "none", "OK", "XX", "noise"} = {}

VARIABLES
  toFlos, toHost,   \* bytes on the line
  reg,              \* sys_serial_port: no byte or one byte
  flos,             \* what FLOS is doing, and
  fgot,             \*   the bytes of the block or acknowledge it has
  ffile,            \*   the file it wants ("*" for any), receives or sends
  fno,              \*   the block it has sent last
  fstored,          \*   the blocks it has stored
  fresult,          \*   how the last transfer ended
  host,             \* the same of the host
  hbuf, hfile, hno, hstored, hresult,
  faults            \* faults of the line so far, for the bound

line  == <<toFlos, toHost, reg>>
fvars == <<flos, fgot, ffile, fno, fstored, fresult>>
hvars == <<host, hbuf, hfile, hno, hstored, hresult>>
vars  == <<line, fvars, hvars, faults>>

Byte(of, no, k) == [of |-> of, no |-> no, k |-> k]
Block(f, i) == [k \in 1 .. Bytes |-> Byte(f, i, k)]     \* block 0 is the header
OK    == <<Byte("OK", 0, 1), Byte("OK", 0, 2)>>
XX    == <<Byte("XX", 0, 0), Byte("XX", 0, 0)>>
Noise == Byte("noise", 0, 0)

IsBlock(s, i)  == \E f \in Files : s = Block(f, i)
GoodSum(s)     == \E f \in Files : \E i \in 0 .. Length[f] : s = Block(f, i)
FileOf(s)      == s[1].of
Whole(f)       == [i \in 1 .. Length[f] |-> Block(f, i)]

Init ==
  /\ toFlos = <<>> /\ toHost = <<>> /\ reg = <<>>
  /\ flos = "idle" /\ fgot = <<>> /\ ffile = "none" /\ fno = 0
  /\ fstored = <<>> /\ fresult = "none"
  /\ host = "idle" /\ hbuf = <<>> /\ hfile = "none" /\ hno = 0
  /\ hstored = <<>> /\ hresult = "none"
  /\ faults = 0

-----------------------------------------------------------------------------
(* The line.                                                               *)

Polling == flos \in {"rx_header", "rx_block", "tx"}

(* FLOS reads a byte before the next one comes, while it polls.  When it   *)
(* does not, the next byte takes the place of the one before.              *)
DeliverToFlos ==
  /\ toFlos # <<>> /\ (Polling => reg = <<>>)
  /\ reg' = <<Head(toFlos)>> /\ toFlos' = Tail(toFlos)
  /\ UNCHANGED <<toHost, fvars, hvars, faults>>

DeliverToHost ==
  /\ toHost # <<>> /\ toHost' = Tail(toHost)
  /\ hbuf' = IF Len(hbuf) < Bytes THEN Append(hbuf, Head(toHost)) ELSE hbuf
  /\ UNCHANGED <<toFlos, reg, fvars, host, hfile, hno, hstored, hresult, faults>>

Fault == faults < MaxFaults /\ faults' = faults + 1
         /\ UNCHANGED <<reg, fvars, hvars>>

Lose ==
  /\ Fault
  /\ \/ toFlos # <<>> /\ toFlos' = Tail(toFlos) /\ UNCHANGED toHost
     \/ toHost # <<>> /\ toHost' = Tail(toHost) /\ UNCHANGED toFlos

Spoil ==
  /\ Fault
  /\ \/ toFlos # <<>> /\ toFlos' = <<Noise>> \o Tail(toFlos) /\ UNCHANGED toHost
     \/ toHost # <<>> /\ toHost' = <<Noise>> \o Tail(toHost) /\ UNCHANGED toFlos

Glitch == Fault /\ toFlos = <<>> /\ toFlos' = <<Noise>> /\ UNCHANGED toHost

Quiet == toFlos = <<>> /\ toHost = <<>>

FlosCanAct == (Polling /\ reg # <<>>) \/ (RX /\ flos = "accept")
HostCanAct ==
  \/ host = "tx" /\ Len(hbuf) >= 2
  \/ host \in {"rx_header", "rx_block"} /\ Len(hbuf) = Bytes

(* A clock runs out only when nothing else is about to happen.             *)
Still == Quiet /\ ~FlosCanAct /\ ~HostCanAct

-----------------------------------------------------------------------------
(* FLOS.                                                                   *)

FlosEnds(result) == /\ flos' = "idle" /\ fresult' = result
                    /\ fgot' = <<>> /\ ffile' = "none" /\ fno' = 0

(* Someone types the command, slowly: when the line is quiet, and the host *)
(* no longer waits inside a file.  (It does for two seconds.  Who is       *)
(* faster has the header stored as data, as in the run serial_kernal.)     *)
FlosMayStart == flos = "idle" /\ Still /\ host # "rx_block"

(* os_cmd_rx reads the port first; kjt_serial_receive_header does not.     *)
FlosReceive(want) ==
  /\ FlosMayStart
  /\ reg' = IF RX THEN <<>> ELSE reg
  /\ flos' = "rx_header" /\ ffile' = want
  /\ fgot' = <<>> /\ fstored' = <<>> /\ fresult' = "none"
  /\ UNCHANGED <<toFlos, toHost, fno, hvars, faults>>

FlosSend(f) ==
  /\ FlosMayStart
  /\ toHost' = toHost \o Block(f, 0)
  /\ flos' = "tx" /\ fgot' = <<>> /\ ffile' = f /\ fno' = 0 /\ fresult' = "none"
  /\ UNCHANGED <<toFlos, reg, fstored, hvars, faults>>

(* receive_serial_byte, with the last byte of a block or an acknowledge,   *)
(* and inside one.                                                         *)
Taken == Append(fgot, reg[1])
Read == /\ Polling /\ reg # <<>> /\ reg' = <<>>
        /\ UNCHANGED <<toFlos, hvars, faults>>
ReadLast == Read /\ Len(fgot) + 1 = IF flos = "tx" THEN 2 ELSE Bytes

FlosByte ==
  /\ Read /\ ~ReadLast
  /\ fgot' = Taken
  /\ UNCHANGED <<toHost, flos, ffile, fno, fstored, fresult>>

(* serial_gh_main: the header must be that of the file wanted.             *)
FlosHeader ==
  /\ flos = "rx_header" /\ ReadLast
  /\ UNCHANGED fstored
  /\ LET fits == IsBlock(Taken, 0) /\ ffile \in {"*", FileOf(Taken)}
     IN  \/ /\ fits
            /\ flos' = "accept" /\ ffile' = FileOf(Taken) /\ fgot' = <<>>
            /\ UNCHANGED <<toHost, fno, fresult>>
         \/ ~fits /\ toHost' = toHost \o XX /\ FlosEnds("refused")

(* serial_receive_file.  RX calls it at once, a program when it likes.     *)
FlosAccept ==
  /\ flos = "accept"
  /\ toHost' = toHost \o OK
  /\ flos' = "rx_block"
  /\ UNCHANGED <<toFlos, reg, fgot, ffile, fno, fstored, fresult, hvars, faults>>

(* The copy of a block: the last one ends the transfer.                    *)
FlosStores ==
  /\ fstored' = Append(fstored, Taken) /\ fgot' = <<>>
  /\ toHost' = toHost \o OK
  /\ IF Len(fstored') = Length[ffile]
       THEN flos' = "idle" /\ fresult' = "received" /\ UNCHANGED <<ffile, fno>>
       ELSE UNCHANGED <<flos, ffile, fno, fresult>>

FlosRefuses(answer) ==
  toHost' = toHost \o answer /\ FlosEnds("failed") /\ UNCHANGED fstored

\* A slip: the checksum is not looked at.
FlosBlockUnchecked ==
  /\ flos = "rx_block" /\ ReadLast
  /\ \/ Len(fstored) < Room[ffile] /\ FlosStores
     \/ Len(fstored) >= Room[ffile] /\ FlosRefuses(XX)

\* A slip: a block is acknowledged before it is looked at.
FlosBlockAckFirst ==
  /\ flos = "rx_block" /\ ReadLast
  /\ \/ GoodSum(Taken) /\ Len(fstored) < Room[ffile] /\ FlosStores
     \/ /\ ~GoodSum(Taken) \/ Len(fstored) >= Room[ffile]
        /\ FlosRefuses(OK \o XX)

(* s_gbloop: a block is taken for the next one whatever it is.  Where the  *)
(* memory ends, a block is refused.                                        *)
FlosBlock ==
  /\ flos = "rx_block" /\ ReadLast
  /\ \/ GoodSum(Taken) /\ Len(fstored) < Room[ffile] /\ FlosStores
     \/ /\ ~GoodSum(Taken) \/ Len(fstored) >= Room[ffile]
        /\ FlosRefuses(XX)

(* s_waitack, and what ser_send_main does next.                            *)
FlosAck ==
  /\ flos = "tx" /\ ReadLast
  /\ UNCHANGED fstored
  /\ \/ /\ Taken = OK /\ fno < Length[ffile] /\ fno < Room[ffile]
        /\ toHost' = toHost \o Block(ffile, fno + 1)
        /\ fno' = fno + 1 /\ fgot' = <<>>
        /\ UNCHANGED <<flos, ffile, fresult>>
     \/ Taken = OK /\ fno = Length[ffile] /\ FlosEnds("sent") /\ UNCHANGED toHost
     \/ /\ Taken # OK \/ (Room[ffile] <= fno /\ fno < Length[ffile])
        /\ FlosEnds("failed") /\ UNCHANGED toHost

(* A second goes by without a byte; at the header, the user presses ESC.   *)
FlosTimeout ==
  /\ Polling /\ Still
  /\ toHost' = IF flos = "tx" THEN toHost ELSE toHost \o XX
  /\ FlosEnds("timed out")
  /\ UNCHANGED <<toFlos, reg, fstored, hvars, faults>>

-----------------------------------------------------------------------------
(* The host.                                                               *)

HostEnds(result) == host' = "idle" /\ hresult' = result /\ hfile' = "none" /\ hno' = 0

HostMayStart == host = "idle" /\ Still /\ flos # "rx_block"

(* send_file: clear_serial_receive_buffer, then the header.                *)
HostSend(f) ==
  /\ HostMayStart
  /\ hbuf' = <<>>
  /\ toFlos' = toFlos \o Block(f, 0)
  /\ host' = "tx" /\ hfile' = f /\ hno' = 0 /\ hresult' = "none"
  /\ UNCHANGED <<toHost, reg, fvars, hstored, faults>>

\* A slip: one block more is sent than the file has.
HostAckOneMore ==
  /\ host = "tx" /\ Len(hbuf) >= 2
  /\ hbuf' = SubSeq(hbuf, 3, Len(hbuf))
  /\ UNCHANGED <<toHost, reg, fvars, hstored, faults>>
  /\ LET ack == SubSeq(hbuf, 1, 2)
     IN  \/ /\ ack = OK /\ hno <= Length[hfile]
            /\ toFlos' = toFlos \o Block(hfile, hno + 1)
            /\ hno' = hno + 1
            /\ UNCHANGED <<host, hfile, hresult>>
         \/ ack = OK /\ hno > Length[hfile] /\ HostEnds("sent") /\ UNCHANGED toFlos
         \/ ack # OK /\ HostEnds("failed") /\ UNCHANGED toFlos

(* wait_ack and what send_file does next.                                  *)
HostAck ==
  /\ host = "tx" /\ Len(hbuf) >= 2
  /\ hbuf' = SubSeq(hbuf, 3, Len(hbuf))
  /\ UNCHANGED <<toHost, reg, fvars, hstored, faults>>
  /\ LET ack == SubSeq(hbuf, 1, 2)
     IN  \/ /\ ack = OK /\ hno < Length[hfile]
            /\ toFlos' = toFlos \o Block(hfile, hno + 1)
            /\ hno' = hno + 1
            /\ UNCHANGED <<host, hfile, hresult>>
         \/ ack = OK /\ hno = Length[hfile] /\ HostEnds("sent") /\ UNCHANGED toFlos
         \/ ack # OK /\ HostEnds("failed") /\ UNCHANGED toFlos

HostReceive ==
  /\ HostMayStart
  /\ hbuf' = <<>> /\ host' = "rx_header" /\ hstored' = <<>> /\ hresult' = "none"
  /\ UNCHANGED <<line, fvars, hfile, hno, faults>>

HostTakesBlock == /\ Len(hbuf) = Bytes /\ hbuf' = <<>>
                  /\ UNCHANGED <<toHost, reg, fvars, faults>>

HostHeader ==
  /\ host = "rx_header" /\ HostTakesBlock
  /\ UNCHANGED hstored
  /\ \/ /\ IsBlock(hbuf, 0)
        /\ toFlos' = toFlos \o OK
        /\ host' = "rx_block" /\ hfile' = FileOf(hbuf)
        /\ UNCHANGED <<hno, hresult>>
     \/ ~IsBlock(hbuf, 0) /\ toFlos' = toFlos \o XX /\ HostEnds("refused")

HostStores ==
  /\ toFlos' = toFlos \o OK
  /\ hstored' = Append(hstored, hbuf)
  /\ IF Len(hstored') = Length[hfile]
       THEN host' = "idle" /\ hresult' = "received" /\ UNCHANGED <<hfile, hno>>
       ELSE UNCHANGED <<host, hfile, hno, hresult>>

HostBlock ==
  /\ host = "rx_block" /\ HostTakesBlock
  /\ \/ GoodSum(hbuf) /\ HostStores
     \/ /\ ~GoodSum(hbuf) /\ toFlos' = toFlos \o XX
        /\ HostEnds("failed") /\ UNCHANGED hstored

(* FLOS, when it waits as well, is the first to give up.                   *)
FlosEndsFirst == flos \in {"rx_block", "tx"}

\* A slip: the wait for a block of the file has no end.
HostTimeoutNotInFile ==
  /\ host \in {"rx_header", "tx"} /\ Still /\ ~FlosEndsFirst
  /\ HostEnds("timed out")
  /\ UNCHANGED <<line, fvars, hbuf, hstored, faults>>

(* No acknowledge is sent here.                                            *)
HostTimeout ==
  /\ host # "idle" /\ Still /\ ~FlosEndsFirst
  /\ HostEnds("timed out")
  /\ UNCHANGED <<line, fvars, hbuf, hstored, faults>>

-----------------------------------------------------------------------------
Line == DeliverToFlos \/ DeliverToHost
Flos == FlosByte \/ FlosHeader \/ FlosAccept \/ FlosBlock \/ FlosAck
Host == HostAck \/ HostHeader \/ HostBlock
Wanted == Files \cup {"*"}
FlosStart == (\E want \in Wanted : FlosReceive(want)) \/ \E f \in Files : FlosSend(f)
HostStart == HostReceive \/ \E f \in Files : HostSend(f)

Next == \/ Line \/ Flos \/ Host \/ FlosStart \/ HostStart
        \/ FlosTimeout \/ HostTimeout
        \/ Lose \/ Spoil \/ Glitch

Spec == Init /\ [][Next]_vars

(* Bytes arrive, both programs run, and clocks go on.  Nothing makes the   *)
(* user start a transfer or press ESC.                                     *)
Fairness ==
  /\ WF_vars(Line) /\ WF_vars(Flos) /\ WF_vars(Host)
  /\ WF_vars(flos \in {"rx_block", "tx"} /\ FlosTimeout) /\ WF_vars(HostTimeout)

FairSpec == Spec /\ Fairness

(* Users who want a file to get to the host, and start again until it does.*)
NextToHost ==
  \/ Line \/ Flos \/ Host \/ HostReceive \/ \E f \in Files : FlosSend(f)
  \/ FlosTimeout \/ HostTimeout \/ Lose \/ Spoil \/ Glitch

SpecToHost ==
  /\ Init /\ [][NextToHost]_vars /\ Fairness
  /\ SF_vars(HostReceive) /\ SF_vars(\E f \in Files : FlosSend(f) /\ host = "rx_header")

-----------------------------------------------------------------------------
(* The contents of every variable.                                         *)
TypeOK ==
  /\ Len(reg) <= 1 /\ Len(hbuf) <= Bytes /\ Len(fgot) < Bytes
  /\ flos \in {"idle", "rx_header", "accept", "rx_block", "tx"}
  /\ host \in {"idle", "rx_header", "rx_block", "tx"}
  /\ ffile \in Wanted \cup {"none"} /\ hfile \in Files \cup {"none"}
  /\ flos = "tx" => fno \in 0 .. Length[ffile]
  /\ host = "tx" => hno \in 0 .. Length[hfile]
  /\ faults \in 0 .. MaxFaults

(* A file whose reception ends without an error is the file that was sent: *)
(* its blocks, each once and in order, whatever the line did.              *)
FlosFileIntact == fresult = "received" => fstored = Whole(ffile)
HostFileIntact == hresult = "received" => hstored = Whole(hfile)

(* In either direction, one transfer after another.                        *)
FilesIntact == FlosFileIntact /\ HostFileIntact

(* The sender of a file reports success only when the receiver has all of  *)
(* it: the acknowledge of the last block comes after its checksum.         *)
SentMeansReceived ==
  [][/\ hresult # "sent" /\ hresult' = "sent" =>
          fresult = "received" /\ ffile = hfile
     /\ fresult # "sent" /\ fresult' = "sent" =>
          hresult = "received" /\ hfile = ffile]_vars

(* Whatever the line does, neither end waits for the other forever once a  *)
(* transfer has begun.                                                     *)
TransfersEnd ==
  /\ host # "idle" ~> host = "idle"
  /\ flos \in {"rx_block", "tx"} ~> flos \notin {"rx_block", "tx"}

(* After the faults of the line, a file gets through if it is sent again:  *)
(* what one transfer leaves behind does not spoil all that follow.         *)
HostEventuallyReceives == <>(hresult = "received")
=============================================================================
