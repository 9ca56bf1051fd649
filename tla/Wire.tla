--------------------------------- MODULE Wire ---------------------------------
(***************************************************************************)
(* One USB/IP connection as two streams of fields: what each side writes   *)
(* (wire.rs, op.rs, device.rs, pdu.rs), how much the other side reads next *)
(* (io.rs) and what the exporter answers (session.rs, usbfs.rs).           *)
(*                                                                         *)
(* A stream is a sequence of numbers, one for each integer field, each     *)
(* character of a text field and each byte of payload. Nothing in it says  *)
(* where a message ends: a reader that takes one field too many or too few *)
(* takes the rest of the stream for what it is not.                        *)
(***************************************************************************)
EXTENDS Integers, SequencesExt

CONSTANTS
  Exported,     \* the summaries of source.list(), in its order
  Busids,       \* bound: the bus ids a client asks for
  PathLen,      \* PATH_LEN
  BusidLen,     \* BUSID_LEN
  Word,         \* 2^32: the values of a u32
  Byte,         \* 2^8: the values of a u8
  Nibble,       \* 2^4: the endpoint numbers
  MaxDevlist,   \* MAX_DEVLIST
  MaxTransfer,  \* max_transfer
  MaxIso,       \* MAX_ISO_PACKETS
  Submits,      \* bound: the submits a client sends, seqnum apart
  MaxPdus       \* bound: the commands of a session

ASSUME SizesAssumption ==
  /\ {PathLen, BusidLen, Word, Byte, Nibble} \subseteq Nat \ {0}
  /\ {MaxDevlist, MaxTransfer, MaxIso, MaxPdus} \subseteq Nat
  /\ MaxTransfer < Word \div 2 /\ MaxDevlist < Word

\* An i32, and text without a NUL.
Signed == -(Word \div 2)..(Word \div 2) - 1
Chars == Nat \ {0}

\* DeviceSummary: an interface is its class, subclass and protocol.
Summary ==
  [sys_path : Seq(Chars), busid : Seq(Chars), busnum : Nat, devnum : Nat, speed : Nat, ids : Nat,
   interfaces : Seq(Nat \X Nat \X Nat)]

ASSUME ListAssumption ==
  /\ Exported \in Seq(Summary)
  /\ Len(Exported) <= MaxDevlist
ASSUME RequestsAssumption ==
  /\ Busids \subseteq Seq(Chars)
  /\ Submits \subseteq [dir : Nat, ep : Nat, length : Signed, packets : Signed, wLength : Nat]

VARIABLES
  c2s, s2c,  \* the bytes on their way to the exporter and to the client
  client,    \* where the client is
  server,    \* where the thread that serves it is
  asked,     \* the bus id the client asked for
  got,       \* what the client has read, decoded
  posted,    \* what the exporter has written, before it was encoded
  sent,      \* the commands the client has written, before they were encoded
  heard,     \* the commands read_pdu has returned
  pending,   \* State.pending: the URBs the kernel has
  waiting    \* prefetch: the submits that wait for a report

vars == <<c2s, s2c, client, server, asked, got, posted, sent, heard, pending, waiting>>

USBIP_VERSION == 1
OP_REQ_DEVLIST == 5
OP_REP_DEVLIST == 2
OP_REQ_IMPORT == 4
OP_REP_IMPORT == 3
ST_OK == 0
ST_NA == 1
CMD_SUBMIT == 1
CMD_UNLINK == 2
RET_SUBMIT == 3
RET_UNLINK == 4
DIR_IN == 1

\* The errnos of the replies, in the room a small Word leaves.
EINVAL == 1
EOPNOTSUPP == 2
ECONNRESET == 3
ASSUME ErrnoAssumption == ECONNRESET <= Word \div 2

(***************************************************************************)
(* Writer and Reader.                                                      *)
(***************************************************************************)
Zeros(n) == [k \in 1..n |-> 0]

U32(i) == i % Word
I32(u) == IF u >= Word \div 2 THEN u - Word ELSE u

\* Writer::text_field: at most n - 1 characters, so that a NUL is left.
TextField(s, n) ==
  LET take == IF Len(s) < n - 1 THEN Len(s) ELSE n - 1
  IN  SubSeq(s, 1, take) \o Zeros(n - take)

\* Reader::text_field: up to the first NUL, or all of it.
Text(b) ==
  LET nul == {k \in 1..Len(b) : b[k] = 0}
  IN  IF nul = {} THEN b ELSE SubSeq(b, 1, (CHOOSE k \in nul : \A j \in nul : k <= j) - 1)

Drop(s, n) == SubSeq(s, n + 1, Len(s))

(***************************************************************************)
(* The op half: op.rs and device.rs.                                       *)
(***************************************************************************)
OpHeader(code, status) == <<USBIP_VERSION, code, status>>
SIZE_OP_HEADER == 3
SIZE_USB_DEVICE == PathLen + BusidLen + 5
SIZE_USB_INTERFACE == 4

\* DeviceSummary::to_usbip
ToUsbip(d) ==
  [path |-> d.sys_path, busid |-> d.busid, busnum |-> d.busnum, devnum |-> d.devnum,
   speed |-> d.speed, ids |-> d.ids,
   num |-> Len(d.interfaces) % Byte, interfaces |-> d.interfaces]

Interface(d, k) == IF k <= Len(d.interfaces) THEN d.interfaces[k] ELSE <<0, 0, 0>>

\* Fault: an interface is written without its padding.
EncodeDeviceTight(d, withInterfaces) ==
  TextField(d.path, PathLen) \o TextField(d.busid, BusidLen)
    \o <<d.busnum, d.devnum, d.speed, d.ids, d.num>>
    \o (IF withInterfaces THEN FlattenSeq([k \in 1..d.num |-> Interface(d, k)]) ELSE <<>>)

\* UsbDevice::encode
EncodeDevice(d, withInterfaces) ==
  TextField(d.path, PathLen) \o TextField(d.busid, BusidLen)
    \o <<d.busnum, d.devnum, d.speed, d.ids, d.num>>
    \o (IF withInterfaces
        THEN FlattenSeq([k \in 1..d.num |-> Append(Interface(d, k), 0)])
        ELSE <<>>)

\* UsbDevice::decode, of a record at the head of b
DecodeDevice(b, withInterfaces) ==
  LET n == PathLen + BusidLen
      num == b[SIZE_USB_DEVICE]
  IN  [path |-> Text(SubSeq(b, 1, PathLen)), busid |-> Text(SubSeq(b, PathLen + 1, n)),
       busnum |-> b[n + 1], devnum |-> b[n + 2], speed |-> b[n + 3], ids |-> b[n + 4],
       num |-> num,
       interfaces |->
         IF withInterfaces
         THEN [k \in 1..num |->
                 LET at == SIZE_USB_DEVICE + (k - 1) * SIZE_USB_INTERFACE
                 IN  SubSeq(b, at + 1, at + 3)]
         ELSE <<>>]

EncodeImportRequest(busid) ==
  OpHeader(OP_REQ_IMPORT, 0) \o TextField(busid, BusidLen)

EncodeImportReply(dev) ==
  IF dev = {} THEN OpHeader(OP_REP_IMPORT, ST_NA)
  ELSE OpHeader(OP_REP_IMPORT, ST_OK) \o EncodeDevice(CHOOSE d \in dev : TRUE, FALSE)

EncodeDevlistReply(devs) ==
  OpHeader(OP_REP_DEVLIST, ST_OK) \o <<U32(Len(devs))>>
    \o FlattenSeq([k \in DOMAIN devs |-> EncodeDevice(devs[k], TRUE)])

\* expect_reply
Expected(h, code) == h[1] = USBIP_VERSION /\ h[2] = code /\ h[3] = ST_OK

\* How much of b read_devlist_reply takes for the first k devices, k up to n.
DevlistEnd(b, n) ==
  LET end[k \in 0..n] ==
        IF k = 0 THEN SIZE_OP_HEADER + 1
        ELSE LET at == end[k - 1] + SIZE_USB_DEVICE
             IN  IF Len(b) < at THEN at ELSE at + b[at] * SIZE_USB_INTERFACE
  IN  end

(***************************************************************************)
(* The command half: pdu.rs.                                               *)
(***************************************************************************)
SIZE_CMD_HEADER == 12
SIZE_ISO_DESC == 4

\* Header::encode. A submit is followed by its payload and its packets.
EncodeCommand(p) ==
  IF p.command = CMD_SUBMIT
  THEN <<CMD_SUBMIT, p.seqnum, 0, p.dir, p.ep, 0, U32(p.length), 0, U32(p.packets), 0, 0, p.wLength>>
         \o p.data \o Zeros(p.iso * SIZE_ISO_DESC)
  ELSE <<p.command, p.seqnum, 0, 0, 0, p.unlink>> \o Zeros(6)

EncodeReply(r) ==
  IF r.command = RET_SUBMIT
  THEN <<RET_SUBMIT, r.seqnum, 0, 0, 0, U32(r.status), U32(r.actual), 0, 0, 0, 0, 0>> \o r.data
  ELSE <<RET_UNLINK, r.seqnum, 0, 0, 0, U32(r.status)>> \o Zeros(6)

Direction(raw) == IF raw = DIR_IN THEN "in" ELSE "out"

\* ep & 0x0f
Endpoint(raw) == raw % Nibble

Max0(i) == IF i > 0 THEN i ELSE 0

\* CmdSubmit::payload_len and iso_count, RetSubmit::payload_len
CmdPayload(dir, length) == IF dir = "in" THEN 0 ELSE Max0(length)
IsoCount(packets) == Max0(packets)
RetPayload(dir, actual) == IF dir = "in" THEN Max0(actual) ELSE 0

(***************************************************************************)
(* The client. The kernel's vhci-hcd is the usual one; the repository's    *)
(* own is read_devlist_reply, read_import_reply and read_ret_submit.       *)
(***************************************************************************)
Init ==
  /\ c2s = <<>> /\ s2c = <<>>
  /\ client = "start" /\ server = "op"
  /\ asked = <<>> /\ got = <<>> /\ posted = <<>> /\ sent = <<>> /\ heard = <<>>
  /\ pending = {} /\ waiting = {}

AskDevlist ==
  /\ client = "start"
  /\ client' = "devlist"
  /\ c2s' = OpHeader(OP_REQ_DEVLIST, 0)
  /\ UNCHANGED <<s2c, server, asked, got, posted, sent, heard, pending, waiting>>

AskImport ==
  /\ client = "start"
  /\ \E busid \in Busids :
       /\ asked' = busid
       /\ c2s' = EncodeImportRequest(busid)
  /\ client' = "import"
  /\ UNCHANGED <<s2c, server, got, posted, sent, heard, pending, waiting>>

\* A client of another version, or one that asks for something else.
AskOther ==
  /\ client = "start"
  /\ \E version \in {USBIP_VERSION, 0}, code \in {OP_REQ_DEVLIST, 7} :
       /\ <<version, code>> # <<USBIP_VERSION, OP_REQ_DEVLIST>>
       /\ c2s' = <<version, code, 0>>
  /\ client' = "odd"
  /\ UNCHANGED <<s2c, server, asked, got, posted, sent, heard, pending, waiting>>

\* The whole reply is there, as far as its header and its counts tell.
DevlistThere ==
  /\ Len(s2c) >= SIZE_OP_HEADER + 1
  /\ LET n == s2c[SIZE_OP_HEADER + 1] IN
       Expected(s2c, OP_REP_DEVLIST) /\ n <= MaxDevlist => Len(s2c) >= DevlistEnd(s2c, n)[n]

\* read_devlist_reply
ReadDevlist ==
  /\ client = "devlist" /\ DevlistThere
  /\ LET n == s2c[SIZE_OP_HEADER + 1]
         end == DevlistEnd(s2c, n)
     IN
       IF ~ Expected(s2c, OP_REP_DEVLIST) \/ n > MaxDevlist
       THEN client' = "error" /\ UNCHANGED <<got, s2c>>
       ELSE /\ got' = [k \in 1..n |-> DecodeDevice(Drop(s2c, end[k - 1]), TRUE)]
            /\ s2c' = Drop(s2c, end[n])
            /\ client' = "listed"
  /\ UNCHANGED <<c2s, server, asked, posted, sent, heard, pending, waiting>>

ImportThere ==
  /\ Len(s2c) >= SIZE_OP_HEADER
  /\ Expected(s2c, OP_REP_IMPORT) => Len(s2c) >= SIZE_OP_HEADER + SIZE_USB_DEVICE

\* read_import_reply
ReadImport ==
  /\ client = "import" /\ ImportThere
  /\ IF SubSeq(s2c, 1, SIZE_OP_HEADER) = OpHeader(OP_REP_IMPORT, ST_NA)
     THEN client' = "turned down" /\ s2c' = Drop(s2c, SIZE_OP_HEADER) /\ UNCHANGED got
     ELSE IF ~ Expected(s2c, OP_REP_IMPORT)
     THEN client' = "error" /\ UNCHANGED <<got, s2c>>
     ELSE /\ got' = <<DecodeDevice(Drop(s2c, SIZE_OP_HEADER), FALSE)>>
          /\ s2c' = Drop(s2c, SIZE_OP_HEADER + SIZE_USB_DEVICE)
          /\ client' = "cmd"
  /\ UNCHANGED <<c2s, server, asked, posted, sent, heard, pending, waiting>>

Payload(seqnum, n) == [k \in 1..n |-> Word + seqnum]

Send(p) ==
  /\ Len(sent) < MaxPdus
  /\ sent' = Append(sent, p)
  /\ c2s' = c2s \o EncodeCommand(p)
  /\ UNCHANGED <<s2c, client, server, asked, got, posted, heard, pending, waiting>>

NextSeqnum == Len(sent) + 1

\* The client writes what its own URB has: the payload of an OUT transfer, and
\* one descriptor for each packet.
CmdSubmit(seqnum, s) ==
  [command |-> CMD_SUBMIT, seqnum |-> seqnum, dir |-> s.dir, ep |-> s.ep,
   length |-> s.length, packets |-> s.packets, wLength |-> s.wLength,
   data |-> Payload(seqnum, CmdPayload(Direction(s.dir), s.length)),
   iso |-> IsoCount(s.packets)]

Cmd(command, seqnum, unlink) == [command |-> command, seqnum |-> seqnum, unlink |-> unlink]

SendSubmit ==
  /\ client = "cmd"
  /\ \E s \in Submits : Send(CmdSubmit(NextSeqnum, s))

SendUnlink ==
  /\ client = "cmd"
  /\ \E k \in DOMAIN sent :
       /\ sent[k].command = CMD_SUBMIT
       /\ Send(Cmd(CMD_UNLINK, NextSeqnum, k))

\* A command that is none, or one only an exporter sends.
SendOther ==
  /\ client = "cmd"
  /\ \E c \in {RET_UNLINK, 0} : Send(Cmd(c, NextSeqnum, 0))

\* The reply at the head of the stream is to a submit of this client's.
Known == s2c[2] \in DOMAIN sent /\ sent[s2c[2]].command = CMD_SUBMIT

\* What read_ret_submit reads behind the header: the direction is the submit's.
ReplyData ==
  IF s2c[1] = RET_SUBMIT /\ Known THEN RetPayload(Direction(sent[s2c[2]].dir), I32(s2c[7])) ELSE 0

ReplyThere ==
  /\ Len(s2c) >= SIZE_CMD_HEADER
  /\ ReplyData <= MaxTransfer => Len(s2c) >= SIZE_CMD_HEADER + ReplyData

RetSubmit(seqnum, status, actual, data) ==
  [command |-> RET_SUBMIT, seqnum |-> seqnum, status |-> status, actual |-> actual, data |-> data]
RetUnlink(seqnum, status) == [command |-> RET_UNLINK, seqnum |-> seqnum, status |-> status]

\* read_ret_submit, and Header::decode alone for a RET_UNLINK
ReadReply ==
  /\ client = "cmd" /\ ReplyThere
  /\ LET seqnum == s2c[2]
         status == I32(s2c[6])
         actual == I32(s2c[7])
         n == ReplyData
     IN  IF s2c[1] = RET_UNLINK
         THEN /\ got' = Append(got, RetUnlink(seqnum, status))
              /\ s2c' = Drop(s2c, SIZE_CMD_HEADER)
              /\ UNCHANGED client
         ELSE IF s2c[1] # RET_SUBMIT \/ ~ Known \/ n > MaxTransfer
         THEN client' = "error" /\ UNCHANGED <<got, s2c>>
         ELSE /\ got' = Append(got, RetSubmit(seqnum, status, actual,
                                              SubSeq(Drop(s2c, SIZE_CMD_HEADER), 1, n)))
              /\ s2c' = Drop(s2c, SIZE_CMD_HEADER + n)
              /\ UNCHANGED client
  /\ UNCHANGED <<c2s, server, asked, posted, sent, heard, pending, waiting>>

(***************************************************************************)
(* The exporter, up to the import: handle and read_op_request.             *)
(***************************************************************************)
\* A request of another version, or of a kind this exporter does not know.
ServeOther ==
  /\ server = "op" /\ Len(c2s) >= SIZE_OP_HEADER
  /\ c2s[1] # USBIP_VERSION \/ c2s[2] \notin {OP_REQ_DEVLIST, OP_REQ_IMPORT}
  /\ server' = "closed"
  /\ UNCHANGED <<c2s, s2c, client, asked, got, posted, sent, heard, pending, waiting>>

ServeDevlist ==
  /\ server = "op" /\ Len(c2s) >= SIZE_OP_HEADER
  /\ c2s[1] = USBIP_VERSION /\ c2s[2] = OP_REQ_DEVLIST
  /\ s2c' = EncodeDevlistReply([k \in DOMAIN Exported |-> ToUsbip(Exported[k])])
  /\ c2s' = Drop(c2s, SIZE_OP_HEADER)
  /\ server' = "closed"
  /\ UNCHANGED <<client, asked, got, posted, sent, heard, pending, waiting>>

\* import, of which the lease, open and claim_all may also fail.
ServeImport ==
  /\ server = "op" /\ Len(c2s) >= SIZE_OP_HEADER + BusidLen
  /\ c2s[1] = USBIP_VERSION /\ c2s[2] = OP_REQ_IMPORT
  /\ LET busid == Text(SubSeq(c2s, SIZE_OP_HEADER + 1, SIZE_OP_HEADER + BusidLen))
         named == {d \in Range(Exported) : d.busid = busid}
     IN  \E dev \in {{}, {ToUsbip(d) : d \in named}} :
           /\ s2c' = EncodeImportReply(dev)
           /\ server' = IF dev = {} THEN "closed" ELSE "cmd"
  /\ c2s' = Drop(c2s, SIZE_OP_HEADER + BusidLen)
  /\ UNCHANGED <<client, asked, got, posted, sent, heard, pending, waiting>>

(***************************************************************************)
(* The session: reader_loop with read_pdu, reaper_loop.                    *)
(***************************************************************************)
\* write_ret_submit and write_ret_unlink: header and payload in one buffer.
Post(r) == posted' = Append(posted, r) /\ s2c' = s2c \o EncodeReply(r)

\* encode_error: no payload, whatever the direction.
EncodeError(seqnum, status) == RetSubmit(seqnum, status, 0, <<>>)

\* read_pdu refuses what is no command of a client and what is too large.
Refused(h) ==
  \/ h[1] \notin {CMD_SUBMIT, CMD_UNLINK}
  \/ h[1] = CMD_SUBMIT /\ (\/ I32(h[7]) < 0 \/ I32(h[7]) > MaxTransfer
                           \/ IsoCount(I32(h[9])) > MaxIso)

\* What read_pdu reads behind a header it accepts.
DataLen(h) == IF h[1] = CMD_SUBMIT THEN CmdPayload(Direction(h[4]), I32(h[7])) ELSE 0
\* Fault: the packets of a refused isochronous submit stay in the stream.
IsoLenNone(h) == 0

IsoLen(h) == IF h[1] = CMD_SUBMIT THEN IsoCount(I32(h[9])) * SIZE_ISO_DESC ELSE 0

\* Header::decode and the payload
DecodeCommand(b) ==
  IF b[1] = CMD_SUBMIT
  THEN [command |-> CMD_SUBMIT, seqnum |-> b[2], dir |-> b[4], ep |-> b[5], length |-> I32(b[7]),
        packets |-> I32(b[9]), wLength |-> b[12],
        data |-> SubSeq(Drop(b, SIZE_CMD_HEADER), 1, DataLen(b)),
        iso |-> IsoLen(b) \div SIZE_ISO_DESC]
  ELSE Cmd(CMD_UNLINK, b[2], b[6])

\* The session ends when read_pdu fails; the reply queue goes with it.
ReadRefused ==
  /\ server = "cmd" /\ Len(c2s) >= SIZE_CMD_HEADER
  /\ Refused(c2s)
  /\ server' = "refused"
  /\ UNCHANGED <<c2s, s2c, client, asked, got, posted, sent, heard, pending, waiting>>

PduLen(h) == SIZE_CMD_HEADER + DataLen(h) + IsoLen(h)

\* The command read_pdu returns, once all of it is there.
Decoded ==
  IF server = "cmd" /\ Len(c2s) >= SIZE_CMD_HEADER /\ ~ Refused(c2s) /\ Len(c2s) >= PduLen(c2s)
  THEN {DecodeCommand(c2s)} ELSE {}

ReadPdu(p) ==
  /\ c2s' = Drop(c2s, PduLen(c2s))
  /\ heard' = Append(heard, p)
  /\ UNCHANGED <<client, server, asked, got, sent>>

Submitted == {p \in Decoded : p.command = CMD_SUBMIT}

ReadIso ==
  \E p \in Submitted :
    /\ ReadPdu(p) /\ p.packets > 0
    /\ Post(EncodeError(p.seqnum, -EOPNOTSUPP))
    /\ UNCHANGED <<pending, waiting>>

Min2(a, b) == IF a < b THEN a ELSE b
Truncate(data, n) == SubSeq(data, 1, Min2(Len(data), n))

\* External: a report of the device, of any length its endpoint allows.
Reports(seqnum) == {[k \in 1..n |-> 2 * Word + seqnum] : n \in 0..MaxTransfer}

\* Prefetch::take: a report was captured, or the client waits for the next.
ReadPrefetched ==
  \E p \in Submitted :
    /\ ReadPdu(p) /\ p.packets <= 0
    /\ Direction(p.dir) = "in" /\ Endpoint(p.ep) # 0
    /\ \/ \E report \in Reports(p.seqnum) :
            LET data == Truncate(report, Max0(p.length)) IN
              Post(RetSubmit(p.seqnum, 0, Len(data), data)) /\ UNCHANGED waiting
       \/ waiting' = waiting \cup {[seqnum |-> p.seqnum, max_len |-> Max0(p.length)]}
            /\ UNCHANGED <<s2c, posted>>
    /\ UNCHANGED pending

\* UsbfsDevice::submit: for a control transfer wLength counts as well.
PayloadLen(p) ==
  IF Endpoint(p.ep) = 0 /\ p.wLength > Max0(p.length) THEN p.wLength ELSE Max0(p.length)

\* Refused, or carried out by an ioctl of its own.
ReadHandled ==
  \E p \in Submitted :
    /\ ReadPdu(p) /\ p.packets <= 0
    /\ \E status \in {0, -EINVAL} : Post(EncodeError(p.seqnum, status))
    /\ UNCHANGED <<pending, waiting>>

ReadSubmit ==
  \E p \in Submitted :
    /\ ReadPdu(p) /\ p.packets <= 0
    /\ PayloadLen(p) <= MaxTransfer
    /\ pending' = pending \cup {[seqnum |-> p.seqnum, dir |-> Direction(p.dir),
                                 size |-> PayloadLen(p), max_reply |-> Max0(p.length)]}
    /\ UNCHANGED <<s2c, posted, waiting>>

\* The URB's completion is suppressed from now on.
ReadUnlink ==
  \E p \in Decoded \ Submitted :
    /\ ReadPdu(p)
    /\ LET mine == {u \in pending \cup waiting : u.seqnum = p.unlink} IN
         /\ pending' = pending \ mine
         /\ waiting' = waiting \ mine
         /\ Post(RetUnlink(p.seqnum, IF mine = {} THEN 0 ELSE -ECONNRESET))

\* Fault: all that the kernel transferred is the client's.
ReapAll(u, transferred) ==
  [actual |-> Len(transferred), data |-> IF u.dir = "in" THEN transferred ELSE <<>>]

\* UsbfsDevice::reap: how much of what the kernel transferred is the client's.
Reap(u, transferred) ==
  IF u.dir = "in" THEN LET data == Truncate(transferred, u.max_reply)
                       IN  [actual |-> Len(data), data |-> data]
  ELSE [actual |-> Len(transferred), data |-> <<>>]

\* Fault: a blanked report keeps its length.
BlankedDataOnly(c) == [actual |-> c.actual, data |-> <<>>]

\* screen: the report that holds the chord is answered, but empty.
Blanked(c) == [actual |-> 0, data |-> <<>>]

\* A URB of the client's completes.
Complete ==
  /\ server = "cmd"
  /\ \E u \in pending : \E report \in Reports(u.seqnum), status \in {0, -EINVAL}, down \in BOOLEAN :
       /\ Len(report) <= u.size
       /\ LET c == Reap(u, report)
              screened == IF down /\ status = 0 /\ c.data # <<>> THEN Blanked(c) ELSE c
          IN  Post(RetSubmit(u.seqnum, status, screened.actual, screened.data))
       /\ pending' = pending \ {u}
  /\ UNCHANGED <<c2s, client, server, asked, got, sent, heard, waiting>>

\* A URB of the prefetcher's completes, and a submit waits: Prefetch::deliver.
Deliver ==
  /\ server = "cmd"
  /\ \E w \in waiting : \E report \in Reports(w.seqnum), status \in {0, -EINVAL}, down \in BOOLEAN :
       /\ LET data == IF status # 0 \/ down THEN <<>> ELSE Truncate(report, w.max_len)
          IN  Post(RetSubmit(w.seqnum, status, Len(data), data))
       /\ waiting' = waiting \ {w}
  /\ UNCHANGED <<c2s, client, server, asked, got, sent, heard, pending>>

Next ==
  \/ AskDevlist \/ AskImport \/ AskOther \/ ReadDevlist \/ ReadImport
  \/ SendSubmit \/ SendUnlink \/ SendOther \/ ReadReply
  \/ ServeOther \/ ServeDevlist \/ ServeImport
  \/ ReadRefused \/ ReadIso \/ ReadPrefetched \/ ReadHandled \/ ReadSubmit \/ ReadUnlink
  \/ Complete \/ Deliver

Spec == Init /\ [][Next]_vars

-----------------------------------------------------------------------------
\* The streams, and where the two sides are.
TypeOK ==
  /\ c2s \in Seq(0..3 * Word) /\ s2c \in Seq(0..3 * Word)
  /\ client \in {"start", "devlist", "import", "odd", "listed", "turned down", "cmd", "error"}
  /\ server \in {"op", "cmd", "closed", "refused"}
  /\ {u.seqnum : u \in pending \cup waiting} \subseteq 1..MaxPdus

\* A client that keeps within the exporter's limits.
Within(p) ==
  \/ p.command = CMD_UNLINK
  \/ p.command = CMD_SUBMIT /\ p.length \in 0..MaxTransfer /\ p.packets <= MaxIso

\* read_pdu finds the commands the client wrote, field by field and in the
\* order it wrote them: no payload, packet list or earlier command is ever
\* taken for a header, and it never waits for bytes that do not come. A client
\* that keeps within the limits is never refused.
HeardAsSent ==
  /\ IsPrefix(heard, sent)
  /\ server = "refused" => ~ Within(sent[Len(heard) + 1])
  /\ server = "cmd" /\ c2s # <<>> =>
       Len(c2s) >= SIZE_CMD_HEADER /\ (Refused(c2s) \/ Len(c2s) >= PduLen(c2s))

\* read_ret_submit finds the replies the exporter wrote, although no header
\* says whether a payload follows: the length in it agrees with the bytes
\* behind it for every error, blanked report, OUT transfer and short read, so
\* the client neither waits for bytes that do not come nor meets a message it
\* does not expect.
GotAsPosted ==
  /\ client # "error"
  /\ client = "cmd" => /\ IsPrefix(Tail(got), posted)
                       /\ s2c # <<>> => ReplyThere

\* No reply has more data than its submit asked for, whatever wLength or the
\* length of the report says, and none answers an OUT transfer with data: the
\* client copies it into a buffer of the size it asked for.
RepliesFit ==
  \A k \in DOMAIN posted : posted[k].command = RET_SUBMIT =>
    LET r == posted[k]
        s == sent[r.seqnum]
    IN  Len(r.data) <= IF Direction(s.dir) = "in" THEN s.length ELSE 0

\* The list a client reads is the list of exported devices, each with all of
\* its interfaces (up to what b_num_interfaces counts), and an import gives the
\* device that was asked for, if the field has room for its bus id. Neither
\* reply is shorter than what the client reads.
ListedAsExported ==
  /\ client = "listed" =>
       /\ Len(got) = Len(Exported)
       /\ \A k \in DOMAIN got :
            /\ got[k].ids = Exported[k].ids /\ got[k].busnum = Exported[k].busnum
            /\ IsPrefix(got[k].interfaces, Exported[k].interfaces)
            /\ Len(Exported[k].interfaces) < Byte => got[k].interfaces = Exported[k].interfaces
            /\ Len(Exported[k].busid) < BusidLen => got[k].busid = Exported[k].busid
  /\ client = "cmd" /\ Len(asked) < BusidLen =>
       got[1].busid = asked /\ got[1].ids \in {d.ids : d \in {e \in Range(Exported) : e.busid = asked}}
  /\ client = "devlist" /\ s2c # <<>> => DevlistThere
  /\ client = "import" /\ s2c # <<>> => ImportThere
=============================================================================
