------------------------------- MODULE Codec -------------------------------
(***************************************************************************)
(* The wire codec of the read path (vhci_read.c): store_urbr encodes one   *)
(* urbr into the agent's read buffer, either whole or, when only the       *)
(* usbip_header fits, as the header alone with len_sent_partial set; the   *)
(* next read then runs store_urbr_partial for the payload.                 *)
(*                                                                         *)
(* Data are abstracted to what framing depends on: a read buffer is its    *)
(* size; the bytes delivered are a sequence of segments (the header with   *)
(* the fields that fix the payload size, a copy of the transfer buffer,    *)
(* the iso packet descriptors).  A request is the part of the URB and IRP  *)
(* the encoders read.  One urbr goes through at most two reads: the first  *)
(* with any buffer, the second with the payload size the agent computes    *)
(* from the header it got (spec 6).                                        *)
(***************************************************************************)
EXTENDS Integers, Sequences, SequencesExt, Functions

CONSTANTS
  Funcs,         \* URB function codes (UrbHeader.Function) to try
  Lens,          \* TransferBufferLength values
  BufSizes,      \* read buffer sizes of the first read
  IsoOffsets,    \* values of IsoPacket[i].Offset
  MaxPackets     \* bound on NumberOfPackets

HdrSize == 48          \* sizeof(struct usbip_header)
IsoDescSize == 16      \* sizeof(struct usbip_iso_packet_descriptor)
BigBuf == HdrSize + Max(Lens) + MaxPackets * IsoDescSize

\* URB_FUNCTION_BULK_OR_INTERRUPT_TRANSFER_USING_CHAINED_MDL and
\* URB_FUNCTION_ISOCH_TRANSFER_USING_CHAINED_MDL.
BulkChainedMdl == 55
IsoChainedMdl == 56

\* The ioctl of the urbr's IRP; "none" is an unlink urbr (urbr->irp NULL).
Ioctls == {"urb", "reset_port", "node_conn", "other", "none"}
Pipes == {"ctrl", "bulk", "int", "iso"}       \* get_endpoint_type(PipeHandle)
MdlStates == {"none", "ok", "fail"}           \* TransferBufferMDL: absent, maps, mapping fails

RequestsWith(ios, fs, offs) ==
  [ioctl : ios, func : fs, flagsIn : BOOLEAN, setupIn : BOOLEAN, len : Lens,
   pipe : Pipes, hasBuf : BOOLEAN, mdl : MdlStates, hdrOk : BOOLEAN, offs : offs]

\* The isochronous functions carry one offset per packet, at least one
\* packet; no other request has packets.
Requests ==
  RequestsWith({"urb"}, Funcs \ {10, IsoChainedMdl}, {<<>>})
  \cup RequestsWith({"urb"}, Funcs \cap {10, IsoChainedMdl},
                    BoundedSeq(IsoOffsets, MaxPackets) \ {<<>>})
  \cup RequestsWith(Ioctls \ {"urb"}, {0}, {<<>>})

Statuses == {"SUCCESS", "BUFFER_TOO_SMALL", "INVALID_PARAMETER",
             "INSUFFICIENT_RESOURCES", "INTERNAL_ERROR", "HEADER_ERROR"}

\* A header: command, direction, length, packet count, and the direction
\* bit of its setup packet's bmRequestType ("none" where the encoder leaves
\* the setup packet zero: bulk, isochronous and unlink headers).
Hdr(cmd, dirIn, len, npk) ==
  [kind |-> "hdr", cmd |-> cmd, dirIn |-> dirIn, len |-> len, npk |-> npk,
   setup |-> "none"]

\* The header of an EP0 request whose setup packet the encoder fills.
CtrlHdr(dirIn, len, setupIn) ==
  [Hdr("submit", dirIn, len, 0) EXCEPT !.setup = IF setupIn THEN "in" ELSE "out"]
Data(n) == [kind |-> "data", n |-> n]
IsoDescs(ds) == [kind |-> "iso", descs |-> ds]

Segments ==
  [kind : {"hdr"}, cmd : {"submit", "unlink"}, dirIn : BOOLEAN, len : Lens,
   npk : 0..MaxPackets, setup : {"none", "in", "out"}]
  \cup [kind : {"data"}, n : Lens \ {0}]
  \cup [kind : {"iso"}, descs : Seq([offset : Int, length : Int])]

\* What an encoder returns: its NTSTATUS, the bytes it left in the read
\* buffer (none when the read fails), and whether it set len_sent_partial.
Ok(bytes) == [st |-> "SUCCESS", bytes |-> bytes, partial |-> FALSE]
Part(bytes) == [st |-> "SUCCESS", bytes |-> bytes, partial |-> TRUE]
Err(s) == [st |-> s, bytes |-> <<>>, partial |-> FALSE]

SegSize(s) == CASE s.kind = "hdr" -> HdrSize
                [] s.kind = "data" -> s.n
                [] s.kind = "iso" -> Len(s.descs) * IsoDescSize

\* TRANSFERRED(irp) after the bytes were stored.
Transferred(bytes) == FoldSeq(LAMBDA s, acc : SegSize(s) + acc, 0, bytes)

-----------------------------------------------------------------------------
(* Helpers of vhci_read.c.                                                 *)

\* try_get_irp_buffer, get_irp_buffer_hdr: the read IRP's SystemBuffer if
\* its Read.Length is at least min_size, else NULL.
TryGetIrpBuffer(b, minSize) == b >= minSize

\* IsTransferDirectionIn/Out (usbd_helper.h): the direction bit of
\* TransferFlags.
IsTransferDirectionIn(r) == r.flagsIn
IsTransferDirectionOut(r) == ~r.flagsIn

\* is_transfer_dir_out (usbd_helper.h): bmRequestType.Dir of the setup
\* packet the caller put in the URB.
IsTransferDirOut(r) == ~r.setupIn

\* get_buf: TransferBuffer if given, else the system address of
\* TransferBufferMDL, which may fail to map.
GetBuf(r, useBuf) == (useBuf /\ r.hasBuf) \/ r.mdl = "ok"

\* Fault variant of CarriesOut: the length test dropped.
CarriesOutAnyLen(dirIn, len) == ~dirIn

\* if (dir_in || !r->TransferBufferLength) return STATUS_SUCCESS: only an
\* OUT transfer with data has a payload to copy.
CarriesOut(dirIn, len) == ~dirIn /\ len # 0

\* copy_transfer_buffer: a chained-MDL bulk transfer ignores
\* TransferBuffer.
CopyTransferBuffer(r, pre) ==
  IF GetBuf(r, r.func # BulkChainedMdl)
  THEN Ok(pre \o <<Data(r.len)>>)
  ELSE Err("INSUFFICIENT_RESOURCES")

\* The offset where packet i ends: the next packet's offset, or the
\* transfer length for the last one.
NextOffset(r, i) == IF i < Len(r.offs) THEN r.offs[i + 1] ELSE r.len

\* The loop of do_copy_payload: every packet must end at or after its start
\* and within the transfer buffer.
IsoOffsetsOk(r) ==
  \A i \in 1..Len(r.offs) : NextOffset(r, i) >= r.offs[i] /\ NextOffset(r, i) <= r.len

IsoDescList(r) ==
  [i \in 1..Len(r.offs) |-> [offset |-> r.offs[i], length |-> NextOffset(r, i) - r.offs[i]]]

\* Fault variant of GetPayloadSize: the buffer counted in both directions.
GetPayloadSizeAnyDir(r) == Len(r.offs) * IsoDescSize + r.len

\* get_payload_size: the descriptors, and the buffer of an OUT transfer.
GetPayloadSize(r) == Len(r.offs) * IsoDescSize + (IF r.flagsIn THEN 0 ELSE r.len)

\* do_copy_payload: map the source (a chained MDL ignores TransferBuffer),
\* copy an OUT buffer, then one descriptor per packet.
CopyPayload(r, pre) ==
  CASE ~GetBuf(r, r.func # IsoChainedMdl) -> Err("INSUFFICIENT_RESOURCES")
    [] ~IsoOffsetsOk(r) -> Err("INVALID_PARAMETER")
    [] OTHER -> Ok(pre \o (IF CarriesOut(r.flagsIn, r.len) THEN <<Data(r.len)>> ELSE <<>>)
                      \o (IF r.offs # <<>> THEN <<IsoDescs(IsoDescList(r))>> ELSE <<>>))

-----------------------------------------------------------------------------
(* Encoders.                                                               *)

\* An encoder that writes the header and nothing else (select_*, feature,
\* get_status, get_configuration, get_interface, sync_reset_pipe,
\* usb_reset_port, get_descriptor_from_node_connection); the setup packet's
\* fields are not modelled.
HeaderOnly(r, b, dirIn, len, setupIn) ==
  CASE ~TryGetIrpBuffer(b, HdrSize) -> Err("BUFFER_TOO_SMALL")
    [] ~r.hdrOk -> Err("HEADER_ERROR")
    [] OTHER -> Ok(<<CtrlHdr(dirIn, len, setupIn)>>)

\* The tail shared by urb_control_descriptor_request,
\* urb_control_vendor_class_request, urb_bulk_or_interrupt_transfer and
\* urb_control_transfer_any: header, then the OUT payload if it fits, else
\* the header alone with len_sent_partial set.
WithOutData(r, b, dirIn, setup) ==
  LET h == [Hdr("submit", dirIn, r.len, 0) EXCEPT !.setup = setup] IN
  CASE ~TryGetIrpBuffer(b, HdrSize) -> Err("BUFFER_TOO_SMALL")
    [] ~r.hdrOk -> Err("HEADER_ERROR")
    [] ~CarriesOut(dirIn, r.len) -> Ok(<<h>>)
    [] b - HdrSize >= r.len -> CopyTransferBuffer(r, <<h>>)
    [] OTHER -> Part(<<h>>)

\* urb_select_configuration, urb_select_interface: a SET_CONFIGURATION or
\* SET_INTERFACE header with no data stage.
SelectRequest(r, b) == HeaderOnly(r, b, FALSE, 0, FALSE)

\* sync_reset_pipe_and_clear_stall: CLEAR_FEATURE(ENDPOINT_HALT) on EP0,
\* OUT, no data stage; the peer's usb_clear_halt also resets the endpoint.
SyncResetPipeAndClearStall(r, b) == HeaderOnly(r, b, FALSE, 0, FALSE)

\* urb_control_get_status_request: GET_STATUS, IN, the header alone with
\* TransferBufferLength (2) as the length the reply fills.
UrbControlGetStatusRequest(r, b) == HeaderOnly(r, b, TRUE, r.len, TRUE)

\* urb_function_unexpected: codes that vhci_internal_ioctl.c handles itself
\* never reach the encoder; if one does, STATUS_INTERNAL_ERROR.
UrbFunctionUnexpected == Err("INTERNAL_ERROR")

\* usb_reset_port: a SET_FEATURE(PORT_RESET) header on EP0, OUT, no data.
UsbResetPort(r, b) == HeaderOnly(r, b, FALSE, 0, FALSE)

\* get_descriptor_from_node_connection: a GET_DESCRIPTOR header, IN, for
\* the data length of the ioctl's output buffer.
GetDescriptorFromNodeConnection(r, b) == HeaderOnly(r, b, TRUE, r.len, TRUE)

\* urb_control_vendor_class_request: direction from TransferFlags.
VendorClassRequest(r, b) ==
  WithOutData(r, b, r.flagsIn, IF IsTransferDirectionIn(r) THEN "in" ELSE "out")

\* urb_bulk_or_interrupt_transfer: the pipe must be bulk or interrupt.
BulkTransfer(r, b) ==
  IF r.pipe \notin {"bulk", "int"} THEN Err("INVALID_PARAMETER")
  ELSE WithOutData(r, b, r.flagsIn, "none")

\* urb_control_transfer_any without the check of the setup packet's
\* direction against TransferFlags.
ControlTransferUnchecked(r, b) ==
  CASE ~TryGetIrpBuffer(b, HdrSize) -> Err("BUFFER_TOO_SMALL")
    [] OTHER -> WithOutData(r, b, r.flagsIn, IF r.setupIn THEN "in" ELSE "out")

\* urb_control_transfer_any: the setup packet's direction must agree with
\* TransferFlags.
ControlTransfer(r, b) ==
  CASE ~TryGetIrpBuffer(b, HdrSize) -> Err("BUFFER_TOO_SMALL")
    [] IsTransferDirOut(r) # IsTransferDirectionOut(r) -> Err("INVALID_PARAMETER")
    [] OTHER -> WithOutData(r, b, r.flagsIn, IF r.setupIn THEN "in" ELSE "out")

\* urb_isoch_transfer: the pipe must be isochronous; the payload is the OUT
\* buffer and the packet descriptors.
IsochTransfer(r, b) ==
  LET h == Hdr("submit", r.flagsIn, r.len, Len(r.offs)) IN
  CASE r.pipe # "iso" -> Err("INVALID_PARAMETER")
    [] ~TryGetIrpBuffer(b, HdrSize) -> Err("BUFFER_TOO_SMALL")
    [] ~r.hdrOk -> Err("HEADER_ERROR")
    [] b - HdrSize >= GetPayloadSize(r) -> CopyPayload(r, <<h>>)
    [] OTHER -> Part(<<h>>)

\* urb_functions[]: the handler kind at each function code 0x00 .. 0x3D.
UrbFunctions ==
  << "select", "select", "unexpected", "unexpected", "unexpected",
     "unexpected", "unexpected", "unexpected", "control", "bulk", "iso",
     "desc_in", "desc_out", "hdr_out", "hdr_out", "hdr_out", "hdr_out",
     "hdr_out", "hdr_out", "status", "status", "status", "none", "vendor",
     "vendor", "vendor", "vendor", "vendor", "vendor", "none", "stall",
     "vendor", "vendor", "status", "hdr_out", "hdr_out", "desc_in",
     "desc_out", "hdr_in", "hdr_in", "desc_in", "desc_out", "unexpected",
     "none", "none", "none", "none", "none", "unexpected", "unexpected",
     "control", "none", "none", "unexpected", "unexpected", "bulk", "iso",
     "none", "none", "none", "none", "unexpected" >>

\* usb_submit_urb: look the function up; a code past the table or a NULL
\* slot has no handler.
UsbSubmitUrb(r, b) ==
  LET kind == IF r.func < Len(UrbFunctions) THEN UrbFunctions[r.func + 1] ELSE "none" IN
  CASE kind = "none" -> Err("INVALID_PARAMETER")
    [] kind = "unexpected" -> UrbFunctionUnexpected
    [] kind = "select" -> SelectRequest(r, b)
    [] kind = "hdr_out" -> HeaderOnly(r, b, FALSE, 0, FALSE)
    [] kind = "hdr_in" -> HeaderOnly(r, b, TRUE, r.len, TRUE)
    [] kind = "status" -> UrbControlGetStatusRequest(r, b)
    [] kind = "stall" -> SyncResetPipeAndClearStall(r, b)
    [] kind = "desc_in" -> WithOutData(r, b, TRUE, "in")
    [] kind = "desc_out" -> WithOutData(r, b, FALSE, "out")
    [] kind = "vendor" -> VendorClassRequest(r, b)
    [] kind = "control" -> ControlTransfer(r, b)
    [] kind = "bulk" -> BulkTransfer(r, b)
    [] kind = "iso" -> IsochTransfer(r, b)

\* store_cancelled_urbr: a CMD_UNLINK header; a buffer without room for it
\* is STATUS_INVALID_PARAMETER.
StoreCancelledUrbr(b) ==
  IF ~TryGetIrpBuffer(b, HdrSize) THEN Err("INVALID_PARAMETER") ELSE Ok(<<Hdr("unlink", FALSE, 0, 0)>>)

\* store_urbr: an unlink urbr (no IRP) goes to store_cancelled_urbr;
\* otherwise dispatch on the IRP's ioctl.
StoreUrbr(r, b) ==
  CASE r.ioctl = "none" -> StoreCancelledUrbr(b)
    [] r.ioctl = "urb" -> UsbSubmitUrb(r, b)
    [] r.ioctl = "reset_port" -> UsbResetPort(r, b)
    [] r.ioctl = "node_conn" -> GetDescriptorFromNodeConnection(r, b)
    [] r.ioctl = "other" -> Err("INVALID_PARAMETER")

\* The functions store_urbr_partial continues with transfer_partial.
TransferPartialFuncs == {8, 9, 50, 12, 37, 41, 26, 27, 28, 31, 23, 24, 25, 32}

\* transfer_partial: the read buffer must hold the whole transfer buffer.
TransferPartial(r, b) ==
  IF ~TryGetIrpBuffer(b, r.len) THEN Err("BUFFER_TOO_SMALL") ELSE CopyTransferBuffer(r, <<>>)

\* urb_isoch_transfer_partial: the read buffer must hold the OUT data and
\* every packet descriptor.
IsochTransferPartial(r, b) ==
  IF ~TryGetIrpBuffer(b, GetPayloadSize(r)) THEN Err("BUFFER_TOO_SMALL") ELSE CopyPayload(r, <<>>)

\* store_urbr_partial: copy the payload of the urbr whose header went out.
\* The check that follows a successful copy is PartialCheck.
StoreUrbrPartial(r, b) ==
  CASE r.func = 10 -> IsochTransferPartial(r, b)
    [] r.func \in TransferPartialFuncs -> TransferPartial(r, b)
    [] OTHER -> Err("INVALID_PARAMETER")

\* The check at the end of a successful store_urbr_partial: it calls
\* try_get_irp_buffer(read_irp, sizeof(*hdr)) on the read IRP it has just
\* filled, whose NT_ASSERT(!TRANSFERRED(irp)) holds only if nothing was
\* copied, and hands get_pdu_payload_size the buffer it returns: NULL when
\* the payload buffer is shorter than a header, else the payload bytes.
\* The mismatch it finds is only logged.
PartialCheck(res, b) ==
  [assertOk |-> Transferred(res.bytes) = 0,
   hdr |-> IF TryGetIrpBuffer(b, HdrSize) THEN "payload" ELSE "null"]

-----------------------------------------------------------------------------
(* One urbr read by the agent.                                             *)

\* The payload size the agent computes from a header (get_pdu_payload_size).
PduPayloadSize(h) ==
  IF h.cmd = "unlink" THEN 0
  ELSE (IF h.dirIn THEN 0 ELSE h.len) + h.npk * IsoDescSize

VARIABLES
  req,         \* the urbr being read
  phase,       \* "first", "cont" (header out, payload owed), "done"
  out,         \* bytes the agent has received for it
  st,          \* status of the last read
  lenPartial,  \* vpdo->len_sent_partial
  split,       \* the payload came by a second read
  assertOk,    \* every NT_ASSERT(!TRANSFERRED(irp)) of try_get_irp_buffer held
  pduHdr       \* what store_urbr_partial's check handed get_pdu_payload_size

vars == <<req, phase, out, st, lenPartial, split, assertOk, pduHdr>>

TypeOK ==
  /\ req \in Requests
  /\ phase \in {"first", "cont", "done"}
  /\ out \in Seq(Segments)
  /\ st \in Statuses \cup {"none"}
  /\ lenPartial \in {0, HdrSize}
  /\ split \in BOOLEAN
  /\ assertOk \in BOOLEAN
  /\ pduHdr \in {"none", "null", "payload"}

Init ==
  /\ req \in Requests
  /\ phase = "first" /\ out = <<>> /\ st = "none" /\ lenPartial = 0
  /\ split = FALSE /\ assertOk = TRUE /\ pduHdr = "none"

\* process_read_irp with the urbr taken from the pending list.
FirstRead(b) ==
  /\ phase = "first"
  /\ LET res == StoreUrbr(req, b) IN
       /\ out' = res.bytes
       /\ st' = res.st
       /\ lenPartial' = IF res.st = "SUCCESS" /\ res.partial THEN Transferred(res.bytes) ELSE 0
       /\ phase' = IF res.st = "SUCCESS" /\ res.partial THEN "cont" ELSE "done"
  /\ UNCHANGED <<req, split, assertOk, pduHdr>>

\* process_read_irp continuing urbr_sent_partial; the agent's buffer is
\* the payload size its header announced.
ContinueRead ==
  /\ phase = "cont"
  /\ LET b == PduPayloadSize(out[1])
         res == StoreUrbrPartial(req, b)
     IN  /\ out' = out \o res.bytes
         /\ st' = res.st
         /\ IF res.st = "SUCCESS"
            THEN /\ assertOk' = (assertOk /\ PartialCheck(res, b).assertOk)
                 /\ pduHdr' = PartialCheck(res, b).hdr
            ELSE UNCHANGED <<assertOk, pduHdr>>
  /\ lenPartial' = 0
  /\ phase' = "done"
  /\ split' = TRUE
  /\ UNCHANGED req

Next == (\E b \in BufSizes : FirstRead(b)) \/ ContinueRead

Spec == Init /\ [][Next]_vars

-----------------------------------------------------------------------------
(* Properties.                                                             *)

\* The encoding of the request into a buffer that holds everything.
SingleShot == StoreUrbr(req, BigBuf)

\* Spec 8, partial-delivery idempotence: once the agent has the header of
\* a request that a large enough buffer encodes, it ends up with exactly the
\* bytes of that single-shot encoding, whether the payload came with the
\* header or by the continuation read.
SplitMatchesSingle ==
  phase = "done" /\ (split \/ st = "SUCCESS") /\ SingleShot.st = "SUCCESS"
    => st = "SUCCESS" /\ out = SingleShot.bytes

\* The peer (stub_rx) takes the data stage's direction from the header and
\* passes the setup packet to the device as is: every header the agent
\* receives whose setup packet is filled has a bmRequestType direction bit
\* equal to its own direction.  Every EP0 encoder writes the two from
\* separate constants, and urb_control_transfer_any copies the caller's
\* setup packet, so only its check keeps them equal.
SetupMatchesDirection ==
  \A i \in DOMAIN out :
    out[i].kind = "hdr" /\ out[i].setup # "none" => (out[i].setup = "in") = out[i].dirIn
\* store_urbr_partial compares the payload it copied with the size the
\* header announces ("pdu payload size != transferred"): for that it must
\* read that header without tripping try_get_irp_buffer's
\* NT_ASSERT(!TRANSFERRED(irp)).  The header went out in the previous read
\* IRP, so after a successful continuation neither can hold.
PartialCheckReadsHeader == assertOk /\ pduHdr \notin {"null", "payload"}
=============================================================================
