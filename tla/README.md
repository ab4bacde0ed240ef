# TLA+ models of the usbip-win2 vhci request path

These modules model the part of the vhci driver that moves USB requests from
the Windows USB stack to the user-mode agent:
- the per-device request queue (`src/driver/vhci/usbreq.c`);
- the read path the agent drains it with, and the wire encoder behind it
  (`src/driver/vhci/vhci_read.c`);
- the sequence-number allocator (`src/driver/vhci/dev.cpp`).

They are checked with TLC. Every definition is translated from the source
lines that `PROJECT.json` ("map") gives for it.

## The system

One virtual device (`vpdo_dev_t`) holds these lists and slots, all guarded by
the spin lock `lock_urbr`:
- `head_urbr`: every urbr that is in flight;
- `head_urbr_pending`: urbrs not yet read by the agent;
- `head_urbr_sent`: urbrs read by the agent and waiting for a reply;
- `urbr_sent_partial` / `len_sent_partial`: the urbr whose header went out
  without its payload;
- `pending_read_irp`: a read IRP of the agent parked because nothing was
  pending.

Four kinds of threads act on one device:

1. **Submitter.** `submit_urbr` runs for every URB IRP the bus hands down,
   and for every unlink urbr a cancel creates. If a read is parked it hands
   the urbr to that read: it disarms the read's cancel routine, sets the
   partial slot, numbers the urbr and runs `store_urbr` outside the lock.
   Otherwise it queues the urbr as pending with `cancel_urbr` armed.
2. **URB cancel routine.** `cancel_urbr` and `remove_cancelled_urbr` take the
   urbr off every list and empty the partial slot. They then submit an
   unlink urbr, free the urbr and complete the IRP.
3. **Reader.** `vhci_read` and `process_read_irp` run for each read IRP of
   the agent.
   - If a read is already parked, the new read is rejected.
   - If the partial slot is full, the reader continues it (`store_urbr_partial`).
   - Otherwise it takes the head of pending and numbers it (`find_pending_urbr`).
   - If pending is empty it parks itself with `on_pending_irp_read_cancelled`
     as cancel routine.

   Encoding runs outside the lock. On success the urbr moves to sent. On
   error it is freed and its IRP is completed if its cancel routine can be
   taken back.
4. **Response path.** `find_sent_urbr` takes a sent urbr matching the
   peer's reply. Its caller, which is not under `src/`, completes the IRP.

The encoder (`store_urbr`, `usb_submit_urb` and the `urb_*` functions selected
through the `urb_functions[]` table) writes a 48-byte usbip header into the
read buffer, followed by the OUT data and any isochronous packet descriptors.
When the payload does not fit, it writes the header alone and sets
`len_sent_partial`. The next read then calls `store_urbr_partial`, which must
produce exactly the payload the agent computes from that header.

Each urbr is numbered by `++vpdo->seq_num` under the lock (usbreq.c:64,
226). `next_seqnum` (dev.cpp) is a second allocator that no code under
`src/` calls. It is not modelled.

## Modules

| Module | Models | State / actions |
|---|---|---|
| `Word32` | 32-bit LONG arithmetic | `Inc32` (wrapping ++) |
| `UrbQueue` | usbreq.c and process_read_irp | See below |
| `MCUrbQueue` | TLC instance of UrbQueue | Store outcomes, symmetry, view |
| `Codec` | The encoder of vhci_read.c and one urbr read over one or two reads | See below |
| `MCCodec` | TLC instance of Codec | Function codes, buffer sizes, lengths, offsets |
| `RequestQueue` | What the queue promises (spec §3, §4.1, §4.2, §5, §8), without cancellation | See "Refinement" below |

### UrbQueue

The variables are the device's lists and slots (`pending`, `sent`, `all`,
`partial`, `lenPartial`, `pendingRead`, `seqNum`), plus:
- `seq`: the seq_num of each urbr;
- `unlinkSeq`: the seq_num_unlink of each unlink urbr, which
  `CancelUnlink` copies from `seq` after the lock is dropped (usbreq.c:97);
- `alloc`: lookaside state (unused, live or freed);
- per IRP: `armed` (a cancel routine is set), `cancelFlag` (Irp->Cancel),
  `completions` (IoCompleteRequest calls) and `markedPending`;
- a program counter for every thread;
- `wire`: the chunks the agent received, in order.

Each section between an acquire and a release of `lock_urbr` is one action.
The call outside the lock is an action of its own, so the other threads can
run in between, as in the code. The actions are:

- **submit_urbr:** `SubmitQueue` (196-209), `SubmitReadCancelled` (211-221),
  `SubmitHandoff` (223-228), `SubmitStore` (230) and `SubmitFinish`
  (232-263).
- **Failed submissions:** `UnlinkSubmitFailed` (submit_urbr_unlink), and
  `UrbSubmitFailed` for the caller of submit_urbr. That caller is not under
  `src/`, so `UrbSubmitFailed` is modelled from the spec.
- **IoCancelIrp:** `IoCancelIrp` sets Irp->Cancel and exchanges the cancel
  routine for NULL. If there was a routine, it starts `cancel_urbr` or
  `on_pending_irp_read_cancelled`.
- **cancel_urbr:** `CancelRemove` (82-95), `CancelUnlink` (96-97, with a
  possible lookaside failure in create_urbr) and `CancelFree` (98-123).
- **process_read_irp:**
  - `ReadStart`, `ReadBusy`, `ReadContinue`;
  - `ReadTake` (find_pending_urbr);
  - `ReadPark` and `ReadMarkPending`: IoMarkIrpPending runs after the
    release, as in the code;
  - `ReadStorePartial` and `ReadStore`: the encoder outside the lock;
  - `ReadFinish`: the whole tail, 1044-1071.
- **Read cancel routine:** `ReadCancelRoutine`.
- **Response path:** `Respond` (find_sent_urbr and the completion by its
  caller).

The constant `Cancellable` is the set of IRPs `IoCancelIrp` may be called
on: all of them in most runs, none in the refinement run, the reads only in
`urbqueue_readcancellost`.

The encoder is abstracted to its outcome, a member of `StoreResults`:
- "full": header and payload fit;
- "partial": header only, and `len_sent_partial` = 48;
- "error": any failure status.

The outcome is chosen freely, because it depends on the read buffer size and
on the URB, and Codec checks that part separately.

### Codec

A request is a record holding:
- the ioctl;
- the function code;
- the transfer direction and the setup packet's direction;
- the pipe type;
- the transfer length;
- whether TransferBuffer is set and whether the MDL maps;
- whether the header can be built;
- the iso packet offsets.

Bytes are abstracted to segments: a header `[cmd, dirIn, len, npk, setup]`, OUT data
of n bytes, and a list of iso packet descriptors. Every encoder is an operator
returning `Ok`, `Part` (header only) or `Err`. `UsbSubmitUrb` dispatches
through `UrbFunctions`, a 62-entry transliteration of the table's handler
kinds.
Encoders with their own code have an operator of their own:
- `SyncResetPipeAndClearStall`, for slot 0x1E;
- `UrbControlGetStatusRequest`, for the four get_status slots;
- `UrbFunctionUnexpected`, which returns STATUS_INTERNAL_ERROR.

The feature, get_configuration and get_interface encoders share
`HeaderOnly`. Every buffer-size check goes through `TryGetIrpBuffer`.

The state machine follows one urbr through a first read (`FirstRead`, any
buffer size) and, if the payload was left, a continuation (`ContinueRead`).
The agent sizes the continuation buffer with `get_pdu_payload_size`, which is
not under `src/`. `PduPayloadSize` models it from the spec.
`ContinueRead` also performs the size check that closes a successful
`store_urbr_partial` (`PartialCheck`). `assertOk` records whether
try_get_irp_buffer's NT_ASSERT held, and `pduHdr` records what was handed to
get_pdu_payload_size.

### Refinement

**RequestQueue.** It has one FIFO `queue`, the request `owed` a payload, the
`delivered` and `done` sets, and the agent's `wire`. Its actions:
- `Submit`: a request joins the end of the queue;
- `DeliverWhole` / `DeliverHeader`: a read takes the head and delivers the
  whole command, or only its header;
- `DeliverPayload`: the next read delivers the payload owed;
- `Reply`: the peer's reply completes a delivered request.

`FairSpec` adds weak fairness, so every request is eventually delivered and
completed.

`UrbQueue!Abstract` maps the driver onto it:
- **accepted:** the URBs whose `submit_urbr` has taken the lock;
- **queue:** `pending`, preceded by the partial slot's urbr while an encoder
  holds it for its first `store_urbr`. That is the handoff in `submit_urbr`,
  or `process_read_irp` after `find_pending_urbr`. Until the read completes,
  the command has not reached the agent;
- **owed:** the urbr left in `urbr_sent_partial` after its header went out;
- **delivered:** `head_urbr_sent`;
- **done:** the completed URB IRPs.

`RefinesRequestQueue` is `Abstract!FairSpec` as a PROPERTY. It is checked
only without cancellation and without encoder errors, because the findings
break it otherwise:
- a cancel makes a freed urbr's command reach the agent (uaf) or cuts a
  payload off its header (framing);
- an error leaves the partial slot dangling (continue);
- two readers continue a urbr before its header exists.

## Runs

| Run | Cfg | Expect | What it checks |
|---|---|---|---|
| urbqueue_safety | MCUrbQueue_safety.cfg | pass | `NoDoubleCompletion`: no IRP is completed twice. `NoOrphanIrp`: no live IRP is left without any thread or list that will complete it. `UnlinkNamesCommand`: no chunk of a URB's command reaches the agent after that URB's unlink, and an unlink that follows the command names the command's seqnum, which is not 0 (the peer aborts by that number; 0 means "never numbered"). Checked over every interleaving of 2 URBs (with their unlinks), their cancels, 1 reader and the response path, with any encoder outcome. |
| urbqueue_progress | MCUrbQueue_progress.cfg | pass | `ReadNotLost`: a waiting read is parked, or held by a submitter or its cancel routine. `UrbCompletes`: under weak fairness every URB IRP is eventually completed. The run has 1 URB, 2 concurrent readers of the agent (which reaches the busy rejection `ReadBusy`) and cancellation of any IRP. The encoder never fails in this run. |
| urbqueue_refines | MCUrbQueue_refines.cfg | pass | `RefinesRequestQueue`, with 3 URBs, 1 reader, no cancellation and no encoder errors. It checks FIFO order across the handoff and the pending list, each header followed by its payload, replies only to delivered URBs, and every URB delivered and completed. |
| urbqueue_uaf | MCUrbQueue_uaf.cfg | violation | `NoUseAfterFree` (a held urbr is live) |
| urbqueue_continue | MCUrbQueue_continue.cfg | violation | `ContinueAfterHeader` (the NT_ASSERT at vhci_read.c:1012) |
| urbqueue_readlost | MCUrbQueue_readlost.cfg | violation | `ReadNotLost` with encoder errors |
| urbqueue_readcancellost | MCUrbQueue_readcancellost.cfg | violation | `CancelledIrpCompletes` under `SilentPeerSpec`, with only the reads cancellable |
| urbqueue_framing | MCUrbQueue_framing.cfg | violation | `HeaderThenPayload` (the framing comment at vhci_read.c:150-152) |
| urbqueue_markpending | MCUrbQueue_markpending.cfg | violation | `MarkPendingBeforeCompletion` |
| codec | MCCodec.cfg | pass | `SplitMatchesSingle`: a command split over two reads delivers the same bytes as one big read. `SetupMatchesDirection`: a header with a filled setup packet has a bmRequestType direction bit equal to the header direction. The peer takes the data stage's direction from the header, and the device takes it from the setup packet. Checked for all 64 function codes except the chained-MDL ones. |
| codec_chained | MCCodec_chained.cfg | violation | `SplitMatchesSingle` with the chained-MDL codes |
| codec_partialcheck | MCCodec_partialcheck.cfg | violation | `PartialCheckReadsHeader`: the size check at the end of `store_urbr_partial` (vhci_read.c:914-921) |

Each violation run is explained in PROJECT.json "findings":
- **Use after free:** cancel_urbr frees a urbr the reader is encoding.
- **Dangling partial slot:** urbr_sent_partial is left pointing at a freed
  urbr after a store error.
- **Lost parked read:** a hand-off error loses the parked read.
- **Lost read cancel:** a read cancelled before it is parked is never
  completed.
- **Broken framing:** cancelling a half-delivered urbr breaks header/payload
  framing.
- **Late IoMarkIrpPending:** it runs after the read may already be complete.
- **Missing chained-MDL continuation:** the case is absent from
  store_urbr_partial.
- **Size check on the wrong buffer:** after a successful continuation,
  store_urbr_partial calls try_get_irp_buffer on the read IRP it has just
  filled. Its NT_ASSERT(!TRANSFERRED(irp)) (vhci_read.c:29) fails, and
  get_pdu_payload_size gets NULL (a payload buffer under 48 bytes) or payload
  bytes, never the header, which went out with the previous read.
  `SplitMatchesSingle` still holds: the bytes delivered are right, and the
  failed check is only logged. In a checked build the assertion stops the
  driver on the first continuation.

Every property of a passing run has a mutant in PROJECT.json. A mutant is a
plausible bug in a mapped definition, and TLC finds it.

### Other disagreements seen while modelling (no run of their own)

- **Two concurrent reads.** The spec (§4.2) says a second concurrent read is
  rejected with DeviceBusy. `process_read_irp` rejects a read only while one
  is parked. With `Readers = {r1, r2}`, the second read continues the first
  read's urbr before its header exists, which violates `ContinueAfterHeader`.
  The hazard is listed at vhci_read.c:1006.
- **A parked second read dropped.** This also comes from the two concurrent
  reads above. After completing the read it handed a urbr to, `submit_urbr`
  sets `pending_read_irp = NULL` unconditionally (usbreq.c:248). A second
  read that parked in the meantime is dropped, and `ReadNotLost` fails with
  2 URBs and 2 readers.
- **Lost URB cancel.** `submit_urbr` sets `cancel_urbr` on a URB IRP
  without checking Irp->Cancel afterwards (usbreq.c:198 and 236). A URB
  cancelled before that point is never cancelled, and it waits for a reply
  the peer may never send. With `Cancellable <- Irps`, the readcancellost
  run finds `CancelledIrpCompletes` violated this way. The run lets only
  reads be cancelled so that it shows the read case.
- **Cancelled parked read.** When the parked read is being cancelled,
  `submit_urbr` fails the URB with STATUS_INVALID_PARAMETER (usbreq.c:215-220).
  The spec (§4.1) says the request falls through to pending.
- **seq_num wrap.** `++vpdo->seq_num` (usbreq.c:64, 226) has no zero-skip, so
  after 2^32 urbrs a urbr gets seqnum 0, which spec.md (§2, §5) reserves
  for "no identifier". MCUrbQueue_wrap.cfg is the safety run started from
  `SeqStart <- SeqWrap` (0xFFFFFFFF). There TLC finds `UnlinkNamesCommand`
  violated in a 14-state trace: the first URB is numbered 0 and its header goes out.
  It is then cancelled, and its unlink names seqnum 0, which the peer cannot
  match to the command it is running. All 12 run slots are taken by the
  findings above, so this cfg is kept for reproduction and is not listed as
  a run.
- **Iso descriptor sum.** `do_copy_payload` does not require the first iso
  offset to be 0. With a first offset > 0, the descriptors' lengths sum to
  less than TransferBufferLength, and the NT_ASSERT at vhci_read.c:104 fails.

## Bounds and why they suffice

**UrbQueue: 2 URBs, their 2 unlink urbrs and 1 reader.**
- Two URBs are enough for one to be pending while the other is partial, sent
  or being cancelled.
- Every thread's program counter ranges over all its branches.
- Symmetry over `Urbs` is sound because the URBs are interchangeable model
  values and no property names one.
- No guard reads `wire`. The safety run's view (`UnlinkView`) therefore
  keeps only what `UnlinkNamesCommand` reads of it, now or in any later
  state: which urbrs have a chunk out, the seqnums, and the property's own
  value. Two states that agree on these agree on the property in every
  extension. With the full `wire`, the run needs 4.8 million states and
  3.5 minutes; with the view it needs 1.2 million and 80 seconds.
- The progress run's view (`QueueView`) also drops `seqNum`, `seq` and
  `unlinkSeq`, which its properties do not mention.
- The pending list cannot grow past two, so no counter needs a cap.
- Three URBs with one reader and any encoder outcome pass 2.3 million
  distinct states in two minutes, with the queue of unexplored states still
  growing. The refinement run has three URBs, in a smaller space without
  cancels or errors.
- **Two readers.** The progress run has 1 URB and 2 readers; symmetry is
  not used there, because it is unsound for liveness. Two URBs with two
  readers pass 7.8 million distinct states without finishing in 6 minutes,
  even with both symmetries.
- **Refinement: 3 URBs and 1 reader.** Three URBs let one be owed a
  payload, one be handed off or encoded, and one wait behind them, so FIFO
  order is tested across every path into the queue.

**Codec.**
- **Read buffers:** 40, 48, 56 and 160 bytes, to cover every case:
  - smaller than the header;
  - exactly the header;
  - the header plus part of a payload;
  - room for everything.
- **Transfer lengths:** 0 and 16.
- **Iso offsets:** drawn from {0, 8, 24}, up to two packets. This gives
  offsets in order, equal, out of order and past the buffer.
- **Everything else:** every function code 0..63.

## Fairness

`FairSpec` assumes weak fairness of:
- every driver thread's next step: submit, cancel routine and reader
  (`DriverFairness`);
- the response path (`PeerFairness`).

`SilentPeerSpec` drops `PeerFairness`. A cancel must take effect even when
the device hangs or the connection is lost, so `CancelledIrpCompletes` is
checked under it.

The driver code never blocks a thread, except by spinning on `lock_urbr`,
which is released at the end of every section. The agent keeps a read
outstanding, and the peer answers every command. No fairness is assumed for
`IoCancelIrp`, because cancelling is the caller's choice.

## Not modelled

- **`next_seqnum`** (dev.cpp:137-148): no code under `src/` calls it.
- **The NULL-URB path of `usb_submit_urbr`** (vhci_read.c:864-867): it
  returns STATUS_INVALID_DEVICE_REQUEST before any write, like an encoder
  error. `UsbSubmitUrb` starts from a URB that is present.
- **dev.cpp device creation and properties** (`vdev_create`,
  `GetDeviceProperty`, `to_*_or_null`, `get_string_descr_str`): PnP and
  registry I/O.
- **`complete_enqueue`/`complete_dequeue`:** their consumer, the write path,
  is not under `src/`. Each one is a single ExInterlocked list call, and the
  list shares no state with the request path.
- **`is_port_urbr`, `init_setup_packet`, `dbg_urbr`:** helpers of the
  abort-pipe and logging paths, which are not under `src/`.
- **The WMI provider (`vhci_wmi.c`):** each handler validates a GUID index
  and a buffer size, then hands the IRP to WMILIB, which is not under `src/`.
  It shares no state with the request path.
- **The CLI listing (`list.cpp`):** an option loop around a call that does
  I/O.
- **Headers:** `vhci.h` has the port arithmetic (`make_port`,
  `get_hci_version`, `is_valid_port`), and its `static_assert`s already check
  that arithmetic at compile time. Of `usbd_helper.h`, the direction accessors
  that the encoders call (`IsTransferDirectionIn/Out`, `is_transfer_dir_out`)
  are operators of Codec. The endpoint accessors of `vhci_devconf.h` enter
  only through their result, the pipe type. The rest are declarations.
- **Inside the encoder:** the values of the setup-packet fields other than
  the direction bit, and the byte layout of the header. Codec keeps each
  header's direction, length, packet count and setup direction.

## Plan for further work

1. Cancellation in RequestQueue: a cancelled request completes as
   cancelled, and an unlink follows its command. This would need a model
   with the uaf and framing bugs fixed, since the code as it is cannot
   refine it.
2. The two-reader findings as runs of their own, and a model with the
   read path fixed (busy if a read is in progress), to check that the
   remaining properties then hold.
3. The seq_num wrap (MCUrbQueue_wrap.cfg) as a violation run, if a run
   slot frees up.
