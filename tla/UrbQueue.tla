------------------------------ MODULE UrbQueue ------------------------------
(***************************************************************************)
(* The per-device request queue of the vhci driver (struct vpdo_dev_t):    *)
(* the lists head_urbr (all), head_urbr_pending, head_urbr_sent, the slot  *)
(* urbr_sent_partial/len_sent_partial and the parked read                  *)
(* pending_read_irp, all guarded by lock_urbr.                             *)
(*                                                                         *)
(* Threads that run against one device:                                    *)
(*   - the submitter of each urbr: submit_urbr (usbreq.c), called by the   *)
(*     bus for a URB IRP or by cancel_urbr for an unlink urbr;             *)
(*   - the cancel routine cancel_urbr/remove_cancelled_urbr of a URB IRP;  *)
(*   - each reader of the user-mode agent: vhci_read/process_read_irp and  *)
(*     the read cancel routine on_pending_irp_read_cancelled (vhci_read.c);*)
(*   - the response path, which takes a sent urbr by find_sent_urbr.       *)
(* Every section that runs under lock_urbr is one step; what runs outside  *)
(* it (store_urbr, the codec, the unlink submission) is a step of its own, *)
(* so that the other threads can run in between, as they can in the code. *)
(*                                                                         *)
(* The codec is abstracted to the outcome store_urbr reports: the whole    *)
(* command fits ("full"), only the header fits and len_sent_partial is set *)
(* ("partial"), or an error such as STATUS_BUFFER_TOO_SMALL ("error").     *)
(***************************************************************************)
EXTENDS Integers, Sequences, SequencesExt, Word32

CONSTANTS
  Urbs,          \* URB IRPs the bus submits (IOCTL_INTERNAL_USB_SUBMIT_URB)
  Readers,       \* reader threads of the agent; each has one read IRP at a time
  NULL,
  StoreResults,  \* the outcomes store_urbr may report in this model
  SeqStart,      \* vpdo->seq_num when the run starts (an unsigned long)
  Cancellable    \* the IRPs whose owner may cancel them

ASSUME StoreResults \subseteq {"full", "partial", "error"}
ASSUME "full" \in StoreResults
ASSUME NULL \notin Urbs \cup Readers
ASSUME SeqStart \in Longs
ASSUME Cancellable \subseteq Urbs \cup Readers

\* The urbr that submit_urbr_unlink creates when the IRP u is cancelled.
UL(u) == [unlink |-> u]
Unlinks == {UL(u) : u \in Urbs}
Urbrs == Urbs \cup Unlinks
Irps == Urbs \cup Readers

\* sizeof(struct usbip_header): what the codec stores in len_sent_partial.
HdrSize == 48

\* What one completed read IRP hands to the agent for a urbr.
Chunk(x, kind) == [urbr |-> x, kind |-> kind]
ChunkKinds == {"full", "hdr", "payload"}

VARIABLES
  pending,       \* head_urbr_pending, in insertion order
  sent,          \* head_urbr_sent
  all,           \* head_urbr
  partial,       \* urbr_sent_partial
  lenPartial,    \* len_sent_partial
  pendingRead,   \* pending_read_irp
  seqNum,        \* vpdo->seq_num, its 32 bits as in Word32
  seq,           \* urbr->seq_num
  unlinkSeq,     \* urbr->seq_num_unlink of each unlink urbr
  alloc,         \* lookaside state of each urbr: "unused", "live", "freed"
  armed,         \* the IRP has a cancel routine set (IoSetCancelRoutine)
  cancelFlag,    \* Irp->Cancel
  completions,   \* times IoCompleteRequest was called on the IRP
  markedPending, \* IoMarkIrpPending was called on the IRP
  spc, sread, sres,   \* submitter: program counter, read IRP taken, store result
  rpc, rurbr, rres,   \* reader: program counter, urbr in hand, store result
  cpc,           \* cancel routine cancel_urbr of each URB IRP
  rcpc,          \* cancel routine on_pending_irp_read_cancelled of each read
  wire           \* chunks handed to the agent, in completion order

queue == <<pending, sent, all, partial, lenPartial, pendingRead, seqNum, seq,
           unlinkSeq, alloc>>
irps == <<armed, cancelFlag, completions, markedPending>>
threads == <<spc, sread, sres, rpc, rurbr, rres, cpc, rcpc>>
vars == <<queue, irps, threads, wire>>

SPcs == {"s_lock", "s_store", "s_finish", "s_failed", "s_done", "idle"}
RPcs == {"idle", "r_lock", "r_store", "r_store_partial", "r_finish",
         "r_finish_partial", "r_mark_pending", "r_wait"}
CPcs == {"idle", "c_lock", "c_unlink", "c_wait", "c_free", "c_done"}

TypeOK ==
  /\ pending \in Seq(Urbrs)
  /\ sent \subseteq Urbrs /\ all \subseteq Urbrs
  /\ partial \in Urbrs \cup {NULL}
  /\ lenPartial \in {0, HdrSize}
  /\ pendingRead \in Readers \cup {NULL}
  /\ seqNum \in Longs /\ seq \in [Urbrs -> Longs]
  /\ unlinkSeq \in [Unlinks -> Longs]
  /\ alloc \in [Urbrs -> {"unused", "live", "freed"}]
  /\ armed \in [Irps -> BOOLEAN] /\ cancelFlag \in [Irps -> BOOLEAN]
  /\ completions \in [Irps -> Nat] /\ markedPending \in [Irps -> BOOLEAN]
  /\ spc \in [Urbrs -> SPcs] /\ sread \in [Urbrs -> Readers \cup {NULL}]
  /\ sres \in [Urbrs -> StoreResults \cup {NULL}]
  /\ rpc \in [Readers -> RPcs] /\ rurbr \in [Readers -> Urbrs \cup {NULL}]
  /\ rres \in [Readers -> StoreResults \cup {NULL}]
  /\ cpc \in [Urbs -> CPcs] /\ rcpc \in [Readers -> {"idle", "rc_lock"}]
  /\ wire \in Seq([urbr : Urbrs, kind : ChunkKinds])

\* Each URB IRP arrives with its urbr already made by create_urbr; the
\* unlink urbrs do not exist yet; no read is outstanding.
Init ==
  /\ pending = <<>> /\ sent = {} /\ all = {}
  /\ partial = NULL /\ lenPartial = 0 /\ pendingRead = NULL
  /\ seqNum = SeqStart /\ seq = [x \in Urbrs |-> 0]
  /\ unlinkSeq = [x \in Unlinks |-> 0]
  /\ alloc = [x \in Urbrs |-> IF x \in Urbs THEN "live" ELSE "unused"]
  /\ armed = [i \in Irps |-> FALSE] /\ cancelFlag = [i \in Irps |-> FALSE]
  /\ completions = [i \in Irps |-> 0] /\ markedPending = [i \in Irps |-> FALSE]
  /\ spc = [x \in Urbrs |-> IF x \in Urbs THEN "s_lock" ELSE "idle"]
  /\ sread = [x \in Urbrs |-> NULL] /\ sres = [x \in Urbrs |-> NULL]
  /\ rpc = [r \in Readers |-> "idle"] /\ rurbr = [r \in Readers |-> NULL]
  /\ rres = [r \in Readers |-> NULL]
  /\ cpc = [u \in Urbs |-> "idle"] /\ rcpc = [r \in Readers |-> "idle"]
  /\ wire = <<>>

-----------------------------------------------------------------------------
(* Helpers.                                                                *)

\* What store_urbr may report for x: only a URB carries a payload that can
\* be left for a second read; store_cancelled_urbr writes a bare header.
StoreOutcomes(x) ==
  IF x \in Urbs THEN StoreResults ELSE StoreResults \ {"partial"}

\* IoSetCancelRoutine(irp, cancel_urbr) followed by IoMarkIrpPending(irp),
\* done for the URB IRP of x (an unlink urbr has no IRP).
ArmUrbIrp(x) ==
  IF x \in Urbs
  THEN /\ armed' = [armed EXCEPT ![x] = TRUE]
       /\ markedPending' = [markedPending EXCEPT ![x] = TRUE]
  ELSE UNCHANGED <<armed, markedPending>>

\* Fault variant of SentAfterFinish: the urbr is never put on
\* head_urbr_sent.
SentAfterFinishDropped(x, len) == sent

\* head_urbr_sent after a successful store of x: x joins it unless
\* len_sent_partial says its payload is still owed.
SentAfterFinish(x, len) == IF len = 0 THEN sent \cup {x} ELSE sent

\* Fault variants of ErrorCompletes: the URB IRP is completed without
\* consulting IoSetCancelRoutine(irp, NULL); it is never completed.
ErrorCompletesUnchecked(x) == {x} \cap Urbs
ErrorCompletesNone(x) == {}

\* The URB IRPs the read error path completes: x's IRP, if taking its
\* cancel routine back succeeds (valid = IoSetCancelRoutine(irp, NULL)).
ErrorCompletes(x) == IF x \in Urbs /\ armed[x] THEN {x} ELSE {}

\* Fault variant of LenAfterContinue: subtract the header already
\* delivered instead of clearing the count.
LenAfterContinueSubtract == lenPartial - HdrSize

\* vpdo->len_sent_partial = 0 once a continuation has run.
LenAfterContinue == 0

Complete(S) == completions' = [i \in Irps |-> IF i \in S THEN completions[i] + 1
                                                         ELSE completions[i]]

-----------------------------------------------------------------------------
(* submit_urbr (usbreq.c).                                                 *)

\* No parked read, or a partial delivery outstanding: queue x as pending.
SubmitQueue(x) ==
  /\ spc[x] = "s_lock"
  /\ partial # NULL \/ pendingRead = NULL
  /\ ArmUrbIrp(x)
  /\ pending' = Append(pending, x)
  /\ all' = all \cup {x}
  /\ spc' = [spc EXCEPT ![x] = "s_done"]
  /\ UNCHANGED <<partial, lenPartial, pendingRead, seqNum, seq, unlinkSeq,
                 alloc, sent, cancelFlag, completions, sread, sres, rpc, rurbr,
                 rres, cpc, rcpc, wire>>

\* Fault variant: the result of IoSetCancelRoutine(pending_read_irp, NULL)
\* is not consulted, so a live parked read is dropped as if cancelled.
SubmitReadCancelledUnchecked(x) ==
  /\ spc[x] = "s_lock"
  /\ partial = NULL /\ pendingRead # NULL
  /\ pendingRead' = NULL
  /\ spc' = [spc EXCEPT ![x] = "s_failed"]
  /\ UNCHANGED <<pending, sent, all, partial, lenPartial, seqNum, seq,
                 unlinkSeq, alloc, irps, sread, sres, rpc, rurbr, rres, cpc,
                 rcpc, wire>>

\* The parked read lost its cancel routine to IoCancelIrp: the slot is
\* cleared and submit_urbr fails with STATUS_INVALID_PARAMETER.
SubmitReadCancelled(x) ==
  /\ spc[x] = "s_lock"
  /\ partial = NULL /\ pendingRead # NULL
  /\ ~armed[pendingRead]
  /\ pendingRead' = NULL
  /\ spc' = [spc EXCEPT ![x] = "s_failed"]
  /\ UNCHANGED <<pending, sent, all, partial, lenPartial, seqNum, seq,
                 unlinkSeq, alloc, irps, sread, sres, rpc, rurbr, rres, cpc,
                 rcpc, wire>>

\* Hand x to the parked read: disarm the read, occupy the partial slot and
\* number x, then drop the lock to encode.
SubmitHandoff(x) ==
  /\ spc[x] = "s_lock"
  /\ partial = NULL /\ pendingRead # NULL
  /\ armed[pendingRead]
  /\ armed' = [armed EXCEPT ![pendingRead] = FALSE]
  /\ sread' = [sread EXCEPT ![x] = pendingRead]
  /\ partial' = x
  /\ seqNum' = Inc32(seqNum)
  /\ seq' = [seq EXCEPT ![x] = Inc32(seqNum)]
  /\ spc' = [spc EXCEPT ![x] = "s_store"]
  /\ UNCHANGED <<pending, sent, all, lenPartial, pendingRead, unlinkSeq, alloc,
                 cancelFlag, completions, markedPending, sres, rpc, rurbr, rres,
                 cpc, rcpc, wire>>

\* store_urbr(read_irp, urbr) outside the lock; an encoder that can fit only
\* the header writes vpdo->len_sent_partial without holding the lock.
SubmitStore(x) ==
  /\ spc[x] = "s_store"
  /\ \E o \in StoreOutcomes(x) :
       /\ sres' = [sres EXCEPT ![x] = o]
       /\ lenPartial' = IF o = "partial" THEN HdrSize ELSE lenPartial
  /\ spc' = [spc EXCEPT ![x] = "s_finish"]
  /\ UNCHANGED <<pending, sent, all, partial, pendingRead, seqNum, seq,
                 unlinkSeq, alloc, irps, sread, rpc, rurbr, rres, cpc, rcpc,
                 wire>>

\* Re-acquire the lock; on success arm x's IRP, move x to sent unless a
\* payload is still owed, clear the parked read and complete it.
SubmitFinish(x) ==
  /\ spc[x] = "s_finish"
  /\ LET r == sread[x] IN
     IF sres[x] # "error"
     THEN /\ ArmUrbIrp(x)
          /\ partial' = IF lenPartial = 0 THEN NULL ELSE partial
          /\ sent' = SentAfterFinish(x, lenPartial)
          /\ all' = all \cup {x}
          /\ pendingRead' = NULL
          /\ Complete({r})
          /\ wire' = Append(wire, Chunk(x, IF sres[x] = "full" THEN "full" ELSE "hdr"))
          /\ spc' = [spc EXCEPT ![x] = "s_done"]
     ELSE /\ partial' = NULL
          /\ spc' = [spc EXCEPT ![x] = "s_failed"]
          /\ UNCHANGED <<sent, all, pendingRead, armed, markedPending,
                         completions, wire>>
  /\ UNCHANGED <<pending, lenPartial, seqNum, seq, unlinkSeq, alloc, cancelFlag,
                 sread, sres, rpc, rurbr, rres, cpc, rcpc>>

\* submit_urbr_unlink: a failed unlink submission frees the unlink urbr.
UnlinkSubmitFailed(x) ==
  /\ x \in Unlinks /\ spc[x] = "s_failed"
  /\ alloc' = [alloc EXCEPT ![x] = "freed"]
  /\ spc' = [spc EXCEPT ![x] = "s_done"]
  /\ UNCHANGED <<pending, sent, all, partial, lenPartial, pendingRead, seqNum,
                 seq, unlinkSeq, irps, sread, sres, rpc, rurbr, rres, cpc, rcpc,
                 wire>>

\* The bus-side caller of submit_urbr frees the urbr of a failed
\* submission and completes the URB IRP with the error.
UrbSubmitFailed(u) ==
  /\ u \in Urbs /\ spc[u] = "s_failed"
  /\ alloc' = [alloc EXCEPT ![u] = "freed"]
  /\ Complete({u})
  /\ spc' = [spc EXCEPT ![u] = "s_done"]
  /\ UNCHANGED <<pending, sent, all, partial, lenPartial, pendingRead, seqNum,
                 seq, unlinkSeq, armed, cancelFlag, markedPending, sread, sres,
                 rpc, rurbr, rres, cpc, rcpc, wire>>

-----------------------------------------------------------------------------
(* Cancellation of a URB IRP: IoCancelIrp, then cancel_urbr and            *)
(* remove_cancelled_urbr (usbreq.c).                                       *)

\* IoCancelIrp: set Irp->Cancel and take the cancel routine; if there was
\* one, it starts running (cancel_urbr or on_pending_irp_read_cancelled).
IoCancelIrp(i) ==
  /\ i \in Cancellable
  /\ completions[i] = 0 /\ ~cancelFlag[i]
  /\ i \in Readers => rpc[i] # "idle"
  /\ cancelFlag' = [cancelFlag EXCEPT ![i] = TRUE]
  /\ armed' = [armed EXCEPT ![i] = FALSE]
  /\ cpc' = IF i \in Urbs /\ armed[i] THEN [cpc EXCEPT ![i] = "c_lock"] ELSE cpc
  /\ rcpc' = IF i \in Readers /\ armed[i] THEN [rcpc EXCEPT ![i] = "rc_lock"] ELSE rcpc
  /\ UNCHANGED <<queue, completions, markedPending, spc, sread, sres, rpc,
                 rurbr, rres, wire>>

\* CancelRemove that leaves u on the pending list (list_state not unlinked).
CancelRemoveKeepPending(u) ==
  /\ cpc[u] = "c_lock"
  /\ sent' = sent \ {u}
  /\ all' = all \ {u}
  /\ IF partial = u
     THEN partial' = NULL /\ lenPartial' = 0
     ELSE UNCHANGED <<partial, lenPartial>>
  /\ cpc' = [cpc EXCEPT ![u] = "c_unlink"]
  /\ UNCHANGED <<pending, pendingRead, seqNum, seq, unlinkSeq, alloc, irps, spc,
                 sread, sres, rpc, rurbr, rres, rcpc, wire>>

\* Under the lock: unlink u from whatever list holds it and empty the
\* partial slot if u occupies it.
CancelRemove(u) ==
  /\ cpc[u] = "c_lock"
  /\ pending' = Remove(pending, u)
  /\ sent' = sent \ {u}
  /\ all' = all \ {u}
  /\ IF partial = u
     THEN partial' = NULL /\ lenPartial' = 0
     ELSE UNCHANGED <<partial, lenPartial>>
  /\ cpc' = [cpc EXCEPT ![u] = "c_unlink"]
  /\ UNCHANGED <<pendingRead, seqNum, seq, unlinkSeq, alloc, irps, spc, sread,
                 sres, rpc, rurbr, rres, rcpc, wire>>

\* submit_urbr_unlink: create the unlink urbr for u's seq_num, read after
\* the lock is dropped, and submit it on this thread; an exhausted
\* lookaside list sends nothing.
CancelUnlink(u) ==
  /\ cpc[u] = "c_unlink"
  /\ \/ /\ alloc' = [alloc EXCEPT ![UL(u)] = "live"]
        /\ unlinkSeq' = [unlinkSeq EXCEPT ![UL(u)] = seq[u]]
        /\ spc' = [spc EXCEPT ![UL(u)] = "s_lock"]
        /\ cpc' = [cpc EXCEPT ![u] = "c_wait"]
     \/ /\ cpc' = [cpc EXCEPT ![u] = "c_free"]
        /\ UNCHANGED <<alloc, unlinkSeq, spc>>
  /\ UNCHANGED <<pending, sent, all, partial, lenPartial, pendingRead, seqNum,
                 seq, irps, sread, sres, rpc, rurbr, rres, rcpc, wire>>

\* Once submit_urbr for the unlink has returned: free u and complete its
\* IRP with STATUS_CANCELLED.
CancelFree(u) ==
  /\ \/ cpc[u] = "c_free"
     \/ cpc[u] = "c_wait" /\ spc[UL(u)] = "s_done"
  /\ alloc' = [alloc EXCEPT ![u] = "freed"]
  /\ Complete({u})
  /\ cpc' = [cpc EXCEPT ![u] = "c_done"]
  /\ UNCHANGED <<pending, sent, all, partial, lenPartial, pendingRead, seqNum,
                 seq, unlinkSeq, armed, cancelFlag, markedPending, spc, sread,
                 sres, rpc, rurbr, rres, rcpc, wire>>

-----------------------------------------------------------------------------
(* Reads: vhci_read, process_read_irp, on_pending_irp_read_cancelled.      *)

\* The agent issues a new read IRP once its previous one has completed.
ReadStart(r) ==
  /\ \/ rpc[r] = "idle"
     \/ rpc[r] = "r_wait" /\ completions[r] > 0
  /\ rpc' = [rpc EXCEPT ![r] = "r_lock"]
  /\ rurbr' = [rurbr EXCEPT ![r] = NULL]
  /\ rres' = [rres EXCEPT ![r] = NULL]
  /\ armed' = [armed EXCEPT ![r] = FALSE]
  /\ cancelFlag' = [cancelFlag EXCEPT ![r] = FALSE]
  /\ completions' = [completions EXCEPT ![r] = 0]
  /\ markedPending' = [markedPending EXCEPT ![r] = FALSE]
  /\ UNCHANGED <<queue, spc, sread, sres, cpc, rcpc, wire>>

\* A read is already parked: STATUS_INVALID_DEVICE_REQUEST, completed by
\* vhci_read.
ReadBusy(r) ==
  /\ rpc[r] = "r_lock"
  /\ pendingRead # NULL
  /\ Complete({r})
  /\ rpc' = [rpc EXCEPT ![r] = "idle"]
  /\ UNCHANGED <<queue, armed, cancelFlag, markedPending, spc, sread, sres,
                 rurbr, rres, cpc, rcpc, wire>>

\* A header went out without its payload: continue that urbr.
ReadContinue(r) ==
  /\ rpc[r] = "r_lock"
  /\ pendingRead = NULL /\ partial # NULL
  /\ rurbr' = [rurbr EXCEPT ![r] = partial]
  /\ rpc' = [rpc EXCEPT ![r] = "r_store_partial"]
  /\ UNCHANGED <<queue, irps, spc, sread, sres, rres, cpc, rcpc, wire>>

\* find_pending_urbr: take the head of the pending list and number it; the
\* urbr occupies the partial slot while it is encoded outside the lock.
ReadTake(r) ==
  /\ rpc[r] = "r_lock"
  /\ pendingRead = NULL /\ partial = NULL /\ pending # <<>>
  /\ LET x == Head(pending) IN
       /\ seqNum' = Inc32(seqNum)
       /\ seq' = [seq EXCEPT ![x] = Inc32(seqNum)]
       /\ pending' = Tail(pending)
       /\ partial' = x
       /\ rurbr' = [rurbr EXCEPT ![r] = x]
  /\ rpc' = [rpc EXCEPT ![r] = "r_store"]
  /\ UNCHANGED <<sent, all, lenPartial, pendingRead, unlinkSeq, alloc, irps,
                 spc, sread, sres, rres, cpc, rcpc, wire>>

\* Nothing to send: park the read and set its cancel routine.
ReadPark(r) ==
  /\ rpc[r] = "r_lock"
  /\ pendingRead = NULL /\ partial = NULL /\ pending = <<>>
  /\ pendingRead' = r
  /\ armed' = [armed EXCEPT ![r] = TRUE]
  /\ rpc' = [rpc EXCEPT ![r] = "r_mark_pending"]
  /\ UNCHANGED <<pending, sent, all, partial, lenPartial, seqNum, seq,
                 unlinkSeq, alloc, cancelFlag, completions, markedPending, spc,
                 sread, sres, rurbr, rres, cpc, rcpc, wire>>

\* IoMarkIrpPending(read_irp) after the lock is dropped; return
\* STATUS_PENDING.
ReadMarkPending(r) ==
  /\ rpc[r] = "r_mark_pending"
  /\ markedPending' = [markedPending EXCEPT ![r] = TRUE]
  /\ rpc' = [rpc EXCEPT ![r] = "r_wait"]
  /\ UNCHANGED <<queue, armed, cancelFlag, completions, spc, sread, sres,
                 rurbr, rres, cpc, rcpc, wire>>

\* store_urbr_partial: copy the payload owed for the partial urbr.
ReadStorePartial(r) ==
  /\ rpc[r] = "r_store_partial"
  /\ \E o \in StoreResults \ {"partial"} : rres' = [rres EXCEPT ![r] = o]
  /\ rpc' = [rpc EXCEPT ![r] = "r_finish_partial"]
  /\ UNCHANGED <<queue, irps, spc, sread, sres, rurbr, cpc, rcpc, wire>>

\* store_urbr: encode the urbr taken from the pending list.
ReadStore(r) ==
  /\ rpc[r] = "r_store"
  /\ \E o \in StoreOutcomes(rurbr[r]) :
       /\ rres' = [rres EXCEPT ![r] = o]
       /\ lenPartial' = IF o = "partial" THEN HdrSize ELSE lenPartial
  /\ rpc' = [rpc EXCEPT ![r] = "r_finish"]
  /\ UNCHANGED <<pending, sent, all, partial, pendingRead, seqNum, seq,
                 unlinkSeq, alloc, irps, spc, sread, sres, rurbr, cpc, rcpc,
                 wire>>

\* Re-acquire the lock (a continuation first zeroes len_sent_partial).
\* Error: drop the urbr from head_urbr, free it and, if its IRP's cancel
\* routine can still be taken back, complete that IRP.  Success: move the
\* urbr to sent unless a payload is owed.  vhci_read completes the read.
ReadFinish(r) ==
  /\ rpc[r] \in {"r_finish", "r_finish_partial"}
  /\ LET x == rurbr[r]
         cont == rpc[r] = "r_finish_partial"
         len == IF cont THEN LenAfterContinue ELSE lenPartial
     IN /\ lenPartial' = len
        /\ IF rres[r] = "error"
           THEN /\ all' = all \ {x}
                /\ alloc' = [alloc EXCEPT ![x] = "freed"]
                /\ armed' = IF x \in Urbs THEN [armed EXCEPT ![x] = FALSE] ELSE armed
                /\ Complete({r} \cup ErrorCompletes(x))
                /\ UNCHANGED <<sent, partial, wire>>
           ELSE /\ partial' = IF len = 0 THEN NULL ELSE partial
                /\ sent' = SentAfterFinish(x, len)
                /\ Complete({r})
                /\ wire' = Append(wire, Chunk(x, CASE cont -> "payload"
                                                   [] rres[r] = "full" -> "full"
                                                   [] OTHER -> "hdr"))
                /\ UNCHANGED <<all, alloc, armed>>
  /\ rpc' = [rpc EXCEPT ![r] = "idle"]
  /\ UNCHANGED <<pending, pendingRead, seqNum, seq, unlinkSeq, cancelFlag,
                 markedPending, spc, sread, sres, rurbr, rres, cpc, rcpc>>

\* on_pending_irp_read_cancelled: clear the slot if it still holds this
\* read, and complete the read with STATUS_CANCELLED.
ReadCancelRoutine(r) ==
  /\ rcpc[r] = "rc_lock"
  /\ pendingRead' = IF pendingRead = r THEN NULL ELSE pendingRead
  /\ Complete({r})
  /\ rcpc' = [rcpc EXCEPT ![r] = "idle"]
  /\ UNCHANGED <<pending, sent, all, partial, lenPartial, seqNum, seq,
                 unlinkSeq, alloc, armed, cancelFlag, markedPending, spc, sread,
                 sres, rpc, rurbr, rres, cpc, wire>>

-----------------------------------------------------------------------------
(* The response path.                                                      *)

\* find_sent_urbr takes x off head_urbr_sent and head_urbr when the peer's
\* reply carries its seqnum; the caller then frees x and completes its IRP,
\* unless the IRP's cancel routine has already been taken by IoCancelIrp,
\* in which case cancel_urbr owns x.
Respond(x) ==
  /\ x \in sent
  /\ sent' = sent \ {x}
  /\ all' = all \ {x}
  /\ IF x \in Urbs
     THEN IF armed[x]
          THEN /\ armed' = [armed EXCEPT ![x] = FALSE]
               /\ Complete({x})
               /\ alloc' = [alloc EXCEPT ![x] = "freed"]
          ELSE UNCHANGED <<armed, completions, alloc>>
     ELSE /\ alloc' = [alloc EXCEPT ![x] = "freed"]
          /\ UNCHANGED <<armed, completions>>
  /\ UNCHANGED <<pending, partial, lenPartial, pendingRead, seqNum, seq,
                 unlinkSeq, cancelFlag, markedPending, threads, wire>>

-----------------------------------------------------------------------------
SubmitStep(x) ==
  \/ SubmitQueue(x) \/ SubmitReadCancelled(x) \/ SubmitHandoff(x)
  \/ SubmitStore(x) \/ SubmitFinish(x)
  \/ UnlinkSubmitFailed(x) \/ UrbSubmitFailed(x)

CancelStep(u) == CancelRemove(u) \/ CancelUnlink(u) \/ CancelFree(u)

ReadStep(r) ==
  \/ ReadStart(r) \/ ReadBusy(r) \/ ReadContinue(r) \/ ReadTake(r)
  \/ ReadPark(r) \/ ReadMarkPending(r) \/ ReadStorePartial(r)
  \/ ReadStore(r) \/ ReadFinish(r) \/ ReadCancelRoutine(r)

Next ==
  \/ \E x \in Urbrs : SubmitStep(x) \/ Respond(x)
  \/ \E u \in Urbs : CancelStep(u)
  \/ \E r \in Readers : ReadStep(r)
  \/ \E i \in Irps : IoCancelIrp(i)

Spec == Init /\ [][Next]_vars

\* Every driver thread, once it can take its next step, eventually does,
\* and the agent keeps issuing reads.  Cancellation is the caller's choice
\* and is not assumed to happen.
DriverFairness ==
  /\ \A x \in Urbrs : WF_vars(SubmitStep(x))
  /\ \A u \in Urbs : WF_vars(CancelStep(u))
  /\ \A r \in Readers : WF_vars(ReadStep(r))

\* The peer answers every command it got.
PeerFairness == \A x \in Urbrs : WF_vars(Respond(x))

FairSpec == Spec /\ DriverFairness /\ PeerFairness

\* A peer that may stop answering (a hung device, a dropped connection):
\* what must still happen then is the driver's own doing.
SilentPeerSpec == Spec /\ DriverFairness

-----------------------------------------------------------------------------
(* Properties.                                                             *)

\* The urbrs some thread holds and will still dereference: a submitter
\* between its lock and its return, a reader between taking a urbr and
\* finishing with it, a cancel routine until it has freed its urbr.
Held ==
  {x \in Urbrs : spc[x] \in {"s_lock", "s_store", "s_finish", "s_failed"}}
  \cup {rurbr[r] : r \in {q \in Readers : rpc[q] \in {"r_store", "r_store_partial",
                                                     "r_finish", "r_finish_partial"}}}
  \cup {u \in Urbs : cpc[u] \in {"c_lock", "c_unlink", "c_wait", "c_free"}}

\* The urbrs the device queue can reach: its three lists and the slot.
Reachable == ToSet(pending) \cup sent \cup all \cup ({partial} \ {NULL})

\* No IRP is completed twice: the cancel routines, the read error path,
\* the submit handoff and the response path each take the cancel routine
\* back (or own the IRP) before completing it.
NoDoubleCompletion == \A i \in Irps : completions[i] <= 1

\* A URB IRP that has not been completed is never lost: its urbr is still
\* reachable from the device queue or held by a thread that will finish it
\* (submit_urbr, process_read_irp, cancel_urbr).
NoOrphanIrp == \A u \in Urbs : completions[u] = 0 => u \in Held \cup Reachable

\* A read IRP the driver holds and has not completed is never lost: it is
\* the parked read in pending_read_irp, a submitter that took it from there
\* is about to complete it, or its cancel routine is running.
ReadNotLost ==
  \A r \in Readers :
    rpc[r] \in {"r_mark_pending", "r_wait"} /\ completions[r] = 0 =>
      \/ pendingRead = r
      \/ rcpc[r] = "rc_lock"
      \/ \E x \in Urbrs : sread[x] = r /\ spc[x] \in {"s_store", "s_finish"}

\* No urbr is used or reachable after free_urbr: a thread that holds a
\* urbr, and the queue's lists and partial slot, refer to live urbrs only.
NoUseAfterFree == \A x \in Held \cup Reachable : alloc[x] = "live"

\* NT_ASSERT(vpdo->len_sent_partial) in process_read_irp: a read continues
\* a partial urbr only after its header went out.
ContinueAfterHeader ==
  [][\A r \in Readers : rpc[r] = "r_lock" /\ rpc'[r] = "r_store_partial"
                        => lenPartial # 0]_vars

\* "Userspace app reads usbip header (previous IRP), calculates usbip
\* payload size, reads usbip payload (this IRP)": a header handed out on
\* its own is followed by that urbr's payload.
HeaderThenPayload ==
  \A i \in 1..(Len(wire) - 1) :
    wire[i].kind = "hdr" => wire[i + 1] = Chunk(wire[i].urbr, "payload")

\* The agent has read a chunk of u's command among the first n chunks.
CommandOut(u, n) == \E j \in 1..n : wire[j].urbr = u

\* The peer aborts a cancelled URB by the seqnum its unlink carries
\* (set_cmd_unlink_usbip_header with urbr->seq_num_unlink, taken by
\* remove_cancelled_urbr after it drops the lock): no part of u's command
\* reaches the agent after u's unlink, and an unlink that follows u's
\* command names that command's seqnum, which is never 0 (the seqnum that
\* means "never numbered").  Both the removal under the lock and the
\* numbering in find_pending_urbr (++vpdo->seq_num) must be right.
UnlinkNamesCommand ==
  \A i \in DOMAIN wire : wire[i].urbr \in Unlinks =>
    LET x == wire[i].urbr
        u == x.unlink
    IN  /\ \A j \in (i + 1)..Len(wire) : wire[j].urbr # u
        /\ CommandOut(u, i - 1) => unlinkSeq[x] = seq[u] /\ unlinkSeq[x] # 0

\* IoMarkIrpPending is called on an IRP before anyone completes it.
MarkPendingBeforeCompletion ==
  [][\A i \in Irps : ~markedPending[i] /\ markedPending'[i] => completions[i] = 0]_vars

\* An IRP its owner cancels is eventually completed, also when the peer
\* never answers: the cancel routine a read (vhci_read.c) or a URB
\* (submit_urbr) installs must see the cancel, or it is lost and the IRP
\* waits for a reply or a URB that may never come.
CancelledIrpCompletes ==
  \A i \in Irps : (cancelFlag[i] /\ completions[i] = 0) ~> completions[i] > 0

\* Every URB IRP the bus submits is eventually completed.
UrbCompletes == \A u \in Urbs : <>(completions[u] > 0)

-----------------------------------------------------------------------------
(* Refinement of RequestQueue.  A URB is accepted once submit_urbr has     *)
(* taken the lock for it.  It is still queued while an encoder holds it    *)
(* for its first store (submit_urbr's handoff or process_read_irp after    *)
(* find_pending_urbr): it then heads the abstract queue.  Once its header  *)
(* alone went out, the urbr left in urbr_sent_partial is the one owed a    *)
(* payload.  head_urbr_sent is the delivered set; a completed IRP is done. *)

\* The urbrs an encoder holds for their first store_urbr.
FirstEncode ==
  {x \in Urbrs : spc[x] \in {"s_store", "s_finish"}}
  \cup {rurbr[r] : r \in {q \in Readers : rpc[q] \in {"r_store", "r_finish"}}}

Abstract == INSTANCE RequestQueue WITH
  Requests <- Urbs,
  accepted <- {u \in Urbs : spc[u] # "s_lock"},
  queue <- (IF partial \in FirstEncode THEN <<partial>> ELSE <<>>) \o pending,
  owed <- IF partial \notin FirstEncode THEN partial ELSE NULL,
  delivered <- sent,
  done <- {u \in Urbs : completions[u] > 0}

\* Without cancellation, the queue implements RequestQueue: submit_urbr's
\* handoff to a parked read, the pending list, find_pending_urbr and the
\* partial slot together deliver URBs in FIFO order, each header followed
\* by its payload, and the response path completes only delivered URBs;
\* under the threads' fairness every URB is delivered and completed.
RefinesRequestQueue == Abstract!FairSpec

=============================================================================
