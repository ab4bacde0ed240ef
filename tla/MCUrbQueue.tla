----------------------------- MODULE MCUrbQueue -----------------------------
(* Instantiation of UrbQueue for TLC: URB IRPs and readers are model values *)
(* given in the .cfg files.                                                 *)
EXTENDS UrbQueue, TLC

\* store_urbr may succeed, leave the payload for the next read, or fail.
StoreAny == {"full", "partial", "error"}

\* Well-formed URBs and read buffers that always hold a header.
StoreNoError == {"full", "partial"}

\* vpdo->seq_num of a freshly plugged device.
SeqFresh == 0

\* vpdo->seq_num one step before it wraps: 0xFFFFFFFF.
SeqWrap == -1

\* No IRP is ever cancelled.
NoCancel == {}

UrbSymmetry == Permutations(Urbs)
ReaderSymmetry == Permutations(Readers)

\* wire, seqNum and seq record history and are read by no guard: a run
\* whose properties do not mention them may identify states without them.
QueueView == <<pending, sent, all, partial, lenPartial, pendingRead, alloc,
               irps, threads>>

\* What of wire UnlinkNamesCommand reads in this and every later state: which
\* urbrs have a chunk out, the seqnums, and whether it already holds.
UnlinkView == <<QueueView, seqNum, seq, unlinkSeq,
                [x \in Urbrs |-> CommandOut(x, Len(wire))], UnlinkNamesCommand>>
=============================================================================
