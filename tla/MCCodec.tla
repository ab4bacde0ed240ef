------------------------------- MODULE MCCodec -------------------------------
(* Instantiation of Codec for TLC.                                          *)
EXTENDS Codec

\* Every slot of urb_functions[] and two codes past its end.
AllFuncs == 0..63

\* All codes but the two chained-MDL transfers, whose continuation is
\* checked on its own (MCCodec_chained.cfg).
FuncsButChainedMdl == AllFuncs \ {BulkChainedMdl, IsoChainedMdl}

\* A buffer too small for a header, one that holds just the header, one
\* that holds the header and part of a payload, and one that holds all.
ReadSizes == {40, 48, 56, 160}

\* No data and a 16-byte buffer.
TransferLens == {0, 16}

\* Offsets in order, out of order and past the buffer.
Offsets == {0, 8, 24}
=============================================================================
