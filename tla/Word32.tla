------------------------------- MODULE Word32 -------------------------------
(***************************************************************************)
(* 32-bit counters of the driver.  A LONG, and an unsigned long read as    *)
(* the same 32 bits, is held as its two's-complement value; TLC's integers *)
(* are 32-bit, so this is also the form it can evaluate.                   *)
(***************************************************************************)
EXTENDS Integers

MaxLong == 2147483647
MinLong == -MaxLong - 1
Longs == MinLong..MaxLong

\* ++x and InterlockedIncrement(&x): the new value, wrapping from
\* 0x7FFFFFFF to 0x80000000 and from 0xFFFFFFFF to 0.
Inc32(x) == IF x = MaxLong THEN MinLong ELSE x + 1
=============================================================================
