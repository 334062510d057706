------------------------- MODULE MCContinuousBatching -------------------------
(* ContinuousBatching with two decode slots.                                   *)
EXTENDS ContinuousBatching

CONSTANTS s1, s2

(* The second prompt ends with its first token and the third with its second;  *)
(* the first one ends at the length, and what the device computes past it      *)
(* looks like an end of sequence too.                                          *)
MCEos == {<<2, 0>>, <<3, 1>>, <<1, 3>>}

Plain(lengths) == [batch |-> FALSE, lengths |-> lengths]
Packed(lengths) == [batch |-> TRUE, lengths |-> lengths]

(* Slots are reused without packing; with it, two prompts share a bucket, a    *)
(* bucket overflows, two buckets are flushed, a prompt of the full length goes *)
(* alone, and a bucket overflows while the others are decoded.                 *)
MCWorkloads ==
  {Plain(<<1, 4>>), Plain(<<2, 1, 3, 1>>), Packed(<<2, 1>>), Packed(<<3, 3>>),
   Packed(<<4, 1>>), Packed(<<3, 2>>), Packed(<<3, 3, 3>>)}

MCReuse == {Plain(<<1, 1, 1>>)}

(* Two prompts that share a bucket hold both slots when the third needs one.   *)
MCPacked == {Packed(<<1, 1, 1>>)}
=============================================================================
