---------------------------- MODULE PacketGroups ----------------------------
(***************************************************************************)
(* The packet group ids that tell TRex's per-stream counters apart         *)
(* (TRex.get_pg_id): chain id, port bit and latency bit in one number.     *)
(***************************************************************************)
EXTENDS Integers

CONSTANTS
  PortMask,    (* PORT_PG_ID_MASK, 0x80 in the code: a power of two        *)
  LatencyMask  (* LATENCY_PG_ID_MASK, 0x100: the next one                  *)

ASSUME MaskAssumption ==
  PortMask \in Nat \ {0} /\ LatencyMask = 2 * PortMask

(* n | mask, for a mask of one bit *)
WithBit(n, mask) == IF (n \div mask) % 2 = 1 THEN n ELSE n + mask

(* get_pg_id, its two results *)
PgId(port, chain) == IF port = 1 THEN WithBit(chain, PortMask) ELSE chain
LatPgId(port, chain) == WithBit(PgId(port, chain), LatencyMask)
=============================================================================
