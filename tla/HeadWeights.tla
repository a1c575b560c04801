---------------------------- MODULE HeadWeights ----------------------------
(***************************************************************************)
(* The quantised heads' weights: packed once, chunk by chunk, into the     *)
(* order the kernels read (draft_w4_lmhead.py, fp8_target_lmhead.py), and  *)
(* for a wide batch unpacked again.  A value is named by where it comes    *)
(* from, <<row, k>> or <<row, group>>; rows past n are the padding's.      *)
(***************************************************************************)
EXTENDS Integers, Sequences, FiniteSetsExt

CONSTANTS
  Heads,         \* weights tried: <<rows, K>>
  ChunkTiles,    \* chunk_tiles: 16-row tiles packed at a time
  DequantChunk,  \* rows dequantised at a time
  Fp8Rows        \* rows of a chunk of the fp8 head

GROUP_K == 128    \* K of a (scale, zero) pair
KPB     == 64     \* K of a packed block

ASSUME WeightAssumption ==
  /\ \A h \in Heads : h[1] \in Nat \ {0} /\ h[2] \in Nat \ {0} /\ h[2] % GROUP_K = 0
  /\ ChunkTiles \in Nat \ {0} /\ DequantChunk \in Nat \ {0}
  /\ Fp8Rows \in Nat \ {0} /\ Fp8Rows % 128 = 0

VARIABLES
  head,       \* <<rows, K>>
  wq, wsz,    \* tiles packed: bytes of nibble pairs, and scales
  w8, ws8,    \* fp8: 16-row tiles, and a scale for 128 rows by 128 k
  logits,     \* column -> the row whose weights it was computed from
  upto        \* columns that the call has dealt with

weightVars == <<head, wq, wsz, w8, ws8, logits, upto>>

n == head[1]
K == head[2]
Tiles == (n + 15) \div 16
Padding == -1      \* the row of a zero row

(* q ^ 8 turns offset binary into two's complement, and back. *)
Code(row, k) == [row |-> row, k |-> k, twos |-> 0]
Flip(q) == [q EXCEPT !.twos = 1 - @]

----------------------------------------------------------------------------
(* Packing.  codes[r][k] and sz[r][g] are of the rows of some tiles.       *)

(* The two views and the permutation: byte 4s + j of lane 16h + r holds    *)
(* the nibbles of k = 64kb + 16s + 8*half + 4h + j.                        *)
NibbleSwapped(codes, nt, kb, lane, b, half) ==       \* fault: h and half swapped
  Flip(codes[16 * nt + (lane % 16)]
            [KPB * kb + 16 * (b \div 4) + 8 * (lane \div 16) + 4 * half + (b % 4)])
Nibble(codes, nt, kb, lane, b, half) ==
  Flip(codes[16 * nt + (lane % 16)]
            [KPB * kb + 16 * (b \div 4) + 8 * half + 4 * (lane \div 16) + (b % 4)])

PackCodes(codes, tiles) ==
  [nt \in 1 .. tiles |->
    [kb \in 0 .. K \div KPB - 1 |-> [lane \in 0 .. 31 |-> [b \in 0 .. 15 |->
      [half \in 0 .. 1 |-> Nibble(codes, nt - 1, kb, lane, b, half)]]]]]

PackSz(sz, tiles) ==
  [nt \in 1 .. tiles |->
    [g \in 0 .. K \div GROUP_K - 1 |-> [r \in 0 .. 15 |-> sz[16 * (nt - 1) + r][g]]]]

(* One round of pack_w4a16: rows r0 .. r1-1 of the weight, zero rows after *)
(* its last.                                                               *)
PackChunk ==
  /\ Len(wq) < Tiles
  /\ LET tiles == Min({ChunkTiles, Tiles - Len(wq)})
         Row(r) == IF 16 * Len(wq) + r < n THEN 16 * Len(wq) + r ELSE Padding
         codes == [r \in 0 .. 16 * tiles - 1 |-> [k \in 0 .. K - 1 |-> Code(Row(r), k)]]
         sz == [r \in 0 .. 16 * tiles - 1 |-> [g \in 0 .. K \div GROUP_K - 1 |-> <<Row(r), g>>]]
     IN wq' = wq \o PackCodes(codes, tiles) /\ wsz' = wsz \o PackSz(sz, tiles)
  /\ UNCHANGED <<head, w8, ws8, logits, upto>>

(* One round of pack_fp8_block; the shuffle stays within a tile. *)
PackFp8Chunk ==
  /\ n % 128 = 0 /\ 16 * Len(w8) < n
  /\ LET rows == Min({Fp8Rows, n - 16 * Len(w8)})
     IN /\ w8' = w8 \o [t \in 1 .. rows \div 16 |-> Len(w8) + t - 1]
        /\ ws8' = ws8 \o [b \in 1 .. rows \div 128 |-> Len(ws8) + b - 1]
  /\ UNCHANGED <<head, wq, wsz, logits, upto>>

----------------------------------------------------------------------------
(* Calls.  Values and scales of one row, all of them, make a row of the    *)
(* weight; anything else is none.                                          *)
RowOf(q, sz) ==
  LET r == q[0].row
  IN IF /\ \A k \in 0 .. K - 1 : q[k] = Code(r, k)
        /\ \A g \in 0 .. K \div GROUP_K - 1 : sz[g] = <<r, g>>
     THEN r ELSE Padding

(* The kernel, per LAYOUT: column c of its output, which has n_pad. *)
KernelColumn(c) ==
  LET At(k) == wq[c \div 16 + 1][k \div KPB][(c % 16) + 16 * ((k % 8) \div 4)]
                 [4 * ((k % KPB) \div 16) + (k % 4)][(k % 16) \div 8]
  IN RowOf([k \in 0 .. K - 1 |-> Flip(At(k))],
           [g \in 0 .. K \div GROUP_K - 1 |-> wsz[c \div 16 + 1][g][c % 16]])

(* unpack_w4 of rows a .. b-1: whole tiles, the views and permutation      *)
(* undone, then the slice.                                                 *)
Unpacked(t0, i) ==
  LET nt == t0 + i \div 16 + 1
      At(k) == LET s == (k \div 16) % 4  half == (k \div 8) % 2  h == (k \div 4) % 2  j == k % 4
               IN wq[nt][k \div KPB][16 * h + (i % 16)][4 * s + j][half]
  IN RowOf([k \in 0 .. K - 1 |-> Flip(At(k))],
           [g \in 0 .. K \div GROUP_K - 1 |-> wsz[nt][g][i % 16]])

SliceUnshifted(a, b) ==            \* fault: the slice starts at the tile, not at a
  [i \in 1 .. b - a |-> Unpacked(a \div 16, i - 1)]
Slice(a, b) ==
  LET t0 == a \div 16
      t1 == Min({(b + 15) \div 16, Tiles})
      rows == [i \in 1 .. 16 * (t1 - t0) |-> Unpacked(t0, i - 1)]
  IN SubSeq(rows, a - 16 * t0 + 1, b - 16 * t0)

Narrow ==
  /\ Len(wq) = Tiles /\ upto = 0
  /\ logits' = SubSeq([c \in 1 .. 16 * Tiles |-> KernelColumn(c - 1)], 1, n) /\ upto' = n

(* One round of the wide batch's loop over chunks of rows. *)
Wide ==
  /\ Len(wq) = Tiles /\ upto < n
  /\ logits' = logits \o Slice(upto, Min({upto + DequantChunk, n})) /\ upto' = upto + DequantChunk

(* The fp8 kernel: tile t with the scale of its 128 rows. *)
Fp8 ==
  /\ n % 128 = 0 /\ 16 * Len(w8) = n /\ upto = 0
  /\ LET Row(c) == 16 * w8[c \div 16 + 1] + (c % 16)
     IN logits' = [c \in 1 .. n |->
                     IF ws8[(c - 1) \div 128 + 1] = Row(c - 1) \div 128 THEN Row(c - 1) ELSE Padding]
  /\ upto' = n

WeightInit ==
  /\ head \in Heads
  /\ wq = <<>> /\ wsz = <<>> /\ w8 = <<>> /\ ws8 = <<>> /\ logits = <<>> /\ upto = 0

Compute == (Narrow \/ Wide \/ Fp8) /\ UNCHANGED <<head, wq, wsz, w8, ws8>>

WeightNext == PackChunk \/ PackFp8Chunk \/ Compute

WeightSpec == WeightInit /\ [][WeightNext]_weightVars

----------------------------------------------------------------------------
(* Whatever the path, the number of rows and the chunks, logit c is that   *)
(* of row c, with that row's scales, and the padding's are cut off.        *)
LogitsAreOfTheirRows == upto # 0 /\ upto >= n => logits = [c \in 1 .. n |-> c - 1]
=============================================================================
