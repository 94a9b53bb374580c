----------------------------- MODULE Allocator ------------------------------
(***************************************************************************)
(* The buffers of the TUN client's relays (client/tun/buffer): pools of    *)
(* slices whose capacities are powers of two.  A slice is its length and   *)
(* its capacity; pool k is the class of the slices of capacity 2^k.        *)
(***************************************************************************)
EXTENDS Naturals

CONSTANT Classes         \* the pools, 17

ASSUME ClassesAssumption == Classes \in Nat \ {0}

MaxSize == 2 ^ (Classes - 1)

Nil == [len |-> 0, cap |-> 0]

\* The position of the most significant bit of a size, bits.Len32(size) - 1.
msb(size) == CHOOSE b \in 0..Classes : 2 ^ b <= size /\ size < 2 ^ (b + 1)

\* What pool k holds: what its New makes and what Put files in it.
Pooled(k) == [len |-> 2 ^ k, cap |-> 2 ^ k]

\* Faulty variant: sizes between two powers of two get the smaller class.
GetRoundsDown(size) ==
    IF size = 0 \/ size > MaxSize THEN Nil
    ELSE [Pooled(msb(size)) EXCEPT !.len = size]

Get(size) ==
    IF size = 0 \/ size > MaxSize THEN Nil
    ELSE LET b == msb(size)
             k == IF size = 2 ^ b THEN b ELSE b + 1
         IN  [Pooled(k) EXCEPT !.len = size]

\* The class Put files a slice in.
PutAccepts(buf) ==
    /\ buf.cap # 0 /\ buf.cap <= MaxSize
    /\ buf.cap = 2 ^ msb(buf.cap)
PutClass(buf) == msb(buf.cap)
=============================================================================
