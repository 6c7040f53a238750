--------------------------- MODULE AlignedBuffer ----------------------------
(***************************************************************************)
(* The buffers of rlnc-simdx (aligned.rs), down to the allocator: a buffer *)
(* is a pointer with a length and a capacity over memory that the global   *)
(* allocator hands out. from_slice takes two steps, allocate and copy;     *)
(* buffers are Send and Sync, so other threads work on theirs in between.  *)
(* The borrow checker keeps a buffer that is being cloned from being       *)
(* written or dropped.                                                     *)
(***************************************************************************)
EXTENDS Sequences, Naturals, FiniteSets

CONSTANTS
  Slots,      \* the variables that may hold a buffer
  ALIGN,      \* a power of two, 64
  UsizeMax,
  IsizeMax,   \* the most bytes a Layout may have once rounded up
  Memory,     \* the addresses the allocator manages
  Byte,
  Poison,     \* what memory holds that nobody has written
  Lens,       \* the lengths asked for
  Sources,    \* the slices copied from
  None

ASSUME BufferAssumption ==
  /\ ALIGN \in Nat \ {0}
  /\ UsizeMax \in Nat /\ IsizeMax \in 0..UsizeMax
  /\ Memory \subseteq Nat
  /\ 0 \in Byte /\ Poison \notin Byte
  /\ Lens \subseteq 0..UsizeMax
  /\ \A src \in Sources : src \in Seq(Byte) /\ Len(src) \in Lens
  /\ None \notin Slots \union Sources
  /\ Slots \cap Sources = {}
  /\ None \notin [ptr : Nat, len : Nat, cap : Nat]
  /\ None \notin Seq(Byte \union {Poison})

VARIABLES
  heap,    \* the live allocations: [ptr, size]
  mem,     \* the contents of Memory
  buf,     \* per slot: [ptr, len, cap], or None
  from,    \* per slot: the slice, or the slot, that is yet to be copied
  vec,     \* the last Vec a caller was given
  outcome  \* of the last constructor: "done", or how it panicked

vars == <<heap, mem, buf, from, vec, outcome>>

Range(ptr, size) == ptr .. (ptr + size - 1)

Overflow == UsizeMax + 1

(* Mutant: the sum wraps around. *)
PaddedWrapping(len) ==
  LET sum == (len + (ALIGN - 1)) % (UsizeMax + 1) IN sum - (sum % ALIGN)

padded_cap(len) ==
  LET sum == len + (ALIGN - 1)
  IN  IF sum > UsizeMax THEN Overflow ELSE sum - (sum % ALIGN)

(* Layout::from_size_align accepts the size.                                *)
layout(cap) == cap + (ALIGN - 1) <= IsizeMax

(* The global allocator may return any free block, or null.                 *)
Allocates(ptr, size) ==
  /\ ptr % ALIGN = 0
  /\ Range(ptr, size) \subseteq
       Memory \ UNION {Range(block.ptr, block.size) : block \in heap}

Owned(b) == buf[b] # None /\ from[b] = None
Borrowed(b) == \E c \in Slots : from[c] = b
Exclusive(b) == Owned(b) /\ ~Borrowed(b)

as_slice(b) == [i \in 1..buf[b].len |-> mem[buf[b].ptr + i - 1]]

-----------------------------------------------------------------------------
Init ==
  /\ heap = {}
  /\ mem = [a \in Memory |-> Poison]
  /\ buf = [b \in Slots |-> None]
  /\ from = [b \in Slots |-> None]
  /\ vec = None
  /\ outcome = "done"

(* The part new_uninit and zeroed share. The dangling pointer is 1, which   *)
(* is aligned for u8.                                                       *)
NewBlock(b, len) ==
  /\ buf[b] = None
  /\ \/ /\ len = 0
        /\ buf' = [buf EXCEPT ![b] = [ptr |-> 1, len |-> 0, cap |-> 0]]
        /\ UNCHANGED heap
     \/ LET cap == padded_cap(len) IN
        /\ len > 0 /\ cap # Overflow /\ layout(cap)
        /\ \E ptr \in Memory :
             /\ Allocates(ptr, cap)
             /\ buf' = [buf EXCEPT ![b] = [ptr |-> ptr, len |-> len, cap |-> cap]]
             /\ heap' = heap \union {[ptr |-> ptr, size |-> cap]}

new_uninit(b, len) == NewBlock(b, len) /\ UNCHANGED <<mem, vec, outcome>>

zeroed(b, len) ==
  /\ NewBlock(b, len)
  /\ mem' = [a \in Memory |->
               IF a \in Range(buf'[b].ptr, buf'[b].cap) THEN 0 ELSE mem[a]]
  /\ outcome' = "done"
  /\ UNCHANGED <<from, vec>>

(* Every constructor panics before it has a buffer.                         *)
Panics(b, len) ==
  /\ buf[b] = None /\ len > 0
  /\ outcome' = IF padded_cap(len) = Overflow THEN "capacity overflow"
                ELSE IF ~layout(padded_cap(len)) THEN "layout overflow"
                ELSE "allocation failed"
  /\ UNCHANGED <<heap, mem, buf, from, vec>>

(* from_slice, as far as new_uninit. *)
from_slice(b, src) ==
  /\ new_uninit(b, Len(src))
  /\ from' = [from EXCEPT ![b] = src]

clone(b, c) ==
  /\ Owned(c)
  /\ new_uninit(b, buf[c].len)
  /\ from' = [from EXCEPT ![b] = c]

(* Mutant: whole vectors of ALIGN bytes, the rest forgotten. *)
CopyBlocks(b) ==
  LET src == IF from[b] \in Slots THEN as_slice(from[b]) ELSE from[b] IN
  /\ from[b] # None
  /\ mem' = [a \in Memory |->
               IF a \in Range(buf[b].ptr, Len(src) - (Len(src) % ALIGN))
               THEN src[a - buf[b].ptr + 1] ELSE mem[a]]
  /\ from' = [from EXCEPT ![b] = None]
  /\ outcome' = "done"
  /\ UNCHANGED <<heap, buf, vec>>

(* copy_nonoverlapping. *)
Copy(b) ==
  LET src == IF from[b] \in Slots THEN as_slice(from[b]) ELSE from[b] IN
  /\ from[b] # None
  /\ mem' = [a \in Memory |->
               IF a \in Range(buf[b].ptr, Len(src)) THEN src[a - buf[b].ptr + 1]
               ELSE mem[a]]
  /\ from' = [from EXCEPT ![b] = None]
  /\ outcome' = "done"
  /\ UNCHANGED <<heap, buf, vec>>

(* Writing through as_mut_slice or DerefMut.                                *)
Set(b, i, v) ==
  /\ Exclusive(b)
  /\ i \in 1..buf[b].len
  /\ mem' = [mem EXCEPT ![buf[b].ptr + i - 1] = v]
  /\ UNCHANGED <<heap, buf, from, vec, outcome>>

(* Also zero, which fills with 0.                                           *)
fill(b, v) ==
  /\ Exclusive(b)
  /\ mem' = [a \in Memory |-> IF a \in Range(buf[b].ptr, buf[b].len) THEN v ELSE mem[a]]
  /\ UNCHANGED <<heap, buf, from, vec, outcome>>

to_vec(b) ==
  /\ Owned(b)
  /\ vec' = as_slice(b)
  /\ UNCHANGED <<heap, mem, buf, from, outcome>>

(* Mutant: the layout is made from the length. *)
ReleaseLength(b) ==
  /\ Exclusive(b)
  /\ heap' = heap \ {[ptr |-> buf[b].ptr, size |-> buf[b].len]}
  /\ buf' = [buf EXCEPT ![b] = None]
  /\ UNCHANGED <<mem, from, outcome>>

(* drop(&mut self): dealloc frees the block with this pointer and size, if  *)
(* there is one; no block has size 0.                                       *)
Release(b) ==
  /\ Exclusive(b)
  /\ heap' = heap \ {[ptr |-> buf[b].ptr, size |-> buf[b].cap]}
  /\ mem' = [a \in Memory |->
               IF a \in Range(buf[b].ptr, buf[b].cap) THEN Poison ELSE mem[a]]
  /\ buf' = [buf EXCEPT ![b] = None]
  /\ UNCHANGED <<from, outcome>>

drop(b) == Release(b) /\ UNCHANGED vec

into_vec(b) == Release(b) /\ vec' = as_slice(b)

Next ==
  \E b \in Slots :
    \/ \E len \in Lens : zeroed(b, len) \/ Panics(b, len)
    \/ \E src \in Sources : from_slice(b, src)
    \/ \E c \in Slots \ {b} : clone(b, c)
    \/ Copy(b) \/ to_vec(b) \/ into_vec(b) \/ drop(b)
    \/ \E v \in Byte : fill(b, v) \/ \E i \in Lens : Set(b, i, v)

Spec == Init /\ [][Next]_vars

-----------------------------------------------------------------------------
Block == [ptr : Memory, size : 0..UsizeMax]
Buffer == [ptr : Nat, len : 0..UsizeMax, cap : 0..UsizeMax]

BufferTypeOK ==
  /\ heap \subseteq Block
  /\ mem \in [Memory -> Byte \union {Poison}]
  /\ buf \in [Slots -> Buffer \union {None}]
  /\ from \in [Slots -> Slots \union Sources \union {None}]
  /\ outcome \in {"done", "capacity overflow", "layout overflow", "allocation failed"}

(* A buffer's bytes lie inside its capacity, which is a whole number of     *)
(* ALIGN-byte vectors at an aligned address; a length near usize::MAX never *)
(* comes with a wrapped, smaller capacity.                                  *)
BuffersFit ==
  \A b \in Slots : buf[b] # None =>
    /\ buf[b].len <= buf[b].cap
    /\ buf[b].cap % ALIGN = 0
    /\ buf[b].cap > 0 => /\ buf[b].ptr % ALIGN = 0
                         /\ Range(buf[b].ptr, buf[b].cap) \subseteq Memory

(* The buffers with a capacity and the live allocations are in one-to-one   *)
(* correspondence, pointer and size: nothing is leaked, nothing is freed    *)
(* twice, and dealloc is given the layout that alloc was given.             *)
EachOwnsItsBlock ==
  LET Holders == {b \in Slots : buf[b] # None /\ buf[b].cap > 0}
      BlockOf(b) == [ptr |-> buf[b].ptr, size |-> buf[b].cap]
  IN  /\ heap = {BlockOf(b) : b \in Holders}
      /\ \A b, c \in Holders : b # c =>
           Range(buf[b].ptr, buf[b].cap) \cap Range(buf[c].ptr, buf[c].cap) = {}

(* What a slot holds for its user: a buffer counts once it is built.        *)
Value == [b \in Slots |-> IF Owned(b) THEN as_slice(b) ELSE None]
Answer == IF outcome = "done" THEN "done" ELSE "panic"

Promise == INSTANCE ByteBuffers WITH value <- Value, outcome <- Answer

(* Buffers are independent sequences of bytes, as ByteBuffers has them:     *)
(* a clone does not change with its original, padding is never read, and    *)
(* no byte a user or a Vec gets was left uninitialised.                     *)
BuffersAreValues == Promise!Spec
=============================================================================
