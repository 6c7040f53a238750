---------------------------- MODULE BufferProofs ----------------------------
(***************************************************************************)
(* Buffers are independent sequences of bytes for every alignment, width   *)
(* of usize, allocator and number of buffers: the arithmetic of            *)
(* capacities, the invariant of the heap, and the refinement of            *)
(* ByteBuffers.                                                            *)
(***************************************************************************)
EXTENDS AlignedBuffer, TLAPS

(***************************************************************************)
(* Rounding up: the capacity holds the length and is a multiple of ALIGN,  *)
(* unless the sum leaves usize.                                            *)
(***************************************************************************)
LEMMA RoundedDown ==
  ASSUME NEW v \in Nat \ {0}, NEW n \in Nat
  PROVE  /\ n - (n % v) \in 0..n
         /\ n < (n - (n % v)) + v
         /\ (n - (n % v)) % v = 0
<1>1. n % v \in 0..(v - 1)
  OBVIOUS
<1>2. PICK q \in Nat : q = n \div v
  OBVIOUS
<1>3. n = v * q + (n % v)
  BY <1>2
<1>4. (v * q) % v = 0 /\ v * q \in Nat
  OBVIOUS
<1>5. PICK m \in Nat : m = v * q
  BY <1>4
<1>6. PICK r \in 0..(v - 1) : r = n % v
  BY <1>1
<1>7. n = m + r
  BY <1>3, <1>5, <1>6
<1>8. n - r = m
  BY <1>7
<1>9. QED
  BY <1>4, <1>5, <1>6, <1>7, <1>8

LEMMA PaddedCap ==
  ASSUME NEW len \in 0..UsizeMax, padded_cap(len) # Overflow
  PROVE  padded_cap(len) \in len..UsizeMax /\ padded_cap(len) % ALIGN = 0
<1>1. len + (ALIGN - 1) \in Nat /\ ALIGN \in Nat \ {0} /\ UsizeMax \in Nat
  BY BufferAssumption
<1>2. len + (ALIGN - 1) <= UsizeMax
  BY <1>1 DEF padded_cap
<1>3. padded_cap(len) = (len + (ALIGN - 1)) - ((len + (ALIGN - 1)) % ALIGN)
  BY <1>2, <1>1 DEF padded_cap
<1> DEFINE n == len + (ALIGN - 1)
<1>4. /\ n - (n % ALIGN) \in 0..n
      /\ n < (n - (n % ALIGN)) + ALIGN
      /\ (n - (n % ALIGN)) % ALIGN = 0
  <2> HIDE DEF n
  <2>1. n \in Nat
    BY <1>1 DEF n
  <2>2. QED
    BY <2>1, <1>1, RoundedDown
<1>5. QED
  BY <1>1, <1>2, <1>3, <1>4

-----------------------------------------------------------------------------
(***************************************************************************)
(* The invariant. A slot whose bytes are yet to be copied has its block    *)
(* already, of the length of what it copies; a buffer being cloned is      *)
(* complete itself.                                                        *)
(***************************************************************************)
TypesInv ==
  /\ mem \in [Memory -> Byte \union {Poison}]
  /\ buf \in [Slots -> Buffer \union {None}]
  /\ from \in [Slots -> Slots \union Sources \union {None}]

Holder(b) == buf[b] # None /\ buf[b].cap > 0
Holding(b) == [ptr |-> buf[b].ptr, size |-> buf[b].cap]

HeapInv == heap = {Holding(b) : b \in {c \in Slots : Holder(c)}}

DisjointInv ==
  \A b, c \in Slots : b # c /\ Holder(b) /\ Holder(c) =>
    Range(buf[b].ptr, buf[b].cap) \cap Range(buf[c].ptr, buf[c].cap) = {}

Pending(b) ==
  /\ buf[b] # None
  /\ from[b] \in Sources => buf[b].len = Len(from[b])
  /\ from[b] \in Slots =>
       from[b] # b /\ Owned(from[b]) /\ buf[from[b]].len = buf[b].len

PendingInv == \A b \in Slots : from[b] # None => Pending(b)

BufferInv == TypesInv /\ BuffersFit /\ HeapInv /\ DisjointInv /\ PendingInv

(***************************************************************************)
(* Slots other than b keep their buffers, and memory changes at most where *)
(* no other buffer is: then the value of b is the only one to change.      *)
(***************************************************************************)
Elsewhere(b) ==
  /\ \A c \in Slots \ {b} : buf'[c] = buf[c] /\ from'[c] = from[c]
  /\ \A c \in Slots \ {b} : Holder(c) =>
       \A a \in Range(buf[c].ptr, buf[c].cap) : mem'[a] = mem[a]

LEMMA InRange ==
  ASSUME NEW ptr \in Nat, NEW size \in Nat, NEW i \in 1..size
  PROVE  ptr + i - 1 \in Range(ptr, size)
BY DEF Range

LEMMA ReadsHolding ==
  ASSUME TypesInv, BuffersFit, NEW b \in Slots, buf[b] # None,
         NEW i \in 1..buf[b].len
  PROVE  /\ Holder(b)
         /\ buf[b].ptr + i - 1 \in Range(buf[b].ptr, buf[b].cap)
         /\ buf[b].ptr + i - 1 \in Memory
<1>1. buf[b] \in Buffer
  BY DEF TypesInv
<1>2. buf[b].ptr \in Nat /\ buf[b].len \in Nat /\ buf[b].cap \in Nat
  BY <1>1, BufferAssumption DEF Buffer
<1>3. buf[b].len <= buf[b].cap
  BY DEF BuffersFit
<1>4. i \in 1..buf[b].cap /\ buf[b].cap > 0
  BY <1>2, <1>3
<1>5. buf[b].ptr + i - 1 \in Range(buf[b].ptr, buf[b].cap)
  BY <1>2, <1>4, InRange
<1>6. QED
  BY <1>4, <1>5 DEF Holder, BuffersFit

LEMMA ValueElsewhere ==
  ASSUME TypesInv, BuffersFit, NEW b \in Slots, Elsewhere(b)
  PROVE  \A c \in Slots \ {b} : Value'[c] = Value[c]
<1> SUFFICES ASSUME NEW c \in Slots \ {b}
             PROVE  Value'[c] = Value[c]
  OBVIOUS
<1>1. buf'[c] = buf[c] /\ from'[c] = from[c]
  BY DEF Elsewhere
<1>2. Owned(c)' = Owned(c)
  BY <1>1 DEF Owned
<1>3. Value'[c] = (IF Owned(c) THEN as_slice(c)' ELSE None)
  BY <1>2 DEF Value
<1>4. Value[c] = (IF Owned(c) THEN as_slice(c) ELSE None)
  BY DEF Value
<1>5. ASSUME Owned(c)
      PROVE  as_slice(c)' = as_slice(c)
  <2>1. ASSUME NEW i \in 1..buf[c].len
        PROVE  mem'[buf[c].ptr + i - 1] = mem[buf[c].ptr + i - 1]
    BY <1>5, <2>1, ReadsHolding DEF Owned, Elsewhere
  <2>2. as_slice(c)' = [i \in 1..buf[c].len |-> mem'[buf[c].ptr + i - 1]]
    BY <1>1 DEF as_slice
  <2>3. QED
    BY <2>1, <2>2 DEF as_slice
<1>6. QED
  BY <1>3, <1>4, <1>5

LEMMA ValueFunction ==
  /\ Value = [c \in Slots |-> Value[c]]
  /\ Value' = [c \in Slots |-> Value'[c]]
BY DEF Value

LEMMA ValueUpdate ==
  ASSUME TypesInv, BuffersFit, NEW b \in Slots, Elsewhere(b)
  PROVE  Value' = [Value EXCEPT ![b] = Value'[b]]
BY ValueElsewhere, ValueFunction

LEMMA ValueSame ==
  ASSUME TypesInv, BuffersFit, NEW b \in Slots, Elsewhere(b), Value'[b] = Value[b]
  PROVE  Value' = Value
BY ValueElsewhere, ValueFunction

(***************************************************************************)
(* A buffer in use is a sequence of bytes; an empty slot has no value.     *)
(***************************************************************************)
LEMMA SliceType ==
  ASSUME TypesInv, BuffersFit, NEW b \in Slots, buf[b] # None
  PROVE  /\ buf[b].len \in Nat
         /\ as_slice(b) \in Seq(Byte \union {Poison})
         /\ Len(as_slice(b)) = buf[b].len
         /\ as_slice(b) # None
<1>1. buf[b].len \in Nat
  BY BufferAssumption DEF TypesInv, Buffer
<1>2. \A i \in 1..buf[b].len : mem[buf[b].ptr + i - 1] \in Byte \union {Poison}
  BY ReadsHolding DEF TypesInv
<1>3. as_slice(b) \in Seq(Byte \union {Poison}) /\ Len(as_slice(b)) = buf[b].len
  BY <1>1, <1>2 DEF as_slice
<1>4. QED
  BY <1>1, <1>3, BufferAssumption

LEMMA ValueOf ==
  ASSUME TypesInv, BuffersFit, NEW b \in Slots
  PROVE  /\ Owned(b) => Value[b] = as_slice(b) /\ Value[b] # None
         /\ ~Owned(b) => Value[b] = None
BY SliceType DEF Value, Owned

-----------------------------------------------------------------------------
(***************************************************************************)
(* What the constructors share: the new buffer fits its block, and the     *)
(* block is apart from all others.                                         *)
(***************************************************************************)
Fresh(b, len, new) ==
  /\ new.len = len /\ new.len <= new.cap /\ new.cap % ALIGN = 0
  /\ new.cap > 0 =>
       /\ new.ptr % ALIGN = 0 /\ Range(new.ptr, new.cap) \subseteq Memory
       /\ \A c \in Slots : Holder(c) =>
            Range(new.ptr, new.cap) \cap Range(buf[c].ptr, buf[c].cap) = {}
  /\ buf' = [buf EXCEPT ![b] = new]
  /\ heap' = IF new.cap > 0 THEN heap \union {[ptr |-> new.ptr, size |-> new.cap]}
             ELSE heap

LEMMA NewBlockIsFresh ==
  ASSUME BufferInv, NEW b \in Slots, NEW len \in 0..UsizeMax, NewBlock(b, len)
  PROVE  \E new \in Buffer : Fresh(b, len, new)
<1>1. CASE len = 0 /\ buf' = [buf EXCEPT ![b] = [ptr |-> 1, len |-> 0, cap |-> 0]]
           /\ heap' = heap
  <2> DEFINE new == [ptr |-> 1, len |-> 0, cap |-> 0]
  <2>1. new \in Buffer
    BY BufferAssumption DEF Buffer
  <2>2. 0 % ALIGN = 0
    BY BufferAssumption
  <2>3. Fresh(b, len, new)
    BY <1>1, <2>2 DEF Fresh
  <2>4. QED
    BY <2>1, <2>3
<1>2. ASSUME len > 0, padded_cap(len) # Overflow,
             NEW ptr \in Memory, Allocates(ptr, padded_cap(len)),
             buf' = [buf EXCEPT ![b] = [ptr |-> ptr, len |-> len, cap |-> padded_cap(len)]],
             heap' = heap \union {[ptr |-> ptr, size |-> padded_cap(len)]}
      PROVE  \E new \in Buffer : Fresh(b, len, new)
  <2>1. PICK cap \in len..UsizeMax : cap = padded_cap(len) /\ cap % ALIGN = 0
    BY <1>2, PaddedCap
  <2> DEFINE new == [ptr |-> ptr, len |-> len, cap |-> cap]
  <2>2. new \in Buffer /\ UsizeMax \in Nat /\ cap > 0
    BY <1>2, <2>1, BufferAssumption DEF Buffer
  <2>3. ptr % ALIGN = 0 /\ Range(ptr, cap) \subseteq Memory
    BY <1>2, <2>1 DEF Allocates
  <2>4. ASSUME NEW c \in Slots, Holder(c)
        PROVE  Range(ptr, cap) \cap Range(buf[c].ptr, buf[c].cap) = {}
    <3>1. Holding(c) \in heap
      BY <2>4 DEF BufferInv, HeapInv
    <3>2. Holding(c).ptr = buf[c].ptr /\ Holding(c).size = buf[c].cap
      BY DEF Holding
    <3>3. QED
      BY <1>2, <2>1, <3>1, <3>2 DEF Allocates
  <2>5. Fresh(b, len, new)
    BY <1>2, <2>1, <2>2, <2>3, <2>4 DEF Fresh
  <2>6. QED
    BY <2>2, <2>5
<1>3. QED
  BY <1>1, <1>2 DEF NewBlock

LEMMA FreshHeap ==
  ASSUME BufferInv, NEW b \in Slots, NEW len \in 0..UsizeMax,
         NEW new \in Buffer, Fresh(b, len, new), buf[b] = None
  PROVE  BuffersFit' /\ HeapInv' /\ DisjointInv'
<1>1. buf'[b] = new /\ new # None /\ \A c \in Slots \ {b} : buf'[c] = buf[c]
  BY BufferAssumption DEF BufferInv, TypesInv, Fresh, Buffer
<1>2. \A c \in Slots \ {b} : Holder(c)' = Holder(c) /\ Holding(c)' = Holding(c)
  BY <1>1 DEF Holder, Holding
<1>3. Holder(b)' = (new.cap > 0) /\ ~Holder(b)
      /\ Holding(b)' = [ptr |-> new.ptr, size |-> new.cap]
  BY <1>1 DEF Holder, Holding
<1>4. BuffersFit'
  <2> SUFFICES ASSUME NEW c \in Slots, buf'[c] # None
               PROVE  /\ buf'[c].len <= buf'[c].cap
                      /\ buf'[c].cap % ALIGN = 0
                      /\ buf'[c].cap > 0 =>
                           /\ buf'[c].ptr % ALIGN = 0
                           /\ Range(buf'[c].ptr, buf'[c].cap) \subseteq Memory
    BY DEF BuffersFit
  <2>1. CASE c = b
    BY <1>1, <2>1 DEF Fresh
  <2>2. CASE c # b
    BY <1>1, <2>2 DEF BufferInv, BuffersFit
  <2>3. QED
    BY <2>1, <2>2
<1>5. HeapInv'
  <2>1. {Holding(c) : c \in {d \in Slots : Holder(d)}}'
          = {Holding(c) : c \in {d \in Slots : Holder(d)}}
            \union (IF new.cap > 0 THEN {[ptr |-> new.ptr, size |-> new.cap]} ELSE {})
    BY <1>2, <1>3
  <2>2. QED
    BY <2>1 DEF Fresh, HeapInv, BufferInv
<1>6. DisjointInv'
  <2> SUFFICES ASSUME NEW c \in Slots, NEW d \in Slots, c # d, Holder(c)', Holder(d)'
               PROVE  Range(buf'[c].ptr, buf'[c].cap) \cap Range(buf'[d].ptr, buf'[d].cap) = {}
    BY DEF DisjointInv
  <2>1. CASE c = b
    BY <1>1, <1>2, <1>3, <2>1 DEF Fresh
  <2>2. CASE d = b
    BY <1>1, <1>2, <1>3, <2>2 DEF Fresh
  <2>3. CASE c # b /\ d # b
    BY <1>1, <1>2, <2>3 DEF BufferInv, DisjointInv
  <2>4. QED
    BY <2>1, <2>2, <2>3
<1>7. QED
  BY <1>4, <1>5, <1>6

(***************************************************************************)
(* A constructor that leaves the copying for later records what to copy;   *)
(* zeroed records nothing.                                                 *)
(***************************************************************************)
Constructs(b, len, new, src) ==
  /\ buf[b] = None /\ Fresh(b, len, new)
  /\ from' = [from EXCEPT ![b] = src]
  /\ src \in Sources => Len(src) = len
  /\ src \in Slots => src # b /\ Owned(src) /\ buf[src].len = len
  /\ mem' \in [Memory -> Byte \union {Poison}]
  /\ \A a \in Memory \ Range(new.ptr, new.cap) : mem'[a] = mem[a]

LEMMA ConstructorInv ==
  ASSUME BufferInv, NEW b \in Slots, NEW len \in 0..UsizeMax, NEW new \in Buffer,
         NEW src \in Slots \union Sources \union {None}, Constructs(b, len, new, src)
  PROVE  /\ BufferInv'
         /\ buf'[b] = new /\ from'[b] = src
         /\ Elsewhere(b)
<1> USE DEF Constructs
<1>1. buf'[b] = new /\ new # None /\ \A c \in Slots \ {b} : buf'[c] = buf[c]
  BY BufferAssumption DEF BufferInv, TypesInv, Fresh, Buffer
<1>2. from'[b] = src /\ \A c \in Slots \ {b} : from'[c] = from[c]
  BY DEF BufferInv, TypesInv
<1>3. TypesInv'
  BY DEF BufferInv, TypesInv, Fresh
<1>4. \A c \in Slots : Owned(c) => c # b /\ Owned(c)'
  BY <1>1, <1>2 DEF Owned
<1>5. PendingInv'
  <2> SUFFICES ASSUME NEW c \in Slots, from'[c] # None
               PROVE  Pending(c)'
    BY DEF PendingInv
  <2>1. CASE c = b
    BY <1>1, <1>2, <1>4, <2>1 DEF Pending, Fresh, BufferInv
  <2>2. CASE c # b
    <3>1. Pending(c) /\ buf'[c] = buf[c] /\ from'[c] = from[c]
      BY <1>1, <1>2, <2>2 DEF BufferInv, PendingInv
    <3>2. QED
      BY <1>1, <1>4, <3>1 DEF Pending
  <2>3. QED
    BY <2>1, <2>2
<1>6. Elsewhere(b)
  <2>1. ASSUME NEW c \in Slots \ {b}, Holder(c),
               NEW a \in Range(buf[c].ptr, buf[c].cap)
        PROVE  mem'[a] = mem[a]
    <3>1. a \in Memory
      BY <2>1 DEF BufferInv, BuffersFit, Holder
    <3>2. CASE new.cap > 0
      BY <2>1, <3>1, <3>2 DEF Fresh
    <3>3. CASE ~(new.cap > 0)
      <4>1. Range(new.ptr, new.cap) = {}
        BY <3>3, BufferAssumption DEF Range, Buffer
      <4>2. QED
        BY <3>1, <4>1
    <3>4. QED
      BY <3>2, <3>3
  <2>2. QED
    BY <1>1, <1>2, <2>1 DEF Elsewhere
<1>7. QED
  BY <1>1, <1>2, <1>3, <1>5, <1>6, FreshHeap DEF BufferInv

-----------------------------------------------------------------------------
(***************************************************************************)
(* What the operations on a buffer share: they write inside its block.     *)
(***************************************************************************)
LEMMA WriteInv ==
  ASSUME BufferInv, NEW b \in Slots, buf[b] # None, UNCHANGED <<heap, buf>>,
         from' = from \/ from' = [from EXCEPT ![b] = None],
         mem' \in [Memory -> Byte \union {Poison}],
         \A a \in Memory \ Range(buf[b].ptr, buf[b].cap) : mem'[a] = mem[a]
  PROVE  BufferInv' /\ Elsewhere(b)
<1>1. \A c \in Slots \ {b} : from'[c] = from[c]
  BY DEF BufferInv, TypesInv
<1>2. from'[b] \in {from[b], None}
  BY DEF BufferInv, TypesInv
<1>3. TypesInv'
  BY DEF BufferInv, TypesInv
<1>4. BuffersFit' /\ HeapInv' /\ DisjointInv'
  BY DEF BufferInv, BuffersFit, HeapInv, DisjointInv, Holder, Holding
<1>5. \A c \in Slots : Owned(c) => Owned(c)'
  BY <1>1, <1>2 DEF Owned
<1>6. PendingInv'
  BY <1>1, <1>2, <1>5 DEF BufferInv, PendingInv, Pending
<1>7. ASSUME NEW c \in Slots \ {b}, Holder(c), NEW a \in Range(buf[c].ptr, buf[c].cap)
      PROVE  mem'[a] = mem[a]
  <2>1. a \in Memory
    BY <1>7 DEF BufferInv, BuffersFit, Holder
  <2>2. CASE Holder(b)
    BY <1>7, <2>1, <2>2 DEF BufferInv, DisjointInv
  <2>3. CASE ~Holder(b)
    <3>1. buf[b].cap = 0 /\ buf[b].ptr \in Nat
      BY <2>3, BufferAssumption DEF Holder, BufferInv, TypesInv, Buffer
    <3>2. Range(buf[b].ptr, buf[b].cap) = {}
      BY <3>1 DEF Range
    <3>3. QED
      BY <2>1, <3>2
  <2>4. QED
    BY <2>2, <2>3
<1>8. QED
  BY <1>1, <1>3, <1>4, <1>6, <1>7 DEF BufferInv, Elsewhere

LEMMA Lengths ==
  ASSUME BufferInv, NEW b \in Slots, buf[b] # None
  PROVE  /\ buf[b].ptr \in Nat /\ buf[b].len \in 0..UsizeMax /\ UsizeMax \in Nat
         /\ buf[b].cap \in Nat /\ buf[b].len <= buf[b].cap
         /\ Range(buf[b].ptr, buf[b].len) \subseteq Range(buf[b].ptr, buf[b].cap)
<1>1. buf[b] \in Buffer
  BY DEF BufferInv, TypesInv
<1>2. /\ buf[b].ptr \in Nat /\ buf[b].len \in 0..UsizeMax /\ UsizeMax \in Nat
      /\ buf[b].cap \in Nat /\ buf[b].len <= buf[b].cap
  BY <1>1, BufferAssumption DEF BufferInv, BuffersFit, Buffer
<1>3. QED
  BY <1>2 DEF Range

-----------------------------------------------------------------------------
LEMMA FillStep ==
  ASSUME BufferInv, NEW b \in Slots, NEW v \in Byte, fill(b, v)
  PROVE  BufferInv' /\ Promise!Fill(b, v)
<1>1. Owned(b) /\ buf[b] # None
  BY DEF fill, Exclusive, Owned
<1>2. mem' \in [Memory -> Byte \union {Poison}]
  BY DEF fill, BufferInv, TypesInv
<1>3. \A a \in Memory \ Range(buf[b].ptr, buf[b].cap) : mem'[a] = mem[a]
  BY <1>1, Lengths DEF fill
<1>4. BufferInv' /\ Elsewhere(b)
  BY <1>1, <1>2, <1>3, WriteInv DEF fill
<1>5. Owned(b)' /\ buf' = buf
  BY <1>1 DEF fill, Owned
<1>6. as_slice(b)' = [i \in 1..buf[b].len |-> v]
  <2>1. ASSUME NEW i \in 1..buf[b].len
        PROVE  mem'[buf[b].ptr + i - 1] = v
    <3>1. buf[b].ptr + i - 1 \in Memory
      BY <1>1, ReadsHolding DEF BufferInv
    <3>2. buf[b].ptr + i - 1 \in Range(buf[b].ptr, buf[b].len)
      BY <1>1, Lengths, InRange
    <3>3. QED
      BY <3>1, <3>2 DEF fill
  <2>2. QED
    BY <1>5, <2>1 DEF as_slice
<1>7. Value'[b] = as_slice(b)'
  BY <1>5 DEF Value
<1>8. Value[b] = as_slice(b) /\ Value[b] # None /\ Len(as_slice(b)) = buf[b].len
  BY <1>1, ValueOf, SliceType DEF BufferInv
<1>9. Value' = [Value EXCEPT ![b] = [i \in 1..Len(Value[b]) |-> v]]
  BY <1>4, <1>6, <1>7, <1>8, ValueUpdate DEF BufferInv
<1>10. Answer' = Answer /\ vec' = vec
  BY DEF fill, Answer
<1>11. QED
  BY <1>4, <1>8, <1>9, <1>10 DEF Promise!Fill

LEMMA SetStep ==
  ASSUME BufferInv, NEW b \in Slots, NEW i, NEW v \in Byte, Set(b, i, v)
  PROVE  BufferInv' /\ Promise!Set(b, v)
<1>1. Owned(b) /\ buf[b] # None /\ i \in 1..buf[b].len
  BY DEF Set, Exclusive, Owned
<1>2. mem' \in [Memory -> Byte \union {Poison}]
  BY DEF Set, BufferInv, TypesInv
<1>3. PICK at : at = buf[b].ptr + i - 1
  OBVIOUS
<1>4. at \in Memory /\ at \in Range(buf[b].ptr, buf[b].cap)
  BY <1>1, <1>3, ReadsHolding DEF BufferInv
<1>5. mem' = [mem EXCEPT ![at] = v]
  BY <1>3 DEF Set
<1>6. \A a \in Memory \ Range(buf[b].ptr, buf[b].cap) : mem'[a] = mem[a]
  BY <1>4, <1>5 DEF BufferInv, TypesInv
<1>7. BufferInv' /\ Elsewhere(b)
  BY <1>1, <1>2, <1>6, WriteInv DEF Set
<1>8. Owned(b)' /\ buf' = buf
  BY <1>1 DEF Set, Owned
<1>9. as_slice(b)' = [as_slice(b) EXCEPT ![i] = v]
  <2>1. ASSUME NEW j \in 1..buf[b].len
        PROVE  mem'[buf[b].ptr + j - 1] = IF j = i THEN v ELSE mem[buf[b].ptr + j - 1]
    <3>1. buf[b].ptr + j - 1 \in Memory
      BY <1>1, ReadsHolding DEF BufferInv
    <3>2. buf[b].ptr + j - 1 = at <=> j = i
      BY <1>1, <1>3, Lengths
    <3>3. QED
      BY <1>5, <3>1, <3>2 DEF BufferInv, TypesInv
  <2>2. QED
    BY <1>8, <2>1 DEF as_slice
<1>10. Value'[b] = as_slice(b)'
  BY <1>8 DEF Value
<1>11. Value[b] = as_slice(b) /\ Value[b] # None /\ Len(as_slice(b)) = buf[b].len
  BY <1>1, ValueOf, SliceType DEF BufferInv
<1>12. Value' = [Value EXCEPT ![b][i] = v]
  <2>1. Value' = [Value EXCEPT ![b] = Value'[b]]
    BY <1>7, ValueUpdate DEF BufferInv
  <2>2. Value'[b] = [Value[b] EXCEPT ![i] = v]
    BY <1>9, <1>10, <1>11
  <2>3. QED
    BY <2>1, <2>2, ValueFunction
<1>13. Answer' = Answer /\ vec' = vec
  BY DEF Set, Answer
<1>14. QED
  BY <1>1, <1>7, <1>11, <1>12, <1>13 DEF Promise!Set

(***************************************************************************)
(* The second half of from_slice and of clone: only here does the buffer   *)
(* become a value, that of the slice or of the original.                   *)
(***************************************************************************)
LEMMA CopyStep ==
  ASSUME BufferInv, NEW b \in Slots, Copy(b)
  PROVE  BufferInv' /\ Promise!New(b)
<1>1. PICK src : src = IF from[b] \in Slots THEN as_slice(from[b]) ELSE from[b]
  OBVIOUS
<1>2. from[b] # None /\ buf[b] # None /\ Pending(b)
  BY DEF Copy, BufferInv, PendingInv, Pending
<1>3. from[b] \in Slots \/ from[b] \in Sources
  BY <1>2 DEF BufferInv, TypesInv
<1>4. /\ src \in Seq(Byte \union {Poison}) /\ Len(src) = buf[b].len
      /\ src \in Sources \/ \E c \in Slots \ {b} : Value[c] # None /\ src = Value[c]
  <2>1. CASE from[b] \in Slots
    <3>1. PICK c \in Slots : c = from[b]
      BY <2>1
    <3>2. c # b /\ Owned(c) /\ buf[c] # None /\ buf[c].len = buf[b].len /\ src = as_slice(c)
      BY <1>1, <1>2, <2>1, <3>1 DEF Pending, Owned
    <3>3. Value[c] = src /\ Value[c] # None
      BY <3>2, ValueOf DEF BufferInv
    <3>4. src \in Seq(Byte \union {Poison}) /\ Len(src) = buf[b].len
      BY <3>2, SliceType DEF BufferInv
    <3>5. QED
      BY <3>2, <3>3, <3>4
  <2>2. CASE from[b] \in Sources
    <3>1. from[b] \notin Slots /\ from[b] \in Seq(Byte)
      BY <2>2, BufferAssumption
    <3>2. src = from[b] /\ Len(src) = buf[b].len
      BY <1>1, <1>2, <2>2, <3>1 DEF Pending
    <3>3. src \in Seq(Byte \union {Poison})
      BY <3>1, <3>2
    <3>4. QED
      BY <2>2, <3>2, <3>3
  <2>3. QED
    BY <1>3, <2>1, <2>2
<1>5. mem' = [a \in Memory |-> IF a \in Range(buf[b].ptr, Len(src))
                               THEN src[a - buf[b].ptr + 1] ELSE mem[a]]
  BY <1>1 DEF Copy
<1>6. mem' \in [Memory -> Byte \union {Poison}]
  <2>1. ASSUME NEW a \in Range(buf[b].ptr, Len(src))
        PROVE  src[a - buf[b].ptr + 1] \in Byte \union {Poison}
    <3>1. a - buf[b].ptr + 1 \in 1..Len(src)
      BY <1>2, <1>4, Lengths DEF Range
    <3>2. QED
      BY <1>4, <3>1
  <2>2. QED
    BY <1>5, <2>1 DEF BufferInv, TypesInv
<1>7. \A a \in Memory \ Range(buf[b].ptr, buf[b].cap) : mem'[a] = mem[a]
  BY <1>2, <1>4, <1>5, Lengths
<1>8. BufferInv' /\ Elsewhere(b)
  BY <1>2, <1>6, <1>7, WriteInv DEF Copy
<1>9. buf' = buf /\ from'[b] = None /\ Owned(b)'
  BY <1>2 DEF Copy, Owned, BufferInv, TypesInv
<1>10. as_slice(b)' = src
  <2>1. ASSUME NEW i \in 1..buf[b].len
        PROVE  mem'[buf[b].ptr + i - 1] = src[i]
    <3>1. buf[b].ptr + i - 1 \in Memory
      BY <1>2, ReadsHolding DEF BufferInv
    <3>2. buf[b].ptr \in Nat /\ buf[b].len \in Nat
      BY <1>2, Lengths
    <3>3. buf[b].ptr + i - 1 \in Range(buf[b].ptr, buf[b].len)
      BY <3>2, InRange
    <3>4. (buf[b].ptr + i - 1) - buf[b].ptr + 1 = i
      BY <3>2
    <3>5. QED
      BY <1>4, <1>5, <3>1, <3>3, <3>4
  <2>2. as_slice(b)' = [i \in 1..buf[b].len |-> src[i]]
    BY <1>9, <2>1 DEF as_slice
  <2>3. QED
    BY <1>4, <2>2
<1>11. Value'[b] = src
  BY <1>9, <1>10 DEF Value
<1>12. Value[b] = None
  BY <1>2, ValueOf DEF BufferInv, Owned
<1>13. Value' = [Value EXCEPT ![b] = src]
  BY <1>8, <1>11, ValueUpdate DEF BufferInv
<1>14. Answer' = "done" /\ vec' = vec
  BY DEF Copy, Answer
<1>15. Promise!Create(b, src)
  BY <1>12, <1>13, <1>14 DEF Promise!Create
<1>16. QED
  BY <1>4, <1>8, <1>15 DEF Promise!New

-----------------------------------------------------------------------------
LEMMA ZeroedStep ==
  ASSUME BufferInv, NEW b \in Slots, NEW len \in 0..UsizeMax, len \in Lens,
         zeroed(b, len)
  PROVE  BufferInv' /\ Promise!New(b)
<1>1. buf[b] = None /\ NewBlock(b, len)
  BY DEF zeroed, NewBlock
<1>2. PICK new \in Buffer : Fresh(b, len, new)
  BY <1>1, NewBlockIsFresh
<1>3. from[b] = None /\ from' = [from EXCEPT ![b] = None]
  BY <1>1 DEF zeroed, BufferInv, PendingInv, Pending, TypesInv
<1>4. buf'[b] = new
  BY <1>2 DEF Fresh, BufferInv, TypesInv
<1>5. mem' = [a \in Memory |-> IF a \in Range(new.ptr, new.cap) THEN 0 ELSE mem[a]]
  BY <1>4 DEF zeroed
<1>6. mem' \in [Memory -> Byte \union {Poison}]
      /\ \A a \in Memory \ Range(new.ptr, new.cap) : mem'[a] = mem[a]
  BY <1>5, BufferAssumption DEF BufferInv, TypesInv
<1>7. PICK src \in Slots \union Sources \union {None} :
        src = None /\ src \notin Sources /\ src \notin Slots
  BY BufferAssumption
<1>8. BufferInv' /\ from'[b] = None /\ Elsewhere(b)
  <2>1. from' = [from EXCEPT ![b] = src]
    BY <1>3, <1>7
  <2>2. /\ src \in Sources => Len(src) = len
        /\ src \in Slots => src # b /\ Owned(src) /\ buf[src].len = len
    BY <1>7
  <2>3. BufferInv' /\ from'[b] = src /\ Elsewhere(b)
    <3>1. Constructs(b, len, new, src)
      BY <1>1, <1>2, <1>6, <2>1, <2>2 DEF Constructs
    <3>2. QED
      BY <3>1, ConstructorInv
  <2>4. QED
    BY <1>7, <2>3
<1>9. buf'[b] # None /\ Owned(b)' /\ ~Owned(b)
  BY <1>1, <1>4, <1>8, BufferAssumption DEF Owned, Buffer
<1>10. as_slice(b)' = [i \in 1..len |-> 0]
  <2>1. /\ new.len = len /\ new.len <= new.cap /\ new.ptr \in Nat /\ new.cap \in Nat
        /\ new.len \in Nat
        /\ new.cap > 0 => Range(new.ptr, new.cap) \subseteq Memory
    BY <1>2, BufferAssumption DEF Fresh, Buffer
  <2>2. ASSUME NEW i \in 1..len
        PROVE  mem'[new.ptr + i - 1] = 0
    <3>1. i \in 1..new.cap /\ new.cap > 0
      BY <2>1
    <3>2. new.ptr + i - 1 \in Range(new.ptr, new.cap)
      BY <2>1, <3>1, InRange
    <3>3. QED
      BY <1>5, <2>1, <3>1, <3>2
  <2>3. QED
    BY <1>4, <2>1, <2>2 DEF as_slice
<1>11. Value'[b] = [i \in 1..len |-> 0] /\ Value[b] = None
  BY <1>9, <1>10 DEF Value
<1>12. Value' = [Value EXCEPT ![b] = [i \in 1..len |-> 0]]
  BY <1>8, <1>11, ValueUpdate DEF BufferInv
<1>13. Answer' = "done" /\ vec' = vec
  BY DEF zeroed, Answer
<1>14. Promise!Create(b, [i \in 1..len |-> 0])
  BY <1>11, <1>12, <1>13 DEF Promise!Create
<1>15. QED
  BY <1>8, <1>14 DEF Promise!New

(***************************************************************************)
(* The first half of from_slice and of clone: nobody sees the new block.   *)
(***************************************************************************)
LEMMA UninitStep ==
  ASSUME BufferInv, NEW b \in Slots, NEW len \in 0..UsizeMax, new_uninit(b, len),
         NEW src \in Slots \union Sources, from' = [from EXCEPT ![b] = src],
         src \in Sources => Len(src) = len,
         src \in Slots => src # b /\ Owned(src) /\ buf[src].len = len
  PROVE  BufferInv' /\ UNCHANGED Promise!specVars
<1>1. buf[b] = None /\ NewBlock(b, len) /\ mem' = mem
  BY DEF new_uninit, NewBlock
<1>2. PICK new \in Buffer : Fresh(b, len, new)
  BY <1>1, NewBlockIsFresh
<1>3. BufferInv' /\ from'[b] = src /\ Elsewhere(b)
  <2>1. Constructs(b, len, new, src)
    BY <1>1, <1>2 DEF Constructs, BufferInv, TypesInv
  <2>2. QED
    BY <2>1, ConstructorInv
<1>4. ~Owned(b) /\ ~Owned(b)'
  BY <1>1, <1>3, BufferAssumption DEF Owned
<1>5. Value'[b] = Value[b]
  BY <1>4 DEF Value
<1>6. Value' = Value
  BY <1>3, <1>5, ValueSame DEF BufferInv
<1>7. Answer' = Answer /\ vec' = vec
  BY DEF new_uninit, Answer
<1>8. QED
  BY <1>3, <1>6, <1>7 DEF Promise!specVars

LEMMA FromSliceStep ==
  ASSUME BufferInv, NEW b \in Slots, NEW src \in Sources, from_slice(b, src)
  PROVE  BufferInv' /\ UNCHANGED Promise!specVars
<1>1. PICK len \in 0..UsizeMax : len = Len(src)
  BY BufferAssumption
<1>2. src \notin Slots /\ new_uninit(b, len) /\ from' = [from EXCEPT ![b] = src]
  BY <1>1, BufferAssumption DEF from_slice
<1>3. QED
  BY <1>1, <1>2, UninitStep

LEMMA CloneStep ==
  ASSUME BufferInv, NEW b \in Slots, NEW c \in Slots \ {b}, clone(b, c)
  PROVE  BufferInv' /\ UNCHANGED Promise!specVars
<1>1. Owned(c) /\ buf[c] # None
  BY DEF clone, Owned
<1>2. PICK len \in 0..UsizeMax : len = buf[c].len
  BY <1>1, Lengths
<1>3. c \notin Sources /\ new_uninit(b, len) /\ from' = [from EXCEPT ![b] = c]
  BY <1>2, BufferAssumption DEF clone
<1>4. QED
  BY <1>1, <1>2, <1>3, UninitStep

(***************************************************************************)
(* What changes neither memory nor buffers.                                *)
(***************************************************************************)
LEMMA Unmoved ==
  ASSUME BufferInv, UNCHANGED <<heap, mem, buf, from>>
  PROVE  BufferInv' /\ Value' = Value
<1>1. BufferInv'
  <2>1. TypesInv' /\ BuffersFit' /\ HeapInv' /\ DisjointInv'
    BY DEF BufferInv, TypesInv, BuffersFit, HeapInv, DisjointInv, Holder, Holding
  <2>2. PendingInv'
    BY DEF BufferInv, PendingInv, Pending, Owned
  <2>3. QED
    BY <2>1, <2>2 DEF BufferInv
<1>2. Value' = Value
  BY DEF Value, Owned, as_slice
<1>3. QED
  BY <1>1, <1>2

LEMMA PanicsStep ==
  ASSUME BufferInv, NEW b \in Slots, NEW len, Panics(b, len)
  PROVE  BufferInv' /\ Promise!Panic
<1>1. BufferInv' /\ Value' = Value /\ vec' = vec
  BY Unmoved DEF Panics
<1>2. Answer' = "panic"
  BY DEF Panics, Answer
<1>3. QED
  BY <1>1, <1>2 DEF Promise!Panic

LEMMA ToVecStep ==
  ASSUME BufferInv, NEW b \in Slots, to_vec(b)
  PROVE  BufferInv' /\ Promise!ToVec(b)
<1>1. BufferInv' /\ Value' = Value /\ Answer' = Answer
  BY Unmoved DEF to_vec, Answer
<1>2. Value[b] # None /\ vec' = Value[b]
  BY ValueOf DEF to_vec, BufferInv
<1>3. QED
  BY <1>1, <1>2 DEF Promise!ToVec

(***************************************************************************)
(* dealloc is given the block that holds this buffer, and no other's.      *)
(***************************************************************************)
LEMMA ReleaseInv ==
  ASSUME BufferInv, NEW b \in Slots, Release(b)
  PROVE  /\ BufferInv'
         /\ Value[b] # None /\ Value[b] = as_slice(b)
         /\ Value' = [Value EXCEPT ![b] = None]
<1>1. Owned(b) /\ buf[b] # None /\ ~Borrowed(b) /\ from[b] = None
  BY DEF Release, Exclusive, Owned
<1>2. buf'[b] = None /\ from' = from /\ \A c \in Slots \ {b} : buf'[c] = buf[c]
  BY DEF Release, BufferInv, TypesInv
<1>3. mem' \in [Memory -> Byte \union {Poison}]
  BY DEF Release, BufferInv, TypesInv
<1>4. \A c \in Slots \ {b} : Holder(c)' = Holder(c) /\ Holding(c)' = Holding(c)
  BY <1>2 DEF Holder, Holding
<1>5. ~Holder(b)'
  BY <1>2 DEF Holder
<1>6. TypesInv'
  BY <1>2, <1>3 DEF Release, BufferInv, TypesInv
<1>7. BuffersFit'
  BY <1>2 DEF BufferInv, BuffersFit
<1>8. DisjointInv'
  BY <1>2, <1>4, <1>5 DEF BufferInv, DisjointInv
<1>9. ASSUME NEW c \in Slots \ {b}, Holder(c)
      PROVE  Holding(c) # Holding(b)
  <2>1. /\ buf[c].ptr \in Nat /\ buf[c].cap \in Nat /\ buf[c].cap > 0
        /\ buf[b].ptr \in Nat /\ buf[b].cap \in Nat
    BY <1>1, <1>9, Lengths DEF Holder
  <2>2. CASE Holder(b)
    <3>1. Range(buf[b].ptr, buf[b].cap) \cap Range(buf[c].ptr, buf[c].cap) = {}
      BY <1>9, <2>2 DEF BufferInv, DisjointInv
    <3>2. buf[c].ptr \in Range(buf[c].ptr, buf[c].cap)
      BY <2>1 DEF Range
    <3>3. QED
      BY <3>1, <3>2 DEF Holding
  <2>3. CASE ~Holder(b)
    BY <1>1, <2>1, <2>3 DEF Holding, Holder
  <2>4. QED
    BY <2>2, <2>3
<1>10. HeapInv'
  <2>1. heap' = heap \ {Holding(b)}
    BY DEF Release, Holding
  <2>2. {Holding(c) : c \in {d \in Slots : Holder(d)}}'
          = {Holding(c) : c \in {d \in Slots \ {b} : Holder(d)}}
    BY <1>4, <1>5
  <2>3. QED
    BY <1>9, <2>1, <2>2 DEF BufferInv, HeapInv
<1>11. \A c \in Slots : from[c] # b
  BY <1>1 DEF Borrowed
<1>12. \A c \in Slots \ {b} : Owned(c)' = Owned(c)
  BY <1>2 DEF Owned
<1>13. PendingInv'
  <2> SUFFICES ASSUME NEW c \in Slots, from'[c] # None
               PROVE  Pending(c)'
    BY DEF PendingInv
  <2>1. c # b /\ Pending(c)
    BY <1>1, <1>2 DEF BufferInv, PendingInv
  <2>2. from'[c] = from[c] /\ buf'[c] = buf[c] /\ from[c] # b
    BY <1>2, <1>11, <2>1
  <2>3. from[c] \in Slots => Owned(from[c])' /\ buf'[from[c]] = buf[from[c]]
    BY <1>2, <1>12, <2>1, <2>2 DEF Pending
  <2>4. QED
    BY <2>1, <2>2, <2>3 DEF Pending, Owned
<1>14. Elsewhere(b)
  <2>1. ASSUME NEW c \in Slots \ {b}, Holder(c), NEW a \in Range(buf[c].ptr, buf[c].cap)
        PROVE  mem'[a] = mem[a]
    <3>1. a \in Memory
      BY <2>1 DEF BufferInv, BuffersFit, Holder
    <3>2. a \notin Range(buf[b].ptr, buf[b].cap)
      <4>1. CASE Holder(b)
        BY <2>1, <4>1 DEF BufferInv, DisjointInv
      <4>2. CASE ~Holder(b)
        BY <1>1, <4>2, Lengths DEF Holder, Range
      <4>3. QED
        BY <4>1, <4>2
    <3>3. QED
      BY <3>1, <3>2 DEF Release
  <2>2. QED
    BY <1>2, <2>1 DEF Elsewhere
<1>15. Value'[b] = None
  BY <1>2 DEF Value, Owned
<1>16. Value' = [Value EXCEPT ![b] = None]
  BY <1>14, <1>15, ValueUpdate DEF BufferInv
<1>17. QED
  BY <1>1, <1>6, <1>7, <1>8, <1>10, <1>13, <1>16, ValueOf DEF BufferInv

LEMMA DropStep ==
  ASSUME BufferInv, NEW b \in Slots, drop(b)
  PROVE  BufferInv' /\ Promise!Drop(b)
<1>1. Release(b) /\ vec' = vec /\ Answer' = Answer
  BY DEF drop, Release, Answer
<1>2. QED
  BY <1>1, ReleaseInv DEF Promise!Drop

LEMMA IntoVecStep ==
  ASSUME BufferInv, NEW b \in Slots, into_vec(b)
  PROVE  BufferInv' /\ Promise!IntoVec(b)
<1>1. Release(b) /\ vec' = as_slice(b) /\ Answer' = Answer
  BY DEF into_vec, Release, Answer
<1>2. QED
  BY <1>1, ReleaseInv DEF Promise!IntoVec

-----------------------------------------------------------------------------
LEMMA BufferInit == Init => BufferInv /\ Promise!Init
<1> SUFFICES ASSUME Init
             PROVE  BufferInv /\ Promise!Init
  OBVIOUS
<1>1. TypesInv
  BY DEF Init, TypesInv
<1>2. BuffersFit /\ HeapInv /\ DisjointInv /\ PendingInv
  BY DEF Init, BuffersFit, HeapInv, DisjointInv, PendingInv, Holder
<1>3. Value = [b \in Slots |-> None]
  BY DEF Init, Value, Owned
<1>4. QED
  BY <1>1, <1>2, <1>3 DEF BufferInv, Promise!Init, Init, Answer

(***************************************************************************)
(* Every step on the heap is a step on the values, or hidden from them.    *)
(***************************************************************************)
LEMMA BufferStep ==
  ASSUME BufferInv, [Next]_vars
  PROVE  BufferInv' /\ [Promise!Next]_Promise!specVars
<1>1. CASE UNCHANGED vars
  BY <1>1, Unmoved DEF vars, Promise!specVars, Answer
<1>2. ASSUME NEW b \in Slots, NEW len \in Lens, zeroed(b, len) \/ Panics(b, len)
      PROVE  BufferInv' /\ [Promise!Next]_Promise!specVars
  <2>1. PICK n \in 0..UsizeMax : n = len
    BY BufferAssumption
  <2>2. CASE zeroed(b, n)
    BY <2>1, <2>2, ZeroedStep DEF Promise!Next
  <2>3. CASE Panics(b, n)
    BY <2>3, PanicsStep DEF Promise!Next
  <2>4. QED
    BY <1>2, <2>1, <2>2, <2>3
<1>3. ASSUME NEW b \in Slots, NEW src \in Sources, from_slice(b, src)
      PROVE  BufferInv' /\ [Promise!Next]_Promise!specVars
  BY <1>3, FromSliceStep
<1>4. ASSUME NEW b \in Slots, NEW c \in Slots \ {b}, clone(b, c)
      PROVE  BufferInv' /\ [Promise!Next]_Promise!specVars
  BY <1>4, CloneStep
<1>5. ASSUME NEW b \in Slots, Copy(b) \/ to_vec(b) \/ into_vec(b) \/ drop(b)
      PROVE  BufferInv' /\ [Promise!Next]_Promise!specVars
  BY <1>5, CopyStep, ToVecStep, IntoVecStep, DropStep DEF Promise!Next
<1>6. ASSUME NEW b \in Slots, NEW v \in Byte,
             fill(b, v) \/ \E i \in Lens : Set(b, i, v)
      PROVE  BufferInv' /\ [Promise!Next]_Promise!specVars
  BY <1>6, FillStep, SetStep DEF Promise!Next
<1>7. QED
  BY <1>1, <1>2, <1>3, <1>4, <1>5, <1>6 DEF Next

LEMMA BufferInvariance == Spec => []BufferInv
<1>1. Init => BufferInv
  BY BufferInit
<1>2. BufferInv /\ [Next]_vars => BufferInv'
  BY BufferStep
<1>3. QED
  BY <1>1, <1>2, PTL DEF Spec

(***************************************************************************)
(* For every length a caller may ask for, and every width of usize: no     *)
(* capacity wraps, and every buffer lies in its block.                     *)
(***************************************************************************)
THEOREM CapacitiesFit == Spec => []BuffersFit
<1>1. BufferInv => BuffersFit
  BY DEF BufferInv
<1>2. QED
  BY <1>1, BufferInvariance, PTL

(***************************************************************************)
(* The live allocations are those of the live buffers: drop frees with the *)
(* layout of the allocation, once, and nothing leaks.                      *)
(***************************************************************************)
THEOREM BlocksAreOwned == Spec => []EachOwnsItsBlock
<1>1. BufferInv => EachOwnsItsBlock
  BY DEF BufferInv, HeapInv, DisjointInv, Holder, Holding, EachOwnsItsBlock
<1>2. QED
  BY <1>1, BufferInvariance, PTL

(***************************************************************************)
(* Buffers behave as sequences of bytes of their own (ByteBuffers), under  *)
(* an allocator that reuses freed blocks as it likes.                      *)
(***************************************************************************)
THEOREM BuffersImplementValues == Spec => BuffersAreValues
<1>1. Init => Promise!Init
  BY BufferInit
<1>2. BufferInv /\ [Next]_vars => [Promise!Next]_Promise!specVars
  BY BufferStep
<1>3. QED
  BY <1>1, <1>2, BufferInvariance, PTL DEF Spec, BuffersAreValues, Promise!Spec
=============================================================================
