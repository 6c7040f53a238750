---------------------------- MODULE ByteBuffers -----------------------------
(***************************************************************************)
(* What the users of AlignedBuffer rely on, without memory: a variable     *)
(* holds a sequence of bytes of its own, a new buffer is zero or a copy,   *)
(* and a call that panics changes nothing.                                 *)
(***************************************************************************)
EXTENDS Sequences, Naturals

CONSTANTS
  Slots,    \* the variables that may hold a buffer
  Byte,
  Lens,     \* the lengths asked for
  Sources,  \* the slices copied from
  None

VARIABLES
  value,    \* per slot: the bytes of its buffer, or None
  vec,      \* the last Vec a caller was given, or None
  outcome   \* of the last constructor: "done" or "panic"

specVars == <<value, vec, outcome>>

Init == value = [b \in Slots |-> None] /\ vec = None /\ outcome = "done"

Create(b, bytes) ==
  /\ value[b] = None
  /\ value' = [value EXCEPT ![b] = bytes]
  /\ outcome' = "done"
  /\ UNCHANGED vec

New(b) ==
  \/ \E len \in Lens : Create(b, [i \in 1..len |-> 0])
  \/ \E src \in Sources : Create(b, src)
  \/ \E c \in Slots \ {b} : value[c] # None /\ Create(b, value[c])

Panic == outcome' = "panic" /\ UNCHANGED <<value, vec>>

Set(b, v) ==
  /\ value[b] # None
  /\ \E i \in 1..Len(value[b]) : value' = [value EXCEPT ![b][i] = v]
  /\ UNCHANGED <<vec, outcome>>

Fill(b, v) ==
  /\ value[b] # None
  /\ value' = [value EXCEPT ![b] = [i \in 1..Len(value[b]) |-> v]]
  /\ UNCHANGED <<vec, outcome>>

ToVec(b) ==
  /\ value[b] # None
  /\ vec' = value[b]
  /\ UNCHANGED <<value, outcome>>

IntoVec(b) ==
  /\ value[b] # None
  /\ vec' = value[b]
  /\ value' = [value EXCEPT ![b] = None]
  /\ UNCHANGED outcome

Drop(b) ==
  /\ value[b] # None
  /\ value' = [value EXCEPT ![b] = None]
  /\ UNCHANGED <<vec, outcome>>

Next ==
  \/ Panic
  \/ \E b \in Slots :
       \/ New(b) \/ ToVec(b) \/ IntoVec(b) \/ Drop(b)
       \/ \E v \in Byte : Fill(b, v) \/ Set(b, v)

Spec == Init /\ [][Next]_specVars
=============================================================================
