----------------------------- MODULE DmaEngine ------------------------------
(***************************************************************************)
(* The DMA engine (src/src/dma_engine.cpp) on the simulated host memory    *)
(* (src/src/simple_host_memory.cpp): every access passes the fault         *)
(* injector, the IOMMU's translation and the bounds of the buffer.  Bursts *)
(* and scatter-gather lists are carried out piece by piece and stop at the *)
(* first piece that fails, with the pieces before it done.                 *)
(*                                                                         *)
(* Memory is counted in cells, the size of a descriptor.                   *)
(***************************************************************************)
EXTENDS Integers, Sequences, Functions

CONSTANTS MemorySize,       \* config_.size_bytes
          AddressModulus,   \* 2^64 in the code
          Translator        \* translator_: the addresses it maps, and to where

ASSUME MemoryAssumption ==
  /\ MemorySize \in Nat /\ AddressModulus \in Nat \ {0}
  /\ DOMAIN Translator \subseteq 0..(AddressModulus - 1)
  /\ \A a \in DOMAIN Translator : Translator[a] \in Nat

VARIABLES memory,    \* buffer_
          faulty     \* the addresses the fault injector fails

Cells == 0..(MemorySize - 1)

OutOfBounds(offset, length) == offset > MemorySize \/ length > MemorySize - offset

translate_view(address, length) ==
  CASE address \in faulty -> "FaultInjected"
    [] address \notin faulty /\ address \notin DOMAIN Translator -> "IommuFault"
    [] OTHER -> IF OutOfBounds(Translator[address], length) THEN "OutOfBounds" ELSE "None"

Ok(address, length) == translate_view(address, length) = "None"

(* Mutant of Written: the address is not translated. *)
WrittenUntranslated(m, address, d) == [m EXCEPT ![address] = d]

(* SimpleHostMemory::write of one cell, of an access that is ok. *)
Written(m, address, d) == [m EXCEPT ![Translator[address]] = d]

-----------------------------------------------------------------------------
(* A piece of a transfer is an address and the part of the device's buffer *)
(* that goes there or comes from there: from, length.                      *)
LengthOf(sgl, entries) ==
  FoldFunctionOnSet(LAMBDA x, y : x + y, 0, [i \in DOMAIN sgl |-> sgl[i].length], entries)

Pieces(sgl) ==
  LET piece(i) == [address |-> sgl[i].address, from |-> LengthOf(sgl, 1..(i - 1)) + 1,
                   length |-> sgl[i].length]
  IN  SelectSeq([i \in DOMAIN sgl |-> piece(i)], LAMBDA p : p.length > 0)

(* The beats of a burst, stride apart; the address arithmetic wraps. *)
Beats(address, length, beat_bytes, stride_bytes) ==
  [i \in 1..(length \div beat_bytes) |->
     [address |-> (address + (i - 1) * stride_bytes) % AddressModulus,
      from |-> (i - 1) * beat_bytes + 1, length |-> beat_bytes]]

(* The pieces carried out: those before the first that fails. *)
Done(pieces) ==
  {k \in DOMAIN pieces : \A j \in 1..k : Ok(pieces[j].address, pieces[j].length)}

Latest(ks) == CHOOSE k \in ks : \A j \in ks : j <= k

(* The cells and the part of the buffer a piece connects. *)
CellsOf(p) == Translator[p.address]..(Translator[p.address] + p.length - 1)

Part(p) == p.from..(p.from + p.length - 1)

CellAt(p, i) == Translator[p.address] + (i - p.from)

(* Mutant of PlaceAt: every piece begins where the buffer does. *)
PlaceAtFromStart(p, c) == 1 + (c - Translator[p.address])

PlaceAt(p, c) == p.from + (c - Translator[p.address])

(* Memory after a write of the buffer, and the buffer after a read: the     *)
(* pieces are carried out in their order, a later one over an earlier one.  *)
Scattered(pieces, buffer) ==
  LET done == Done(pieces)
      onto(c) == {k \in done : c \in CellsOf(pieces[k])}
  IN  [c \in Cells |-> IF onto(c) = {} THEN memory[c]
                       ELSE buffer[PlaceAt(pieces[Latest(onto(c))], c)]]

Gathered(pieces, buffer) ==
  LET done == Done(pieces)
      into(i) == {k \in done : i \in Part(pieces[k])}
  IN  [i \in DOMAIN buffer |-> IF into(i) = {} THEN buffer[i]
                               ELSE memory[CellAt(pieces[Latest(into(i))], i)]]

(* The early returns of a burst and of a list. *)
BurstRefused(length, beat_bytes, stride_bytes) ==
  (beat_bytes > 0 /\ stride_bytes > 0) => length % beat_bytes # 0

SglRefused(sgl, buffer) == sgl = <<>> \/ Len(buffer) < LengthOf(sgl, DOMAIN sgl)
=============================================================================
