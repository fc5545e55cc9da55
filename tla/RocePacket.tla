----------------------------- MODULE RocePacket -----------------------------
(***************************************************************************)
(* RoCEv2 packets (src/src/rocev2/packet.cpp): RdmaPacketBuilder lays the  *)
(* headers an opcode calls for one after the other, RdmaPacketParser takes *)
(* them apart again by the opcode alone.                                   *)
(*                                                                         *)
(* A packet is the sequence of its parts: BTH, the extended headers, the   *)
(* payload (one part for each MTU of data) and the ICRC, which the engine  *)
(* writes and never verifies.  The receiver sees only the parts, so that a *)
(* header one side writes and the other does not expect shifts the rest.   *)
(***************************************************************************)
EXTENDS Naturals, Sequences

SendOpcodes == {"SendFirst", "SendMiddle", "SendLast", "SendLastImm",
                "SendOnly", "SendOnlyImm"}
WriteOpcodes == {"WriteFirst", "WriteMiddle", "WriteLast", "WriteLastImm",
                 "WriteOnly", "WriteOnlyImm"}

opcode_is_first(op) == op \in {"SendFirst", "WriteFirst", "ReadResponseFirst"}

opcode_is_last(op) == op \in {"SendLast", "SendLastImm", "WriteLast", "WriteLastImm",
                              "ReadResponseLast"}

opcode_is_only(op) == op \in {"SendOnly", "SendOnlyImm", "WriteOnly", "WriteOnlyImm",
                              "ReadResponseOnly"}

opcode_is_read_response(op) == op \in {"ReadResponseFirst", "ReadResponseMiddle",
                                       "ReadResponseLast", "ReadResponseOnly"}

-----------------------------------------------------------------------------
(* Building. *)

(* The members of a builder; immediate is <<>> or holds the immediate set. *)
RdmaPacketBuilder(opcode, psn, ack_request, wr_id, dma_length, syndrome, immediate, payload) ==
  [opcode |-> opcode, psn |-> psn, ack_request |-> ack_request, wr_id |-> wr_id,
   dma_length |-> dma_length, syndrome |-> syndrome, immediate |-> immediate,
   payload |-> payload]

needs_reth(op) == op \in {"WriteFirst", "WriteOnly", "WriteOnlyImm", "ReadRequest"}

needs_aeth(op) == op \in {"Ack", "ReadResponseFirst", "ReadResponseLast", "ReadResponseOnly"}

has_immediate_variant(op) == op \in {"SendLastImm", "SendOnlyImm", "WriteLastImm", "WriteOnlyImm"}

(* The header; wr_id is a ghost, the work request the packet is about. *)
write_bth(b) == [opcode |-> b.opcode, psn |-> b.psn, ack_request |-> b.ack_request,
                 wr_id |-> b.wr_id]

write_reth(b) == [dma_length |-> b.dma_length]

write_aeth(b) == [syndrome |-> b.syndrome]

write_immediate(b) == [immediate |-> b.immediate[1]]

icrc == [icrc |-> TRUE]

build(b) ==
  <<write_bth(b)>>
  \o (IF needs_reth(b.opcode) THEN <<write_reth(b)>> ELSE <<>>)
  \o (IF needs_aeth(b.opcode) THEN <<write_aeth(b)>> ELSE <<>>)
  \o (IF b.immediate # <<>> /\ has_immediate_variant(b.opcode)
      THEN <<write_immediate(b)>> ELSE <<>>)
  \o b.payload
  \o <<icrc>>

-----------------------------------------------------------------------------
(* Parsing. *)

(* Mutant of determine_headers: the immediate that ends a WRITE is missed. *)
determine_headersNoImm(op) ==
  [reth |-> op \in {"WriteFirst", "WriteOnly", "ReadRequest", "WriteOnlyImm"},
   aeth |-> op \in {"Ack", "ReadResponseFirst", "ReadResponseLast", "ReadResponseOnly"},
   immediate |-> op \in {"WriteOnlyImm", "SendLastImm", "SendOnlyImm"}]

determine_headers(op) ==
  [reth |-> op \in {"WriteFirst", "WriteOnly", "ReadRequest", "WriteOnlyImm"},
   aeth |-> op \in {"Ack", "ReadResponseFirst", "ReadResponseLast", "ReadResponseOnly"},
   immediate |-> op \in {"WriteOnlyImm", "SendLastImm", "SendOnlyImm", "WriteLastImm"}]

One(b) == IF b THEN 1 ELSE 0

(* The size checks of parse: BTH and ICRC, and every header expected. *)
parses(packet) ==
  /\ Len(packet) >= 2
  /\ LET has == determine_headers(packet[1].opcode)
     IN  1 + One(has.reth) + One(has.aeth) + One(has.immediate) <= Len(packet) - 1

(* What the parser then holds, with the place in its message the opcode    *)
(* tells; a header that is not expected is left out.                       *)
parse(packet) ==
  LET bth == packet[1]
      has == determine_headers(bth.opcode)
      aeth_at == 2 + One(has.reth)
      imm_at == aeth_at + One(has.aeth)
      payload_at == imm_at + One(has.immediate)
  IN  [opcode |-> bth.opcode, psn |-> bth.psn, ack_request |-> bth.ack_request,
       wr_id |-> bth.wr_id,
       first |-> opcode_is_first(bth.opcode) \/ opcode_is_only(bth.opcode),
       last |-> opcode_is_last(bth.opcode) \/ opcode_is_only(bth.opcode),
       dma_length |-> IF has.reth THEN packet[2].dma_length ELSE 0,
       syndrome |-> IF has.aeth THEN packet[aeth_at].syndrome ELSE "Ack",
       immediate |-> IF has.immediate THEN <<packet[imm_at].immediate>> ELSE <<>>,
       payload |-> SubSeq(packet, payload_at, Len(packet) - 1)]
=============================================================================
