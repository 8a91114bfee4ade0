------------------------------ MODULE Palette ------------------------------
(***************************************************************************)
(* The paletted containers of a chunk section as the client's patched      *)
(* prismarine-chunk reads, changes and writes them.                        *)
(*                                                                         *)
(* Since 1.21.5 the count of longs is no longer sent before a container's  *)
(* data; a reader has to know it.  A container is known by its bits per    *)
(* value (0: one value; up to MaxBits: a local palette; else the registry) *)
(* and by its noSizePrefix flag, what is sent by whether the count is      *)
(* there and by how many longs follow.                                     *)
(*                                                                         *)
(* The flag goes from hand to hand, and a decoder is known by the hands    *)
(* that pass it on: the patch writes it into each of them with a           *)
(* replacement, and checks that few of them matched.                       *)
(***************************************************************************)
EXTENDS Integers

CONSTANTS
    ServerBlockBits,  \* what the server's registries take per block state
    ServerBiomeBits   \* ... and per biome

ASSUME PaletteAssumption == ServerBlockBits \in 9 .. 64 /\ ServerBiomeBits \in 4 .. 64

Kinds == {"blocks", "biomes"}

(* prismarine-chunk's constants, and the client's registries.              *)
Capacity == [blocks |-> 4096, biomes |-> 64]
MinBits == [blocks |-> 4, biomes |-> 1]
MaxBits == [blocks |-> 8, biomes |-> 3]
GlobalBits == [blocks |-> 15, biomes |-> 7]

\* The column, what reads a container, the section that is read with one value,
\* fromLocalPalette, convertToDirect, and the set of a single value.
Hands == {"column", "read", "single", "local", "direct", "indirect"}

ServerBits(k) ==
    {0} \cup MinBits[k] .. MaxBits[k]
        \cup {IF k = "blocks" THEN ServerBlockBits ELSE ServerBiomeBits}

Containers == [bits : Int, noSizePrefix : BOOLEAN]
Container(bits, noSizePrefix) == [bits |-> bits, noSizePrefix |-> noSizePrefix]
Garbled == Container(-1, FALSE)   \* read out of step with what was written

-----------------------------------------------------------------------------
\* As if a value could span two longs.
SpanningLongCount(capacity, bits) == (capacity * bits + 63) \div 64

\* ceil(capacity / floor(64 / bits)).
PackedLongCount(capacity, bits) ==
    LET perLong == 64 \div bits IN (capacity + perLong - 1) \div perLong

Longs(k, bits) == IF bits = 0 THEN 0 ELSE PackedLongCount(Capacity[k], bits)

\* The server's: the fewest longs with room for every value, whole.
SentLongs ==
    [k \in Kinds |-> [bits \in ServerBits(k) \ {0} |->
        CHOOSE n \in 1 .. Capacity[k] :
            /\ n * (64 \div bits) >= Capacity[k]
            /\ (n - 1) * (64 \div bits) < Capacity[k]]]

Sent(k, bits) ==
    [bits |-> bits, counted |-> FALSE, longs |-> IF bits = 0 THEN 0 ELSE SentLongs[k][bits]]

(* A container that is written counts its longs, unless flagged; one that  *)
(* holds a single value has a count of 0.                                  *)
Write(k, c) ==
    [bits |-> c.bits, counted |-> ~c.noSizePrefix, longs |-> Longs(k, c.bits)]

(* readBuffer: a flagged container takes as many longs as the BitArray it  *)
(* has allocated, another as many as the count it reads says.              *)
ReadBuffer(k, c, sent) ==
    IF sent.counted = ~c.noSizePrefix /\ (c.noSizePrefix => Longs(k, c.bits) = sent.longs)
    THEN c ELSE Garbled

\* A single value is followed by its count of 0, unless the column says not.
ReadSingle(sent, hands) ==
    IF sent.counted = ("column" \notin hands)
    THEN Container(0, {"column", "single"} \subseteq hands) ELSE Garbled

(* ChunkSection.read and BiomeSection.read: what is larger than a local    *)
(* palette is allocated with the bits of the client's own registry.        *)
ReadBlocks(sent, hands) ==
    LET bits == IF sent.bits > MaxBits["blocks"] THEN GlobalBits["blocks"] ELSE sent.bits
    IN IF bits = 0 THEN ReadSingle(sent, hands)
       ELSE ReadBuffer("blocks", Container(bits, {"column", "read"} \subseteq hands), sent)

ReadBiomes(sent, hands) ==
    LET bits == IF sent.bits > MaxBits["biomes"] THEN GlobalBits["biomes"] ELSE sent.bits
    IN IF bits = 0 THEN ReadSingle(sent, hands)
       ELSE ReadBuffer("biomes", Container(bits, {"column", "read"} \subseteq hands), sent)

(* ChunkColumn.load: one after the other; what follows one that was read   *)
(* out of step is read out of step.                                        *)
ReadColumn(sent, hands) ==
    LET blocks == ReadBlocks(sent["blocks"], hands)
    IN [blocks |-> blocks,
        biomes |-> IF blocks = Garbled THEN Garbled ELSE ReadBiomes(sent["biomes"], hands)]

\* From the palette of a saved chunk.
FromLocalPalette(bits, hands) == Container(bits, {"column", "local"} \subseteq hands)

-----------------------------------------------------------------------------
\* A container that changes its representation, in one hand or the other.
Convert(c, bits, hand, hands) == Container(bits, c.noSizePrefix /\ hand \in hands)

\* A value for which the container has no room.
Outgrow(k, c, hands) ==
    CASE c.bits = 0 -> Convert(c, MinBits[k], "indirect", hands)
      [] c.bits \in MinBits[k] .. MaxBits[k] - 1 -> [c EXCEPT !.bits = c.bits + 1]
      [] c.bits = MaxBits[k] -> Convert(c, GlobalBits[k], "direct", hands)
      [] OTHER -> c
=============================================================================
