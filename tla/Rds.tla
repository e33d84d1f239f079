-------------------------------- MODULE Rds ---------------------------------
(***************************************************************************)
(* The RDS encoder (src/rds_mod.c): the sequence of groups, their check    *)
(* words, the clock time, and get_rds_samples, which encodes the bits      *)
(* differentially and adds one waveform per bit into a ring of samples.    *)
(* A word is the set of its bits, so that xor is the symmetric difference. *)
(***************************************************************************)
EXTENDS Integers, Sequences, FiniteSetsExt

CONSTANTS
  BITS_PER_GROUP,   \* 104 in the code
  SAMPLES_PER_BIT,  \* 192 in the code
  FILTER_SIZE,      \* 576 in the code: the samples of a waveform
  MaxBits           \* bound: bits encoded

ASSUME RdsAssumption ==
  /\ BITS_PER_GROUP \in Nat \ {0} /\ SAMPLES_PER_BIT \in Nat \ {0}
  /\ FILTER_SIZE \in Nat \ {0} /\ MaxBits \in Nat

SAMPLE_BUFFER_SIZE == SAMPLES_PER_BIT + FILTER_SIZE

VARIABLES
  state, ps_state, rt_state,
  bit_pos,
  cur_output,
  sample_count,
  in_sample_index, out_sample_index,
  phase,
  sample_buffer,  \* of each cell the values added: <<bit, place, inverting>>
  sample,         \* the cell that was put out last, modulated by "sign"
  sign,           \* 0, 1 or -1: the 57 kHz carrier at a quarter of its period
  bits, outputs,  \* history: the bits taken and what they were encoded as
  groups,         \* history: the groups made, but for the clock times
  out             \* history: samples put out

groupVars == <<state, ps_state, rt_state, groups>>
ringVars == <<in_sample_index, out_sample_index, sample_buffer>>
rdsVars == <<groupVars, bit_pos, cur_output, sample_count, ringVars, phase,
             sample, sign, bits, outputs, out>>

Cells == 0 .. SAMPLE_BUFFER_SIZE - 1

RdsInit ==
  /\ state = 0 /\ ps_state = 0 /\ rt_state = 0 /\ groups = <<>>
  /\ bit_pos = BITS_PER_GROUP
  /\ cur_output = 0
  /\ sample_count = SAMPLES_PER_BIT
  /\ in_sample_index = 0 /\ out_sample_index = SAMPLE_BUFFER_SIZE - 1
  /\ sample_buffer = [c \in Cells |-> {}]
  /\ phase = 0 /\ sample = {} /\ sign = 0
  /\ bits = <<>> /\ outputs = <<>> /\ out = 0

-----------------------------------------------------------------------------
(* crc *)

Shl(word, n) == {i + n : i \in word}

POLY == {8, 7, 5, 4, 3, 0}
POLY_DEG == 10

(* Mutation: the highest bit of the block is not looked at. *)
crcShort(block) ==
  LET c[i \in 0 .. 16] ==
        IF i = 0 THEN {}
        ELSE LET before == c[i - 1]
                 bit == (16 - i) \in block \ {15}
                 msb == (POLY_DEG - 1) \in before
                 shifted == Shl(before, 1)
             IN IF msb # bit THEN SymDiff(shifted, POLY) ELSE shifted
  IN {i \in c[16] : i < 16}

(* The bits from POLY_DEG up are never cleared; get_rds_group does not     *)
(* emit them.                                                              *)
crc(block) ==
  LET c[i \in 0 .. 16] ==
        IF i = 0 THEN {}
        ELSE LET before == c[i - 1]
                 bit == (16 - i) \in block
                 msb == (POLY_DEG - 1) \in before
                 shifted == Shl(before, 1)
             IN IF msb # bit THEN SymDiff(shifted, POLY) ELSE shifted
  IN {i \in c[16] : i < 16}

offset_words ==
  <<{2, 3, 4, 5, 6, 7}, {3, 4, 7, 8}, {3, 5, 6, 8}, {2, 4, 5, 7, 8}>>

(* The 26 bits emitted for the i-th block of a group. *)
Codeword(block, i) ==
  Shl(block, POLY_DEG)
    \cup {j \in SymDiff(crc(block), offset_words[i]) : j < POLY_DEG}

-----------------------------------------------------------------------------
(* get_rds_ct_group *)

(* Mutation: February counts as a month of the same year. *)
mjdJanuary(tm_mday, tm_mon, tm_year) ==
  LET l == IF tm_mon < 1 THEN 1 ELSE 0
  IN 14956 + tm_mday + ((tm_year - l) * 1461) \div 4
       + ((tm_mon + 2 + l * 12) * 306001) \div 10000

(* The modified Julian day of a struct tm's day, month and year, from 1901 *)
(* on: the casts of the code truncate towards zero.                        *)
mjd(tm_mday, tm_mon, tm_year) ==
  LET l == IF tm_mon <= 1 THEN 1 ELSE 0
  IN 14956 + tm_mday + ((tm_year - l) * 1461) \div 4
       + ((tm_mon + 2 + l * 12) * 306001) \div 10000

Bits(n) == {i \in 0 .. 30 : (n \div 2^i) % 2 = 1}
Word16(word) == {i \in word : i < 16}

(* Blocks 1 to 3.  offset is tm_gmtoff in half hours on BSD and macOS; on  *)
(* other systems it is the half hours since 1970, which spoil block 3.     *)
CtBlocks(day, hour, min, offset) ==
  <<Bits(day \div 2^15) \cup {10, 14},
    Word16(Bits(2 * day) \cup Bits(hour \div 16)),
    Word16(Bits((hour % 16) * 2^12) \cup Bits(min * 2^6)
      \cup Bits(IF offset < 0 THEN -offset ELSE offset)
      \cup (IF offset < 0 THEN {5} ELSE {}))>>

-----------------------------------------------------------------------------
(* get_rds_group *)

(* Mutation: a CT group counts in the pattern. *)
GroupCounted(ct) ==
  /\ groups' = IF ct THEN groups
                ELSE Append(groups, IF state < 4 THEN <<"0A", ps_state>>
                                                ELSE <<"2A", rt_state>>)
  /\ ps_state' = IF ~ct /\ state < 4 THEN (ps_state + 1) % 4 ELSE ps_state
  /\ rt_state' = IF ~ct /\ state >= 4 THEN (rt_state + 1) % 16 ELSE rt_state
  /\ state' = (state + 1) % 5

(* "CT (clock time) has priority on other group types" *)
Group(ct) ==
  /\ groups' = IF ct THEN groups
                ELSE Append(groups, IF state < 4 THEN <<"0A", ps_state>>
                                                ELSE <<"2A", rt_state>>)
  /\ ps_state' = IF ~ct /\ state < 4 THEN (ps_state + 1) % 4 ELSE ps_state
  /\ rt_state' = IF ~ct /\ state >= 4 THEN (rt_state + 1) % 16 ELSE rt_state
  /\ state' = IF ct THEN state ELSE (state + 1) % 5

-----------------------------------------------------------------------------
(* get_rds_samples: one round of its loop *)

(* Mutation: what was put out stays in the ring. *)
PutOutKept(buffer) ==
  /\ sample' = buffer[out_sample_index]
  /\ sample_buffer' = buffer
  /\ out_sample_index' = (out_sample_index + 1) % SAMPLE_BUFFER_SIZE
  /\ sign' = <<0, 1, 0, -1>>[phase + 1]
  /\ phase' = (phase + 1) % 4
  /\ out' = out + 1

PutOut(buffer) ==
  /\ sample' = buffer[out_sample_index]
  /\ sample_buffer' = [buffer EXCEPT ![out_sample_index] = {}]
  /\ out_sample_index' = (out_sample_index + 1) % SAMPLE_BUFFER_SIZE
  /\ sign' = <<0, 1, 0, -1>>[phase + 1]
  /\ phase' = (phase + 1) % 4
  /\ out' = out + 1

(* The ring with the waveform of a bit, the number n of all, added. *)
Added(n, inverting) ==
  [c \in Cells |-> sample_buffer[c] \cup
     {<<n, j, inverting>> :
        j \in {k \in 0 .. FILTER_SIZE - 1 :
                 (in_sample_index + k) % SAMPLE_BUFFER_SIZE = c}}]

Encode(bit) == IF cur_output = bit THEN 0 ELSE 1

(* The next bit, of a new group if the last one is used up. *)
NextBit ==
  /\ sample_count >= SAMPLES_PER_BIT /\ Len(bits) < MaxBits
  /\ IF bit_pos >= BITS_PER_GROUP
       THEN bit_pos' = 1 /\ \E ct \in BOOLEAN : Group(ct)
       ELSE bit_pos' = bit_pos + 1 /\ UNCHANGED groupVars
  /\ \E bit \in {0, 1} :
       /\ bits' = Append(bits, bit)
       /\ cur_output' = Encode(bit)
  /\ outputs' = Append(outputs, cur_output')
  /\ PutOut(Added(Len(bits'), cur_output'))
  /\ in_sample_index' = (in_sample_index + SAMPLES_PER_BIT) % SAMPLE_BUFFER_SIZE
  /\ sample_count' = 1

SameBit ==
  /\ sample_count < SAMPLES_PER_BIT
  /\ PutOut(sample_buffer)
  /\ sample_count' = sample_count + 1
  /\ UNCHANGED <<groupVars, bit_pos, cur_output, in_sample_index, bits,
                 outputs>>

RdsNext == NextBit \/ SameBit

-----------------------------------------------------------------------------
(* "This generates sequences of the form 0A, 0A, 0A, 0A, 2A": between two  *)
(* 2A groups come all four segments of the program's name, in order, and   *)
(* the segments of the text follow each other, whenever the clock time     *)
(* comes between (get_rds_group).                                          *)
GroupsInPattern ==
  \A i \in 1 .. Len(groups) :
    groups[i] = IF i % 5 = 0 THEN <<"2A", (i \div 5 - 1) % 16>>
                             ELSE <<"0A", (i - 1) % 5>>

(* Every sample put out is the sum of the waveforms of all bits that reach *)
(* to it and of nothing else, one sample late: the ring is long enough,    *)
(* and what was put out is cleared before it is written again.             *)
SamplesOverlapAdd ==
  LET place(k) == out - 2 - SAMPLES_PER_BIT * (k - 1)
  IN sample = {<<k, place(k), outputs[k]>> :
                 k \in {i \in DOMAIN bits : place(i) \in 0 .. FILTER_SIZE - 1}}

=============================================================================
