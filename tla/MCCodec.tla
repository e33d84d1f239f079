------------------------------- MODULE MCCodec ------------------------------
(***************************************************************************)
(* The calculations of Fl2kCodec, SoapyRates and Rds on bounded inputs,    *)
(* each of them an initial state, and the steps of the sample rate's       *)
(* search and of the RDS encoder.                                          *)
(***************************************************************************)
EXTENDS Fl2kCodec, SoapyRates, Rds, FiniteSets

CONSTANTS
  Targets,     \* sample rates searched for
  Years        \* years since 1900

ASSUME CodecAssumption ==
  /\ Targets \subseteq Nat
  /\ Years \subseteq Nat \ {0}

VARIABLE input

Days(mon, year) ==
  IF mon = 1 THEN IF year % 4 = 0 THEN 29 ELSE 28
  ELSE IF mon \in {3, 5, 8, 10} THEN 30 ELSE 31

Inputs ==
  [kind : {"rds", "rate", "table"}]
    \cup [kind : {"frame"}, channels : SUBSET Colors]
    \cup [kind : {"crc"}, block : SUBSET (0 .. 15)]
    \cup [kind : {"date"}, mon : 0 .. 11, year : Years]
    \cup [kind : {"time"}, day : {15079, 65535, 88127}, hour : 0 .. 23,
          min : 0 .. 59, offset : {-24, -1, 0, 11}]

Init ==
  /\ RdsInit /\ SearchInit /\ input \in Inputs
  /\ IF input.kind = "rate" THEN target \in Targets ELSE target = 0

Next ==
  \/ input.kind = "rds" /\ RdsNext /\ UNCHANGED <<input, target, search>>
  \/ input.kind = "rate" /\ SearchNext /\ UNCHANGED <<input, rdsVars>>

Spec == Init /\ [][Next]_<<input, target, search, rdsVars>>

-----------------------------------------------------------------------------
(* The rates of the table are, in ascending order, the rates that the      *)
(* search of fl2k_set_sample_rate can choose from, in the same range, so   *)
(* that a listed rate is one the device makes (listSampleRates).           *)
TableIsAchievable ==
  input.kind = "table" =>
    LET rates == SoapyOsmoFL2KSampleRates
        range == rates[1] .. 2^24 - 1
    IN /\ \A i \in 1 .. Len(rates) - 1 : rates[i] < rates[i + 1]
       /\ {rates[i] : i \in DOMAIN rates}
            = {fl2k_reg_to_freq(reg) : reg \in Settings} \cap range

(* The setting found is a closest one, and of these one with the largest  *)
(* multiplier: "Prefer multiplier 6 and 5" (fl2k_set_sample_rate).         *)
RateIsClosest ==
  search.mult < 3 =>
    LET Error(reg) == Distance(fl2k_reg_to_freq(reg), target)
        chosen == search.result_reg
    IN /\ chosen \in Settings
       /\ \A reg \in Settings :
            \/ Error(chosen) < Error(reg)
            \/ Error(chosen) = Error(reg) /\ chosen \div 2^20 >= reg \div 2^20

(* Every byte of a transfer that is a color's for which the application    *)
(* has supplied a buffer gets a sample, every other one keeps what an      *)
(* older block has left.  The bytes of a pixel follow each other as b, g,  *)
(* r, but that the two halves of every eight bytes are exchanged           *)
(* (fl2k_convert_r and others, fl2k_sample_worker).                        *)
PixelsInPlace ==
  input.kind = "frame" =>
    LET samples == [r |-> [n \in 1 .. 16 |-> n - 128],
                    g |-> [n \in 1 .. 16 |-> n],
                    b |-> [n \in 1 .. 16 |-> 112 + n - 1]]
        in == [c \in Colors |->
                 IF c \in input.channels THEN samples[c] ELSE <<>>]
        old == [p \in 0 .. 47 |-> p]
        new == Converted(old, in, 128)
        byte == [r |-> 2, g |-> 1, b |-> 0]
        Swap(p) == IF p % 8 < 4 THEN p + 4 ELSE p - 4
        Place(c, n) == Swap(3 * n + byte[c])
    IN \A c \in Colors, n \in 0 .. 15 :
         new[Place(c, n)] = IF c \in input.channels
                              THEN samples[c][n + 1] + 128
                              ELSE old[Place(c, n)]

(* A receiver that divides a block's 26 bits by the generator polynomial   *)
(* "x^10 + x^8 + x^7 + x^5 + x^4 + x^3 + x^0" is left with the block's     *)
(* offset word (crc, get_rds_group).                                       *)
CodewordsDivide ==
  input.kind = "crc" =>
    LET generator == {10, 8, 7, 5, 4, 3, 0}
        Remainder(word) ==
          LET r[i \in 0 .. 16] ==
                IF i = 0 THEN word
                ELSE LET before == r[i - 1]
                     IN IF (26 - i) \in before
                          THEN SymDiff(before, Shl(generator, 16 - i))
                          ELSE before
          IN r[16]
        i == (Cardinality(input.block) % 4) + 1
    IN Remainder(Codeword(input.block, i)) = offset_words[i]

(* The clock time group tells a receiver the right time: a month later the *)
(* day number is larger by the length of the month, and 1 January 2000 is  *)
(* day 51544; day, hour, minute and offset are found in their places in    *)
(* the blocks, if the offset is one of a time zone (get_rds_ct_group).     *)
ClockTimeDecodes ==
  /\ input.kind = "date" =>
       /\ mjd(1, 0, 100) = 51544
       /\ mjd(1, (input.mon + 1) % 12, input.year + (input.mon + 1) \div 12)
            = mjd(1, input.mon, input.year) + Days(input.mon, input.year)
  /\ input.kind = "time" =>
       LET b == CtBlocks(input.day, input.hour, input.min, input.offset)
           Value(i, low, high) ==
             SumSet({2^(j - low) : j \in b[i] \cap (low .. high)})
       IN /\ Value(1, 0, 1) * 2^15 + Value(2, 1, 15) = input.day
          /\ Value(2, 0, 0) * 2^4 + Value(3, 12, 15) = input.hour
          /\ Value(3, 6, 11) = input.min
          /\ Value(3, 0, 4) * (IF 5 \in b[3] THEN -1 ELSE 1) = input.offset

=============================================================================
