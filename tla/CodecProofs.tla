----------------------------- MODULE CodecProofs -----------------------------
(***************************************************************************)
(* Theorems about the calculations, for every input: the search of         *)
(* fl2k_set_sample_rate ends with the closest setting, the groups of an    *)
(* RDS program come in their pattern and its samples are the sums of the   *)
(* wave forms that reach to them, the conversions of R, G and B write the  *)
(* bytes of the colors that are supplied and no others; a receiver of RDS  *)
(* recognizes each block by what its division leaves, and reads the date   *)
(* and time that were set.                                                 *)
(***************************************************************************)
EXTENDS MCCodec, Numbers, SequenceTheorems, FiniteSetTheorems

-----------------------------------------------------------------------------
(* A setting's register gives back the parts it was put together from.     *)
LEMMA RegFields ==
  ASSUME NEW mult \in 3 .. 6, NEW div \in 2 .. 63, NEW frac \in 1 .. 15
  PROVE  /\ Reg(mult, div, frac) \in Nat \ {0}
         /\ Reg(mult, div, frac) % 64 = div
         /\ (Reg(mult, div, frac) \div 2^8) % 16 = 1
         /\ (Reg(mult, div, frac) \div 2^16) % 16 = frac
         /\ Reg(mult, div, frac) \div 2^20 = mult
<1>1. /\ 2^8 = 256 /\ 2^16 = 65536 /\ 2^20 = 1048576
  OBVIOUS
<1>2. Reg(mult, div, frac) = mult * 1048576 + frac * 65536 + 24832 + div
  BY <1>1 DEF Reg
<1>3. Reg(mult, div, frac) % 64 = div
  BY <1>2
<1>4. (Reg(mult, div, frac) \div 256) % 16 = 1
  BY <1>2
<1>5. (Reg(mult, div, frac) \div 65536) % 16 = frac
  BY <1>2
<1>6. Reg(mult, div, frac) \div 1048576 = mult
  BY <1>2
<1> QED BY <1>1, <1>2, <1>3, <1>4, <1>5, <1>6

(* Its frequency is a whole number. *)
LEMMA FreqIsInt ==
  ASSUME NEW reg \in Settings
  PROVE  fl2k_reg_to_freq(reg) \in Int
<1>1. PICK mult \in 3 .. 6, div \in 2 .. 63, frac \in 1 .. 15 :
        reg = Reg(mult, div, frac)
  BY DEF Settings
<1>2. /\ reg \in Nat
      /\ reg % 64 = div /\ (reg \div 2^8) % 16 = 1
      /\ (reg \div 2^16) % 16 = frac
      /\ (reg \div 2^20) = mult
  <2>1. /\ Reg(mult, div, frac) \in Nat \ {0}
        /\ Reg(mult, div, frac) % 64 = div
        /\ (Reg(mult, div, frac) \div 2^8) % 16 = 1
        /\ (Reg(mult, div, frac) \div 2^16) % 16 = frac
        /\ Reg(mult, div, frac) \div 2^20 = mult
    BY RegFields, Zenon
  <2>2. Reg(mult, div, frac) \in Nat
    BY <2>1
  <2> QED BY ONLY <1>1, <2>1, <2>2, Zenon
<1>3. mult % 16 = mult
  BY ModSmall
<1> DEFINE clock == (160000000 * mult) \div div
           offset == clock \div (16 * mult)
<1>4. fl2k_reg_to_freq(reg) = (clock + offset * frac) \div 1
  BY <1>2, <1>3, SMT DEF fl2k_reg_to_freq
<1>5. clock \in Int
  OBVIOUS
<1> HIDE DEF clock
<1>6. offset \in Int
  BY <1>5
<1> HIDE DEF offset
<1>7. offset * frac \in Int
  BY <1>6
<1> QED BY <1>4, <1>5, <1>7

-----------------------------------------------------------------------------
(* The search has looked at the settings that precede its round in the     *)
(* order of its loops; what it keeps is no worse than any of them, and has *)
(* no smaller multiplier than those to come.                               *)
Error(freq, reg) == Distance(fl2k_reg_to_freq(reg), freq)

NoWorse(freq, reg, other) ==
  \/ Error(freq, reg) < Error(freq, other)
  \/ Error(freq, reg) = Error(freq, other) /\ reg \div 2^20 >= other \div 2^20

Seen(s, mult, div, frac) ==
  \/ mult > s.mult
  \/ mult = s.mult /\ div > s.div
  \/ mult = s.mult /\ div = s.div /\ frac < s.frac

SearchTypes ==
  /\ target \in Int
  /\ search \in [mult : 2 .. 6, div : 2 .. 63, frac : 1 .. 15,
                 result_reg : Settings \cup {0}]

Kept ==
  /\ search.result_reg # 0 => search.result_reg \div 2^20 >= search.mult
  /\ search.result_reg = 0 =>
       search.mult = 6 /\ search.div = 63 /\ search.frac = 1
  /\ \A mult \in 3 .. 6, div \in 2 .. 63, frac \in 1 .. 15 :
       Seen(search, mult, div, frac) =>
         NoWorse(target, search.result_reg, Reg(mult, div, frac))

SearchInv == SearchTypes /\ Kept

(* What a round looks at is a setting, with the round's multiplier. *)
LEMMA RegIsSetting ==
  ASSUME NEW mult \in 3 .. 6, NEW div \in 2 .. 63, NEW frac \in 1 .. 15
  PROVE  /\ Reg(mult, div, frac) \in Settings
         /\ Reg(mult, div, frac) \div 2^20 = mult
<1>1. Reg(mult, div, frac) \in Settings
  BY DEF Settings
<1> QED BY <1>1, RegFields, Zenon

(* The multiplier of a setting is what its register holds of it. *)
LEMMA SettingFields ==
  ASSUME NEW reg \in Settings
  PROVE  reg \in Nat \ {0} /\ reg \div 2^20 \in Int
<1>1. PICK m \in 3 .. 6, d \in 2 .. 63, f \in 1 .. 15 : reg = Reg(m, d, f)
  BY DEF Settings
<1>2. Reg(m, d, f) \in Nat \ {0} /\ Reg(m, d, f) \div 2^20 = m
  BY RegFields, Zenon
<1>3. m \in Int
  OBVIOUS
<1> QED BY ONLY <1>1, <1>2, <1>3, Zenon

(* What a round of the loop keeps is no worse than what it kept before and *)
(* than the setting it looks at.                                           *)
LEMMA ClosestIsNoWorse ==
  ASSUME NEW freq \in Int, NEW reg \in Settings,
         NEW best \in Settings \cup {0},
         best # 0 => best \div 2^20 >= reg \div 2^20
  PROVE  LET new == Closest(freq, reg, best)
         IN /\ new \in Settings /\ new # 0
            /\ new \div 2^20 >= reg \div 2^20
            /\ NoWorse(freq, new, reg)
            /\ best # 0 => \A other \in Settings :
                 NoWorse(freq, best, other) => NoWorse(freq, new, other)
<1> DEFINE new == Closest(freq, reg, best)
           M(r) == r \div 2^20
           E(r) == Error(freq, r)
<1>1. \A r \in Settings : r \in Nat \ {0} /\ M(r) \in Int /\ E(r) \in Int
  BY FreqIsInt, SettingFields DEF Error, Distance
<1>2. new = IF best = 0 \/ E(reg) < E(best) THEN reg ELSE best
  BY Zenon DEF Closest, Error
<1>3. \A r, s \in Settings :
        NoWorse(freq, r, s) <=> \/ E(r) < E(s)
                                \/ E(r) = E(s) /\ M(r) >= M(s)
  BY DEF NoWorse
<1>4. best # 0 => M(best) >= M(reg)
  OBVIOUS
<1> HIDE DEF new, M, E
<1>5. new \in Settings /\ new # 0
  BY <1>1, <1>2
<1>6. M(new) >= M(reg)
  BY <1>1, <1>2, <1>4
<1>7. NoWorse(freq, new, reg)
  BY <1>1, <1>2, <1>3, <1>4, <1>5
<1>8. ASSUME best # 0, NEW other \in Settings, NoWorse(freq, best, other)
      PROVE  NoWorse(freq, new, other)
  BY <1>1, <1>2, <1>3, <1>4, <1>5, <1>8
<1> QED BY <1>5, <1>6, <1>7, <1>8 DEF new, M

(* One round of the search. *)
LEMMA SearchStep == SearchInv /\ SearchNext => SearchInv'
<1> SUFFICES ASSUME SearchInv, SearchNext PROVE SearchInv'
  OBVIOUS
<1> DEFINE m == search.mult
           d == search.div
           f == search.frac
           old == search.result_reg
           reg == Reg(m, d, f)
           new == Closest(target, reg, old)
<1>1. /\ m \in 3 .. 6 /\ d \in 2 .. 63 /\ f \in 1 .. 15
      /\ old \in Settings \cup {0} /\ target \in Int /\ target' = target
  BY DEF SearchInv, SearchTypes, SearchNext
<1>2. reg \in Settings /\ reg \div 2^20 = m
  BY ONLY <1>1, RegIsSetting, Zenon
<1>4. old # 0 => old \div 2^20 >= m
  BY DEF SearchInv, Kept
<1>5. /\ new \in Settings /\ new # 0
      /\ new \div 2^20 >= m
      /\ NoWorse(target, new, reg)
      /\ old # 0 => \A other \in Settings :
           NoWorse(target, old, other) => NoWorse(target, new, other)
  BY <1>1, <1>2, <1>4, ClosestIsNoWorse, Zenon
<1>6. search' = IF f < 15
                  THEN [search EXCEPT !.frac = @ + 1, !.result_reg = new]
                ELSE IF d > 2
                  THEN [search EXCEPT !.div = @ - 1, !.frac = 1,
                                      !.result_reg = new]
                ELSE [mult |-> m - 1, div |-> 63, frac |-> 1,
                      result_reg |-> new]
  BY DEF SearchNext
<1> HIDE DEF new, reg
<1>7. /\ search' \in [mult : 2 .. 6, div : 2 .. 63, frac : 1 .. 15,
                      result_reg : Settings \cup {0}]
      /\ search'.result_reg = new
      /\ search'.mult = IF f < 15 \/ d > 2 THEN m ELSE m - 1
      /\ search'.div = IF f < 15 THEN d ELSE IF d > 2 THEN d - 1 ELSE 63
      /\ search'.frac = IF f < 15 THEN f + 1 ELSE 1
  <2>1. search \in [mult : 2 .. 6, div : 2 .. 63, frac : 1 .. 15,
                    result_reg : Settings \cup {0}]
    BY DEF SearchInv, SearchTypes
  <2>2. search = [mult |-> m, div |-> d, frac |-> f, result_reg |-> old]
    BY ONLY <2>1
  <2>3. search' =
          [mult |-> IF f < 15 \/ d > 2 THEN m ELSE m - 1,
           div |-> IF f < 15 THEN d ELSE IF d > 2 THEN d - 1 ELSE 63,
           frac |-> IF f < 15 THEN f + 1 ELSE 1,
           result_reg |-> new]
    <3> HIDE DEF m, d, f, old
    <3>1. CASE f < 15
      BY ONLY <1>6, <2>2, <3>1
    <3>2. CASE ~ (f < 15) /\ d > 2
      BY ONLY <1>6, <2>2, <3>2
    <3>3. CASE ~ (f < 15) /\ ~ (d > 2)
      BY ONLY <1>6, <2>2, <3>3
    <3> QED BY <3>1, <3>2, <3>3
  <2> HIDE DEF m, d, f, old
  <2>4. m - 1 \in 2 .. 6 /\ (d > 2 => d - 1 \in 2 .. 63)
          /\ (f < 15 => f + 1 \in 1 .. 15)
    BY ONLY <1>1
  <2> QED BY ONLY <1>1, <1>5, <2>3, <2>4
<1>8. ASSUME NEW mult \in 3 .. 6, NEW div \in 2 .. 63, NEW frac \in 1 .. 15,
             Seen(search', mult, div, frac)
      PROVE  \/ mult = m /\ div = d /\ frac = f
             \/ Seen(search, mult, div, frac)
  BY <1>1, <1>7, <1>8 DEF Seen
<1>9. ASSUME NEW mult \in 3 .. 6, NEW div \in 2 .. 63, NEW frac \in 1 .. 15,
             Seen(search', mult, div, frac)
      PROVE  NoWorse(target, new, Reg(mult, div, frac))
  <2>1. CASE mult = m /\ div = d /\ frac = f
    BY <2>1, <1>5 DEF reg
  <2>2. CASE Seen(search, mult, div, frac)
    <3>1. old # 0
      <4>1. old = 0 => m = 6 /\ d = 63 /\ f = 1
        BY DEF SearchInv, Kept
      <4> QED BY ONLY <1>1, <2>2, <4>1, mult \in 3 .. 6, div \in 2 .. 63,
                      frac \in 1 .. 15 DEF Seen
    <3>2. NoWorse(target, old, Reg(mult, div, frac))
      BY <2>2 DEF SearchInv, Kept
    <3>3. Reg(mult, div, frac) \in Settings
      BY RegIsSetting
    <3> QED BY <1>5, <3>1, <3>2, <3>3
  <2> QED BY <1>8, <1>9, <2>1, <2>2
<1>10. SearchTypes'
  BY <1>1, <1>7 DEF SearchTypes
<1>11. new \div 2^20 >= search'.mult
  <2> DEFINE M == new \div 2^20
  <2>1. M \in Int /\ M >= m
    BY <1>5, SettingFields
  <2> HIDE DEF M
  <2>2. M >= search'.mult
    BY <1>1, <1>7, <2>1
  <2> QED BY <2>2 DEF M
<1>12. Kept'
  BY <1>1, <1>5, <1>7, <1>9, <1>11 DEF Kept
<1> QED BY <1>10, <1>12 DEF SearchInv

(* The search keeps its invariant from the first round to the last. *)
LEMMA SearchInvariant == Spec => []SearchInv
<1>1. Init => SearchInv
  <2> SUFFICES ASSUME Init PROVE SearchInv
    OBVIOUS
  <2>1. SearchTypes
    <3>1. target \in Int
      <4>1. target \in Targets \/ target = 0
        BY DEF Init
      <4>2. \A t \in Targets : t \in Int
        BY CodecAssumption
      <4> QED BY <4>1, <4>2
    <3>2. search \in [mult : 2 .. 6, div : 2 .. 63, frac : 1 .. 15,
                      result_reg : Settings \cup {0}]
      BY DEF Init, SearchInit
    <3> QED BY <3>1, <3>2 DEF SearchTypes
  <2>2. \A mult \in 3 .. 6, div \in 2 .. 63, frac \in 1 .. 15 :
          ~ Seen(search, mult, div, frac)
    BY DEF Init, SearchInit, Seen
  <2> QED BY <2>1, <2>2 DEF Init, SearchInit, SearchInv, Kept
<1>2. SearchInv /\ [Next]_<<input, target, search, rdsVars>> => SearchInv'
  <2>1. SearchInv /\ UNCHANGED <<target, search>> => SearchInv'
    BY DEF SearchInv, SearchTypes, Kept
  <2> QED BY <2>1, SearchStep DEF Next
<1> QED BY <1>1, <1>2, PTL DEF Spec

(* THEOREM: for every target the search ends with a setting than which no  *)
(* other is closer, and of the closest ones with the largest multiplier    *)
(* (fl2k_set_sample_rate).                                                 *)
THEOREM RateFoundIsClosest == Spec => []RateIsClosest
<1>1. SearchInv => RateIsClosest
  <2> SUFFICES ASSUME SearchInv, search.mult < 3 PROVE RateIsClosest
    BY DEF RateIsClosest
  <2> DEFINE chosen == search.result_reg
  <2>1. chosen \in Settings
    <3>1. chosen \in Settings \cup {0}
      BY Zenon DEF SearchInv, SearchTypes
    <3>2. chosen # 0
      BY DEF SearchInv, Kept
    <3> QED BY ONLY <3>1, <3>2
  <2>2. ASSUME NEW reg \in Settings PROVE NoWorse(target, chosen, reg)
    <3>1. PICK m \in 3 .. 6, d \in 2 .. 63, f \in 1 .. 15 : reg = Reg(m, d, f)
      BY DEF Settings
    <3>2. Seen(search, m, d, f)
      BY DEF Seen, SearchInv, SearchTypes
    <3> QED BY <3>1, <3>2 DEF SearchInv, Kept
  <2> QED BY <2>1, <2>2 DEF RateIsClosest, NoWorse, Error
<1> QED BY <1>1, SearchInvariant, PTL

-----------------------------------------------------------------------------
(* The three counters are those of the number of groups made, whatever     *)
(* clock times come between.                                               *)
Made == {"0A", "2A"} \X Int

GroupsInv ==
  /\ groups \in Seq(Made)
  /\ state = Len(groups) % 5
  /\ ps_state = IF Len(groups) % 5 = 4 THEN 0 ELSE Len(groups) % 5
  /\ rt_state = (Len(groups) \div 5) % 16
  /\ GroupsInPattern

(* One group, or a clock time. *)
LEMMA GroupKeepsPattern ==
  ASSUME GroupsInv, NEW ct \in BOOLEAN, Group(ct)
  PROVE  GroupsInv'
<1> DEFINE n == Len(groups)
<1>1. n \in Nat /\ groups \in Seq(Made)
  BY LenProperties DEF GroupsInv
<1>2. CASE ct
  BY <1>2 DEF Group, GroupsInv, GroupsInPattern, Made
<1>3. CASE ~ ct
  <2> DEFINE g == IF state < 4 THEN <<"0A", ps_state>> ELSE <<"2A", rt_state>>
  <2>1. groups' = Append(groups, g)
    BY <1>3 DEF Group
  <2>2. /\ ps_state' = IF state < 4 THEN (ps_state + 1) % 4 ELSE ps_state
        /\ rt_state' = IF state >= 4 THEN (rt_state + 1) % 16 ELSE rt_state
        /\ state' = (state + 1) % 5
    BY <1>3 DEF Group
  <2>3. /\ state = n % 5
        /\ ps_state = IF n % 5 = 4 THEN 0 ELSE n % 5
        /\ rt_state = (n \div 5) % 16
    BY DEF GroupsInv
  <2> HIDE DEF n
  <2>4. g = IF (n + 1) % 5 = 0 THEN <<"2A", ((n + 1) \div 5 - 1) % 16>>
                               ELSE <<"0A", n % 5>>
    <3>1. n % 5 \in 0 .. 4
      BY <1>1
    <3>2. CASE n % 5 = 4
      <4>1. (n + 1) % 5 = 0 /\ (n + 1) \div 5 - 1 = n \div 5
        BY <1>1, <3>2
      <4> QED BY <2>3, <3>2, <4>1
    <3>3. CASE n % 5 < 4
      <4>1. (n + 1) % 5 # 0
        BY <1>1, <3>3
      <4> QED BY <2>3, <3>1, <3>3, <4>1
    <3> QED BY <3>1, <3>2, <3>3
  <2>5. g \in Made
    <3>1. n % 5 \in Int /\ ((n + 1) \div 5 - 1) % 16 \in Int
      BY <1>1
    <3> QED BY <2>4, <3>1 DEF Made
  <2> HIDE DEF g
  <2> USE DEF n
  <2>6. /\ groups' \in Seq(Made)
        /\ Len(groups') = n + 1
        /\ \A i \in 1 .. n + 1 : groups'[i] = IF i = n + 1 THEN g ELSE groups[i]
    BY <1>1, <2>1, <2>5, AppendProperties
  <2> HIDE DEF n
  <2>7. state' = (n + 1) % 5
    BY <1>1, <2>2, <2>3
  <2>8. ps_state' = IF (n + 1) % 5 = 4 THEN 0 ELSE (n + 1) % 5
    BY <1>1, <2>2, <2>3
  <2>9. rt_state' = ((n + 1) \div 5) % 16
    BY <1>1, <2>2, <2>3
  <2>10. GroupsInPattern'
    <3>1. \A i \in 1 .. n : i % 5 = 0 \/ groups[i] = <<"0A", (i - 1) % 5>>
      BY DEF GroupsInv, GroupsInPattern, n
    <3>2. \A i \in 1 .. n :
            i % 5 = 0 => groups[i] = <<"2A", (i \div 5 - 1) % 16>>
      BY DEF GroupsInv, GroupsInPattern, n
    <3>3. (n + 1) - 1 = n
      BY <1>1
    <3>4. \A i \in 1 .. n + 1 : i = n + 1 \/ i \in 1 .. n
      BY <1>1
    <3> QED BY <2>4, <2>6, <3>1, <3>2, <3>3, <3>4 DEF GroupsInPattern
  <2> QED BY <2>6, <2>7, <2>8, <2>9, <2>10 DEF GroupsInv
<1> QED BY <1>2, <1>3

(* THEOREM: the groups of a program of any length come in the pattern that *)
(* get_rds_group's comment describes.                                      *)
THEOREM GroupsComeInPattern == Spec => []GroupsInPattern
<1>1. Init => GroupsInv
  <2> SUFFICES ASSUME Init PROVE GroupsInv
    OBVIOUS
  <2>1. state = 0 /\ ps_state = 0 /\ rt_state = 0 /\ groups = <<>>
    BY DEF Init, RdsInit
  <2> QED BY <2>1 DEF GroupsInv, GroupsInPattern
<1>2. GroupsInv /\ [Next]_<<input, target, search, rdsVars>> => GroupsInv'
  <2> SUFFICES ASSUME GroupsInv, [Next]_<<input, target, search, rdsVars>>
               PROVE  GroupsInv'
    OBVIOUS
  <2>1. ASSUME NEW ct \in BOOLEAN, Group(ct) PROVE GroupsInv'
    BY <2>1, GroupKeepsPattern
  <2>2. CASE UNCHANGED groupVars
    BY <2>2 DEF groupVars, GroupsInv, GroupsInPattern
  <2> QED BY <2>1, <2>2 DEF Next, RdsNext, NextBit, SameBit, rdsVars
<1>3. GroupsInv => GroupsInPattern
  BY DEF GroupsInv
<1> QED BY <1>1, <1>2, <1>3, PTL DEF Spec

-----------------------------------------------------------------------------
(* The values of the bits' wave forms that are due at a time, which for    *)
(* the n-th sample put out is n - 1.                                       *)
Place(t, k) == t - 1 - SAMPLES_PER_BIT * (k - 1)

Due(outs, t) ==
  {<<k, Place(t, k), outs[k]>> :
     k \in {i \in 1 .. Len(outs) : Place(t, i) \in 0 .. FILTER_SIZE - 1}}

(* From the cell that is put out next on, the ring holds what is due at    *)
(* the following times.                                                    *)
Holds(buffer, outs, t) ==
  /\ buffer = [c \in Cells |-> buffer[c]]
  /\ \A d \in Cells : buffer[(t - 1 + d) % SAMPLE_BUFFER_SIZE] = Due(outs, t + d)

RingTypes ==
  /\ bits \in Seq({0, 1}) /\ outputs \in Seq({0, 1})
  /\ Len(bits) = Len(outputs)
  /\ cur_output \in {0, 1}
  /\ sample_count \in 1 .. SAMPLES_PER_BIT
  /\ out \in Nat

Counters ==
  /\ out = SAMPLES_PER_BIT * (Len(outputs) - 1) + sample_count
  /\ out_sample_index = (out - 1) % SAMPLE_BUFFER_SIZE
  /\ in_sample_index = (SAMPLES_PER_BIT * Len(outputs)) % SAMPLE_BUFFER_SIZE

RingInv ==
  /\ RingTypes
  /\ Counters
  /\ Holds(sample_buffer, outputs, out)
  /\ sample = Due(outputs, out - 1)

(* The ring is longer than a wave form. *)
LEMMA RingSize ==
  /\ SAMPLES_PER_BIT \in Nat \ {0} /\ FILTER_SIZE \in Nat \ {0}
  /\ SAMPLE_BUFFER_SIZE \in Nat \ {0}
  /\ SAMPLE_BUFFER_SIZE = SAMPLES_PER_BIT + FILTER_SIZE
BY RdsAssumption DEF SAMPLE_BUFFER_SIZE

(* Putting a sample out takes what is due and leaves what is due later:    *)
(* the cell it has cleared is a wave form away from every bit so far.      *)
LEMMA PutOutTakesDue ==
  ASSUME NEW buffer, NEW outs \in Seq({0, 1}), NEW t \in Nat, out = t,
         out_sample_index = (t - 1) % SAMPLE_BUFFER_SIZE,
         SAMPLES_PER_BIT * (Len(outs) - 1) <= t,
         Holds(buffer, outs, t), PutOut(buffer)
  PROVE  /\ sample' = Due(outs, t)
         /\ Holds(sample_buffer', outs, t + 1)
         /\ out' = t + 1
         /\ out_sample_index' = t % SAMPLE_BUFFER_SIZE
<1> DEFINE N == SAMPLE_BUFFER_SIZE
           S == SAMPLES_PER_BIT
           here == (t - 1) % N
<1>1. /\ N \in Nat \ {0} /\ S \in Nat \ {0} /\ FILTER_SIZE \in Nat \ {0}
      /\ N = S + FILTER_SIZE /\ Cells = 0 .. N - 1
  BY RingSize DEF Cells
<1> HIDE DEF N, S
<1>2. here \in Cells
  <2> DEFINE a == t - 1
  <2>1. a \in Int
    OBVIOUS
  <2> HIDE DEF a
  <2>2. a % N \in 0 .. N - 1
    BY ONLY <1>1, <2>1, ModDef
  <2> QED BY <1>1, <2>2 DEF a
<1>3. /\ sample' = buffer[here]
      /\ sample_buffer' = [buffer EXCEPT ![here] = {}]
      /\ out_sample_index' = (here + 1) % N
      /\ out' = t + 1
  BY DEF PutOut, N
<1>4. /\ buffer = [c \in Cells |-> buffer[c]]
      /\ \A d \in Cells : buffer[(t - 1 + d) % N] = Due(outs, t + d)
  BY DEF Holds, N
<1>5. sample' = Due(outs, t)
  <2>1. 0 \in Cells /\ t - 1 + 0 = t - 1 /\ t + 0 = t
    BY <1>1
  <2> QED BY <1>3, <1>4, <2>1
<1>6. out_sample_index' = t % N
  <2>1. here % N = (t - 1) % N
    BY <1>1, <1>2, ModSmall
  <2> DEFINE a == t - 1
  <2>2. a \in Int /\ here \in Int /\ a + 1 = t
    BY <1>1, <1>2
  <2>3. here % N = a % N
    BY <2>1
  <2> HIDE DEF a, here
  <2>4. (here + 1) % N = (a + 1) % N
    <3> DEFINE one == 1
    <3>1. one \in Int
      OBVIOUS
    <3> HIDE DEF one
    <3>2. (here + one) % N = (a + one) % N
      BY ONLY <1>1, <2>2, <2>3, <3>1, ModAdd
    <3> QED BY <3>2 DEF one
  <2> QED BY <1>3, <2>2, <2>4 DEF here
<1>7. ASSUME NEW d \in Cells
      PROVE  sample_buffer'[(t + d) % N] = Due(outs, (t + 1) + d)
  <2>1. d \in Int /\ (t + 1) + d = t + (d + 1) /\ t + d = (t - 1) + (d + 1)
    BY <1>1
  <2>2. CASE d = N - 1
    <3>1. (t + d) % N = here
      <4> DEFINE a == t - 1
      <4>1. t + d = a + N /\ a \in Int
        BY <1>1, <2>2
      <4> HIDE DEF a
      <4>2. (a + N) % N = a % N
        BY <1>1, <4>1, ModTurn
      <4> QED BY <4>1, <4>2 DEF a
    <3>2. sample_buffer'[here] = {}
      BY <1>2, <1>3, <1>4
    <3>3. Due(outs, t + N) = {}
      <4>1. ASSUME NEW i \in 1 .. Len(outs)
            PROVE  Place(t + N, i) \notin 0 .. FILTER_SIZE - 1
        <5>1. Len(outs) \in Nat /\ i \in Int
          BY LenProperties
        <5>2. S * (i - 1) <= S * (Len(outs) - 1)
          BY <1>1, <5>1
        <5>3. S * (i - 1) \in Int /\ S * (i - 1) <= t
          BY <1>1, <5>1, <5>2 DEF S
        <5>4. Place(t + N, i) = (t + N) - 1 - S * (i - 1)
          BY Zenon DEF Place, S
        <5> QED BY <1>1, <5>3, <5>4
      <4> QED BY <4>1 DEF Due
    <3>4. (t + 1) + d = t + N
      BY <1>1, <2>2
    <3> QED BY ONLY <3>1, <3>2, <3>3, <3>4
  <2>3. CASE d # N - 1
    <3>1. d + 1 \in Cells
      BY <1>1, <2>3
    <3>2. buffer[(t + d) % N] = Due(outs, (t + 1) + d)
      BY <1>4, <2>1, <3>1
    <3>3. (t + d) % N # here /\ (t + d) % N \in Cells
      <4> DEFINE a == t - 1
                 b == t + d
      <4>1. a \in Int /\ b \in Int /\ a # b /\ a - b < N /\ b - a < N
        BY <1>1, <2>1, <3>1
      <4> HIDE DEF a, b
      <4>2. b % N \in 0 .. N - 1
        BY <1>1, <4>1, ModDef
      <4>3. a % N # b % N
        BY <1>1, <4>1, ModClose
      <4> QED BY <1>1, <4>2, <4>3 DEF a, b
    <3> QED BY <1>3, <1>4, <3>2, <3>3
  <2> QED BY <2>2, <2>3
<1>8. sample_buffer' = [c \in Cells |-> sample_buffer'[c]]
  BY <1>2, <1>3, <1>4
<1>9. Holds(sample_buffer', outs, t + 1)
  <2>1. ASSUME NEW d \in Cells
        PROVE  sample_buffer'[((t + 1) - 1 + d) % N] = Due(outs, (t + 1) + d)
    <3>1. (t + 1) - 1 + d = t + d
      BY <1>1
    <3> QED BY <1>7, <3>1
  <2> QED BY <1>8, <2>1 DEF Holds, N
<1> QED BY <1>3, <1>5, <1>6, <1>9 DEF N

(* A bit's wave form is added where it is due, at the times that follow.   *)
LEMMA AddedIsDue ==
  ASSUME NEW v \in {0, 1}, NEW t \in Nat, outputs \in Seq({0, 1}),
         t = SAMPLES_PER_BIT * Len(outputs),
         in_sample_index = t % SAMPLE_BUFFER_SIZE,
         Holds(sample_buffer, outputs, t)
  PROVE  Holds(Added(Len(outputs) + 1, v), Append(outputs, v), t)
<1> DEFINE N == SAMPLE_BUFFER_SIZE
           F == FILTER_SIZE
           n == Len(outputs) + 1
           new == Append(outputs, v)
           At(c) == {k \in 0 .. F - 1 : (in_sample_index + k) % N = c}
<1>1. /\ N \in Nat \ {0} /\ F \in Nat \ {0} /\ F < N /\ Cells = 0 .. N - 1
      /\ in_sample_index = t % N
  BY RingSize DEF Cells
<1>2. n \in Nat \ {0} /\ SAMPLES_PER_BIT * (n - 1) = t
  BY LenProperties
<1>3. /\ Len(new) = n /\ new[n] = v
      /\ \A i \in 1 .. n : i = n \/ i \in 1 .. Len(outputs)
      /\ \A i \in 1 .. Len(outputs) : i \in 1 .. n /\ new[i] = outputs[i]
  BY LenProperties
<1>4. Added(n, v) = [c \in Cells |-> sample_buffer[c] \cup
                                       {<<n, j, v>> : j \in At(c)}]
  BY DEF Added, N, F
<1> HIDE DEF N, F, n, new
<1>5. ASSUME NEW d \in Cells
      PROVE  Added(n, v)[(t - 1 + d) % N] = Due(new, t + d)
  <2> DEFINE c == (t - 1 + d) % N
  <2>1. d \in 0 .. N - 1 /\ d \in Int /\ t - 1 + d \in Int
    BY <1>1
  <2>2. c \in Cells
    <3> DEFINE a == t - 1 + d
    <3>1. a \in Int
      BY <2>1
    <3> HIDE DEF a
    <3>2. a % N \in 0 .. N - 1
      BY ONLY <1>1, <3>1, ModDef
    <3> QED BY <1>1, <3>2 DEF a
  <2>3. sample_buffer[c] = Due(outputs, t + d)
    BY DEF Holds, N
  <2>4. ASSUME NEW j \in 0 .. F - 1
        PROVE  (in_sample_index + j) % N = c <=> j = d - 1
    <3> DEFINE r == t % N
               a == t + j
               b == t - 1 + d
    <3>1. r \in 0 .. N - 1 /\ r \in Int /\ a \in Int /\ b \in Int /\ j \in Int
      <4>1. N \in Nat \ {0} /\ t \in Int
        BY <1>1
      <4>2. r \in 0 .. N - 1
        BY ONLY <4>1, ModDef
      <4>3. r \in Int
        BY ONLY <4>1, <4>2
      <4> QED BY <1>1, <2>1, <4>2, <4>3
    <3>2. r % N = r
      <4>1. N \in Nat \ {0} /\ r \in 0 .. N - 1
        BY <1>1, <3>1
      <4> HIDE DEF r
      <4> QED BY ONLY <4>1, ModSmall
    <3>3. (r + j) % N = a % N
      <4>1. r \in Int /\ t \in Int /\ r % N = t % N
        BY <1>1, <3>1, <3>2
      <4> HIDE DEF r
      <4>2. (r + j) % N = (t + j) % N
        BY ONLY <1>1, <3>1, <4>1, ModAdd
      <4> QED BY <4>2
    <3>4. a = b <=> j = d - 1
      BY ONLY <3>1, t \in Nat, <2>1
    <3>5. a - b < N /\ b - a < N
      BY ONLY <1>1, <2>1, j \in 0 .. F - 1, t \in Nat
    <3> HIDE DEF a, b
    <3>6. a % N = b % N => a = b
      BY ONLY <1>1, <3>1, <3>5, ModClose
    <3>7. in_sample_index + j = r + j /\ c = b % N
      BY <1>1 DEF b
    <3> QED BY <3>3, <3>4, <3>6, <3>7
  <2>5. At(c) = {d - 1} \cap (0 .. F - 1)
    BY <2>4
  <2>6. Due(new, t + d) =
          Due(outputs, t + d) \cup {<<n, j, v>> : j \in {d - 1} \cap (0 .. F - 1)}
    <3>1. Place(t + d, n) = d - 1
      <4>1. Place(t + d, n) = (t + d) - 1 - SAMPLES_PER_BIT * (n - 1)
        BY DEF Place
      <4> QED BY <1>2, <2>1, <4>1
    <3>2. ASSUME NEW x
          PROVE  x \in Due(new, t + d) <=>
                   \/ x \in Due(outputs, t + d)
                   \/ x = <<n, d - 1, v>> /\ d - 1 \in 0 .. F - 1
      <4> DEFINE P(i) == Place(t + d, i)
      <4>1. x \in Due(new, t + d) <=>
              \E i \in 1 .. n : P(i) \in 0 .. F - 1 /\ x = <<i, P(i), new[i]>>
        BY <1>3 DEF Due, F
      <4>2. x \in Due(outputs, t + d) <=>
              \E i \in 1 .. Len(outputs) :
                P(i) \in 0 .. F - 1 /\ x = <<i, P(i), outputs[i]>>
        BY DEF Due, F
      <4>3. P(n) = d - 1 /\ n \in 1 .. n
        BY <1>2, <3>1
      <4> HIDE DEF P
      <4> QED BY <1>3, <4>1, <4>2, <4>3
    <3> QED BY <3>2
  <2> HIDE DEF At, c
  <2>7. Added(n, v)[c] = sample_buffer[c] \cup {<<n, j, v>> : j \in At(c)}
    BY <1>4, <2>2
  <2> QED BY <2>3, <2>5, <2>6, <2>7 DEF c
<1>6. Added(n, v) = [c \in Cells |-> Added(n, v)[c]]
  BY <1>4
<1> QED BY <1>5, <1>6 DEF Holds, N, n, new

(* The next bit. *)
LEMMA NextBitKeepsRing == RingInv /\ NextBit => RingInv'
<1> SUFFICES ASSUME RingInv, NextBit PROVE RingInv'
  OBVIOUS
<1> DEFINE S == SAMPLES_PER_BIT
           n == Len(outputs)
           v == cur_output'
<1>1. S \in Nat \ {0} /\ n \in Nat /\ outputs \in Seq({0, 1})
      /\ bits \in Seq({0, 1}) /\ Len(bits) = n /\ out \in Nat
      /\ sample_count \in 1 .. S
  BY RingSize, LenProperties DEF RingInv, RingTypes
<1>2. PICK bit \in {0, 1} : bits' = Append(bits, bit) /\ v = Encode(bit)
  BY DEF NextBit
<1>3. v \in {0, 1}
  BY <1>2 DEF Encode
<1>4. /\ sample_count >= S /\ sample_count' = 1
      /\ outputs' = Append(outputs, v)
      /\ in_sample_index' = (in_sample_index + S) % SAMPLE_BUFFER_SIZE
      /\ PutOut(Added(Len(bits'), v))
  BY DEF NextBit
<1>5. /\ outputs' \in Seq({0, 1}) /\ Len(outputs') = n + 1
      /\ bits' \in Seq({0, 1}) /\ Len(bits') = n + 1
  BY <1>1, <1>2, <1>3, <1>4, AppendProperties
<1>6. sample_count = S
  BY <1>1, <1>4
<1>7. out = S * (n - 1) + S /\ out_sample_index = (out - 1) % SAMPLE_BUFFER_SIZE
      /\ in_sample_index = (S * n) % SAMPLE_BUFFER_SIZE
  BY <1>6 DEF RingInv, Counters
<1>8. S * (n - 1) + S = S * n /\ S * n + S = S * (n + 1) /\ S * n \in Int
  BY <1>1
<1>9. out = S * n
  BY <1>7, <1>8
<1>10. Holds(Added(n + 1, v), Append(outputs, v), out)
  <2>1. Holds(sample_buffer, outputs, out)
    BY DEF RingInv
  <2>2. in_sample_index = out % SAMPLE_BUFFER_SIZE
    BY <1>7, <1>9
  <2> HIDE DEF v
  <2> QED BY ONLY <1>1, <1>3, <1>9, <2>1, <2>2, AddedIsDue
<1>11. /\ sample' = Due(outputs', out)
       /\ Holds(sample_buffer', outputs', out + 1)
       /\ out' = out + 1
       /\ out_sample_index' = out % SAMPLE_BUFFER_SIZE
  <2> DEFINE buffer == Added(n + 1, v)
             outs == Append(outputs, v)
             t == out
  <2>1. outs \in Seq({0, 1}) /\ Len(outs) = n + 1 /\ outs = outputs'
    BY <1>4, <1>5
  <2>2. (n + 1) - 1 = n
    BY <1>1
  <2>3. S * (Len(outs) - 1) <= out
    BY <1>1, <1>8, <1>9, <2>1, <2>2
  <2>4. PutOut(buffer)
    BY <1>4, <1>5
  <2>5. Holds(buffer, outs, out)
    BY <1>10
  <2> HIDE DEF buffer, outs
  <2>6. /\ sample' = Due(outs, out)
        /\ Holds(sample_buffer', outs, out + 1)
        /\ out' = out + 1
        /\ out_sample_index' = out % SAMPLE_BUFFER_SIZE
    BY ONLY <1>1, <1>7, <2>1, <2>3, <2>4, <2>5, PutOutTakesDue, Zenon
  <2> QED BY <2>1, <2>6
<1>12. RingTypes'
  BY <1>1, <1>3, <1>4, <1>5, <1>11 DEF RingTypes
<1>13. in_sample_index' = (S * (n + 1)) % SAMPLE_BUFFER_SIZE
  <2> DEFINE N == SAMPLE_BUFFER_SIZE
             a == S * n
             r == a % N
  <2>1. N \in Nat \ {0} /\ a \in Int /\ S \in Int
    BY <1>1, <1>8, RingSize
  <2> HIDE DEF N, a
  <2>2. r \in 0 .. N - 1 /\ r \in Int
    BY <2>1, ModDef
  <2>3. r % N = a % N
    BY <2>1, <2>2, ModSmall
  <2> HIDE DEF r, S
  <2>4. (r + S) % N = (a + S) % N
    BY ONLY <2>1, <2>2, <2>3, ModAdd
  <2> QED BY <1>4, <1>7, <1>8, <2>4 DEF N, a, r, S
<1>14. Counters'
  <2>1. out' = S * (Len(outputs') - 1) + sample_count'
    BY <1>1, <1>4, <1>5, <1>8, <1>9, <1>11
  <2>2. out' - 1 = out
    BY <1>1, <1>11
  <2> QED BY <1>5, <1>11, <1>13, <2>1, <2>2 DEF Counters
<1> QED BY <1>1, <1>11, <1>12, <1>14 DEF RingInv

(* A further sample of the same bit. *)
LEMMA SameBitKeepsRing == RingInv /\ SameBit => RingInv'
<1> SUFFICES ASSUME RingInv, SameBit PROVE RingInv'
  OBVIOUS
<1> DEFINE S == SAMPLES_PER_BIT
           n == Len(outputs)
<1>1. S \in Nat \ {0} /\ n \in Nat /\ outputs \in Seq({0, 1}) /\ out \in Nat
      /\ sample_count \in 1 .. S
  BY RingSize, LenProperties DEF RingInv, RingTypes
<1>2. /\ sample_count < S /\ sample_count' = sample_count + 1
      /\ PutOut(sample_buffer)
      /\ UNCHANGED <<cur_output, in_sample_index, bits, outputs>>
  BY DEF SameBit
<1>3. /\ out = S * (n - 1) + sample_count
      /\ out_sample_index = (out - 1) % SAMPLE_BUFFER_SIZE
      /\ in_sample_index = (S * n) % SAMPLE_BUFFER_SIZE
      /\ Holds(sample_buffer, outputs, out)
  BY DEF RingInv, Counters
<1>4. S * (n - 1) <= out
  <2>1. S * (n - 1) \in Int
    BY <1>1
  <2> QED BY <1>1, <1>3, <2>1
<1>5. /\ sample' = Due(outputs, out)
      /\ Holds(sample_buffer', outputs, out + 1)
      /\ out' = out + 1
      /\ out_sample_index' = out % SAMPLE_BUFFER_SIZE
  BY ONLY <1>1, <1>2, <1>3, <1>4, PutOutTakesDue, Zenon
<1>6. out' - 1 = out
  BY <1>1, <1>5
<1>7. RingTypes'
  BY <1>1, <1>2, <1>5 DEF RingInv, RingTypes
<1>8. Counters'
  <2>1. S * (n - 1) \in Int
    BY <1>1
  <2>2. out' = S * (n - 1) + sample_count'
    BY <1>1, <1>2, <1>3, <1>5, <2>1
  <2> QED BY <1>2, <1>3, <1>5, <1>6, <2>2 DEF Counters
<1> QED BY <1>2, <1>5, <1>6, <1>7, <1>8 DEF RingInv

(* THEOREM: for wave forms and bits of every length a sample is the sum of *)
(* the wave forms of all bits that reach to it (get_rds_samples).          *)
THEOREM SamplesDoOverlapAdd == Spec => []SamplesOverlapAdd
<1>1. Init => RingInv
  <2> SUFFICES ASSUME Init PROVE RingInv
    OBVIOUS
  <2> DEFINE S == SAMPLES_PER_BIT
             N == SAMPLE_BUFFER_SIZE
  <2>1. /\ bits = <<>> /\ outputs = <<>> /\ cur_output = 0 /\ out = 0
        /\ sample_count = S /\ in_sample_index = 0
        /\ out_sample_index = N - 1
        /\ sample_buffer = [c \in Cells |-> {}] /\ sample = {}
    BY DEF Init, RdsInit
  <2>2. S \in Nat \ {0} /\ N \in Nat \ {0} /\ Cells = 0 .. N - 1
    BY RingSize DEF Cells
  <2>3. RingTypes
    BY <2>1, <2>2 DEF RingTypes
  <2> HIDE DEF N
  <2>4. Len(outputs) = 0
    BY <2>1
  <2>5. \A t : Due(outputs, t) = {}
    BY <2>4 DEF Due
  <2>6. Counters
    <3>1. 0 = S * (0 - 1) + S /\ S * 0 = 0 /\ 0 \in 0 .. N - 1
      BY <2>2
    <3>2. 0 % N = 0
      BY <2>2, <3>1, ModSmall
    <3>3. (0 - 1) % N = N - 1
      <4>1. N - 1 \in 0 .. N - 1
        BY <2>2
      <4>2. (N * (-1) + (N - 1)) % N = N - 1
        BY <2>2, <4>1, ModUnique
      <4>3. N * (-1) + (N - 1) = 0 - 1
        BY <2>2
      <4> QED BY <4>2, <4>3
    <3> QED BY <2>1, <2>4, <3>1, <3>2, <3>3 DEF Counters, N
  <2>7. Holds(sample_buffer, outputs, out)
    <3>1. ASSUME NEW d \in Cells
          PROVE  sample_buffer[(out - 1 + d) % N] = Due(outputs, out + d)
      <4>1. (out - 1 + d) % N \in Cells
        <5> DEFINE a == out - 1 + d
        <5>1. a \in Int
          BY <2>1, <2>2
        <5> HIDE DEF a
        <5>2. a % N \in 0 .. N - 1
          BY <2>2, <5>1, ModDef
        <5> QED BY <2>2, <5>2 DEF a
      <4> QED BY <2>1, <2>5, <4>1
    <3> QED BY <2>1, <3>1 DEF Holds, N
  <2> QED BY <2>1, <2>3, <2>5, <2>6, <2>7 DEF RingInv
<1>2. RingInv /\ [Next]_<<input, target, search, rdsVars>> => RingInv'
  <2>1. RingInv /\ UNCHANGED rdsVars => RingInv'
    BY DEF rdsVars, ringVars, RingInv, RingTypes, Counters, Holds
  <2> QED BY <2>1, NextBitKeepsRing, SameBitKeepsRing DEF Next, RdsNext
<1>3. RingInv => SamplesOverlapAdd
  <2> SUFFICES ASSUME RingInv PROVE SamplesOverlapAdd
    OBVIOUS
  <2> DEFINE place(k) == out - 2 - SAMPLES_PER_BIT * (k - 1)
  <2>1. \A k \in 1 .. Len(outputs) : Place(out - 1, k) = place(k)
    BY RingSize DEF RingInv, RingTypes, Place
  <2>2. DOMAIN bits = 1 .. Len(outputs)
    BY LenProperties DEF RingInv, RingTypes
  <2>3. sample = Due(outputs, out - 1)
    BY DEF RingInv
  <2> HIDE DEF place
  <2>4. sample = {<<k, place(k), outputs[k]>> :
                    k \in {i \in DOMAIN bits : place(i) \in 0 .. FILTER_SIZE - 1}}
    BY <2>1, <2>2, <2>3 DEF Due
  <2> QED BY <2>4 DEF SamplesOverlapAdd, place
<1> QED BY <1>1, <1>2, <1>3, PTL DEF Spec

-----------------------------------------------------------------------------
(* The n-th pixel's byte of a color, before and after the two halves of    *)
(* every eight bytes are exchanged.                                        *)
Byte == [r |-> 2, g |-> 1, b |-> 0]
Swapped(p) == IF p % 8 < 4 THEN p + 4 ELSE p - 4
Pixel(color, n) == Swapped(3 * n + Byte[color])
Written(value, offset) == (value + offset) % 256

(* The place that the code takes from its tables. *)
CodePlace(color, j) == 24 * (j \div 8) + Places[color][(j % 8) + 1]

(* The tables are that exchange. *)
LEMMA TablesAreSwapped ==
  ASSUME NEW color \in Colors, NEW j \in Nat
  PROVE  CodePlace(color, j) = Pixel(color, j) /\ Pixel(color, j) \in Nat
<1> DEFINE q == j \div 8
           k == j % 8
<1>1. q \in Nat /\ k \in 0 .. 7 /\ j = 8 * q + k
  OBVIOUS
<1>2. CodePlace(color, j) = 24 * q + Places[color][k + 1]
  BY DEF CodePlace
<1> HIDE DEF q, k
<1>3. ASSUME NEW byte \in 0 .. 2
      PROVE  /\ Swapped(3 * j + byte) = 24 * q + Swapped(3 * k + byte)
             /\ Swapped(3 * j + byte) \in Nat
  <2> DEFINE p == 3 * k + byte
  <2>1. p \in 0 .. 23 /\ 3 * j + byte = 8 * (3 * q) + p
    BY <1>1
  <2> HIDE DEF p
  <2>2. (8 * (3 * q) + p) % 8 = p % 8
    BY <1>1, <2>1
  <2>3. p % 8 < 4 \/ p >= 4
    BY <2>1
  <2> QED BY <1>1, <2>1, <2>2, <2>3 DEF Swapped, p
<1>4. CASE color = "r"
  <2>1. Byte[color] = 2 /\ Places[color] = <<6, 1, 12, 15, 10, 21, 16, 19>>
    BY <1>4 DEF Byte, Places
  <2>2. Places[color][k + 1] = Swapped(3 * k + 2)
    BY <1>1, <2>1 DEF Swapped
  <2> QED BY <1>2, <1>3, <2>1, <2>2 DEF Pixel
<1>5. CASE color = "g"
  <2>1. Byte[color] = 1 /\ Places[color] = <<5, 0, 3, 14, 9, 20, 23, 18>>
    BY <1>5 DEF Byte, Places
  <2>2. Places[color][k + 1] = Swapped(3 * k + 1)
    BY <1>1, <2>1 DEF Swapped
  <2> QED BY <1>2, <1>3, <2>1, <2>2 DEF Pixel
<1>6. CASE color = "b"
  <2>1. Byte[color] = 0 /\ Places[color] = <<4, 7, 2, 13, 8, 11, 22, 17>>
    BY <1>6 DEF Byte, Places
  <2>2. Places[color][k + 1] = Swapped(3 * k + 0)
    BY <1>1, <2>1 DEF Swapped
  <2> QED BY <1>2, <1>3, <2>1, <2>2 DEF Pixel
<1> QED BY <1>4, <1>5, <1>6 DEF Colors

(* No two pixels and no two colors share a byte. *)
LEMMA PixelsAreApart ==
  ASSUME NEW c \in Colors, NEW d \in Colors, NEW m \in Nat, NEW n \in Nat,
         Pixel(c, m) = Pixel(d, n)
  PROVE  c = d /\ m = n
<1>1. Byte[c] \in 0 .. 2 /\ Byte[d] \in 0 .. 2 /\ (Byte[c] = Byte[d] => c = d)
  BY DEF Byte, Colors
<1>2. \A p, q \in Nat : Swapped(p) = Swapped(q) => p = q
  BY DEF Swapped
<1>3. 3 * m + Byte[c] \in Nat /\ 3 * n + Byte[d] \in Nat
  BY <1>1
<1>4. 3 * m + Byte[c] = 3 * n + Byte[d]
  BY <1>2, <1>3 DEF Pixel
<1> QED BY <1>1, <1>4

(* A transfer of eight samples a color, or a multiple of it. *)
Transfers(eighths) == [0 .. 24 * eighths - 1 -> 0 .. 255]

(* Buffers that are supplied hold a sample for each pixel. *)
Supplied(in, eighths) == in = <<>> \/ Len(in) = 8 * eighths

(* The bytes of a color are its samples, if there are any, and all others  *)
(* are those of before.                                                    *)
OnlyWritten(eighths, color, in, offset, before, bytes) ==
  \A c \in Colors, n \in 0 .. 8 * eighths - 1 :
    bytes[Pixel(c, n)] = IF c = color /\ in # <<>>
                           THEN Written(in[n + 1], offset)
                           ELSE before[Pixel(c, n)]

(* The bytes of all colors are their samples, or those of before.          *)
AllWritten(eighths, in, offset, before, bytes) ==
  \A c \in Colors, n \in 0 .. 8 * eighths - 1 :
    bytes[Pixel(c, n)] = IF in[c] = <<>> THEN before[Pixel(c, n)]
                         ELSE Written(in[c][n + 1], offset)

(* Every byte is a pixel's, and every pixel's byte is in the transfer. *)
LEMMA PixelsFillTransfer ==
  ASSUME NEW eighths \in Nat
  PROVE  /\ \A p \in 0 .. 24 * eighths - 1 :
              \E c \in Colors, n \in 0 .. 8 * eighths - 1 : p = Pixel(c, n)
         /\ \A c \in Colors, n \in 0 .. 8 * eighths - 1 :
              Pixel(c, n) \in 0 .. 24 * eighths - 1
<1> DEFINE size == 24 * eighths
<1>1. \A s \in 0 .. size - 1 : Swapped(s) \in 0 .. size - 1
                                /\ Swapped(Swapped(s)) = s
  BY DEF Swapped
<1>2. ASSUME NEW p \in 0 .. size - 1
      PROVE  \E c \in Colors, n \in 0 .. 8 * eighths - 1 : p = Pixel(c, n)
  <2> DEFINE s == Swapped(p)
             n == s \div 3
             byte == s % 3
  <2>1. s \in 0 .. size - 1 /\ Swapped(s) = p
    BY <1>1
  <2> HIDE DEF s
  <2>2. n \in 0 .. 8 * eighths - 1 /\ byte \in 0 .. 2 /\ s = 3 * n + byte
    BY <2>1
  <2> HIDE DEF n, byte
  <2>3. \E c \in Colors : Byte[c] = byte
    <3>1. Byte["r"] = 2 /\ Byte["g"] = 1 /\ Byte["b"] = 0
          /\ "r" \in Colors /\ "g" \in Colors /\ "b" \in Colors
      BY DEF Byte, Colors
    <3> QED BY <2>2, <3>1
  <2> QED BY <2>1, <2>2, <2>3 DEF Pixel
<1>3. ASSUME NEW c \in Colors, NEW n \in 0 .. 8 * eighths - 1
      PROVE  Pixel(c, n) \in 0 .. size - 1
  <2>1. Byte[c] \in 0 .. 2
    BY DEF Byte, Colors
  <2>2. 3 * n + Byte[c] \in 0 .. size - 1
    BY <2>1
  <2> QED BY <1>1, <2>2 DEF Pixel
<1> QED BY <1>2, <1>3

(* THEOREM: the conversion of a color writes each sample to its pixel's    *)
(* byte, in a transfer of any length; without a buffer it writes nothing,  *)
(* and never another color's bytes (fl2k_convert_r, fl2k_convert_g,        *)
(* fl2k_convert_b).                                                        *)
THEOREM ConversionPlacesPixels ==
  ASSUME NEW eighths \in Nat, NEW color \in Colors, NEW in \in Seq(Int),
         NEW offset \in Int, NEW before \in Transfers(eighths),
         Supplied(in, eighths),
         NEW bytes, bytes = fl2k_convert(color, before, in, offset)
  PROVE  /\ bytes \in Transfers(eighths)
         /\ OnlyWritten(eighths, color, in, offset, before, bytes)
<1> USE DEF Supplied, OnlyWritten
<1>1. CASE in = <<>>
  BY <1>1 DEF fl2k_convert
<1>2. CASE in # <<>>
  <2> DEFINE js == 0 .. Len(in) - 1
             D == 0 .. 24 * eighths - 1
             Is(p) == \E j \in js : CodePlace(color, j) = p
             Chosen(p) == CHOOSE j \in js : CodePlace(color, j) = p
             Value(p) == IF Is(p) THEN (in[Chosen(p) + 1] + offset) % 256
                                  ELSE before[p]
  <2>1. bytes = [p \in D |-> Value(p)]
    BY <1>2 DEF fl2k_convert, CodePlace, Transfers
  <2>2. Len(in) = 8 * eighths /\ js = 0 .. 8 * eighths - 1
    BY <1>2
  <2>3. \A j \in js : j \in Nat /\ CodePlace(color, j) = Pixel(color, j)
    BY TablesAreSwapped
  <2>4. ASSUME NEW j \in js PROVE (in[j + 1] + offset) % 256 \in 0 .. 255
    <3> DEFINE x == in[j + 1] + offset
    <3>1. x \in Int
      BY LenProperties
    <3> HIDE DEF x
    <3>2. x % 256 \in 0 .. 255
      BY <3>1
    <3> QED BY <3>2 DEF x
  <2>5. ASSUME NEW p \in D PROVE Value(p) \in 0 .. 255
    <3>1. CASE Is(p)
      <4>1. Chosen(p) \in js
        BY <3>1
      <4> HIDE DEF Chosen, js
      <4> QED BY <2>4, <3>1, <4>1
    <3>2. CASE ~Is(p)
      BY <3>2 DEF Transfers
    <3> QED BY <3>1, <3>2
  <2>6. ASSUME NEW n \in js
        PROVE  Value(Pixel(color, n)) = Written(in[n + 1], offset)
    <3>1. CodePlace(color, n) = Pixel(color, n)
      BY <2>3
    <3>2. \A j \in js : CodePlace(color, j) = Pixel(color, n) => j = n
      BY <2>3, PixelsAreApart
    <3> HIDE DEF js
    <3>3. Is(Pixel(color, n)) /\ Chosen(Pixel(color, n)) = n
      BY <3>1, <3>2
    <3> QED BY <3>3 DEF Written
  <2>7. ASSUME NEW c \in Colors, NEW n \in js, c # color
        PROVE  Value(Pixel(c, n)) = before[Pixel(c, n)]
    <3>1. \A j \in js : Pixel(color, j) # Pixel(c, n)
      BY <2>3, <2>7, PixelsAreApart
    <3>2. ~Is(Pixel(c, n))
      BY <2>3, <3>1
    <3> QED BY <3>2
  <2> HIDE DEF Value, D
  <2>8. bytes \in [D -> 0 .. 255]
    BY ONLY <2>1, <2>5
  <2>9. ASSUME NEW c \in Colors, NEW n \in 0 .. 8 * eighths - 1
        PROVE  bytes[Pixel(c, n)] = Value(Pixel(c, n))
    <3>1. Pixel(c, n) \in D
      BY PixelsFillTransfer DEF D
    <3> QED BY <2>1, <3>1
  <2> QED BY <1>2, <2>2, <2>6, <2>7, <2>8, <2>9 DEF Transfers, D
<1> QED BY <1>1, <1>2

(* THEOREM: after the three conversions every byte of a transfer is the    *)
(* sample of its color and pixel, if the application has supplied a buffer *)
(* for the color.  If not, and only then, it is the byte that an older     *)
(* block has left there (fl2k_sample_worker).                              *)
THEOREM BytesOfTransfer ==
  ASSUME NEW eighths \in Nat, NEW before \in Transfers(eighths),
         NEW in \in [Colors -> Seq(Int)], NEW offset \in Int,
         \A c \in Colors : Supplied(in[c], eighths),
         NEW bytes, bytes = Converted(before, in, offset)
  PROVE  /\ bytes \in Transfers(eighths)
         /\ AllWritten(eighths, in, offset, before, bytes)
         /\ \A p \in 0 .. 24 * eighths - 1 :
              \E c \in Colors, n \in 0 .. 8 * eighths - 1 :
                /\ p = Pixel(c, n)
                /\ bytes[p] = IF in[c] = <<>> THEN before[p]
                              ELSE Written(in[c][n + 1], offset)
<1> DEFINE To(color, from) == fl2k_convert(color, from, in[color], offset)
           one == To("r", before)
           two == To("g", one)
           ns == 0 .. 8 * eighths - 1
           T == Transfers(eighths)
<1>1. bytes = To("b", two)
  BY DEF Converted
<1>2. ASSUME NEW color \in Colors, NEW from \in T
      PROVE  /\ To(color, from) \in T
             /\ \A c \in Colors, n \in ns :
                  To(color, from)[Pixel(c, n)] =
                    IF c = color /\ in[color] # <<>>
                      THEN Written(in[color][n + 1], offset)
                      ELSE from[Pixel(c, n)]
  <2> DEFINE samples == in[color]
             to == To(color, from)
  <2>1. /\ samples \in Seq(Int) /\ to = fl2k_convert(color, from, samples, offset)
        /\ Supplied(samples, eighths)
    OBVIOUS
  <2> HIDE DEF samples, to, To
  <2>2. /\ to \in Transfers(eighths)
        /\ OnlyWritten(eighths, color, samples, offset, from, to)
    <3>1. from \in Transfers(eighths) /\ eighths \in Nat /\ offset \in Int
      OBVIOUS
    <3> QED BY ONLY <2>1, <3>1, color \in Colors, ConversionPlacesPixels,
               ZenonT(60)
  <2> QED BY <2>2 DEF samples, to, OnlyWritten
<1> HIDE DEF To, T, ns
<1>3. "r" \in Colors /\ "g" \in Colors /\ "b" \in Colors
  BY DEF Colors
<1>4. before \in T /\ one \in T /\ two \in T /\ bytes \in T
  BY <1>1, <1>2, <1>3 DEF T
<1>5. ASSUME NEW c \in Colors, NEW n \in ns
      PROVE  bytes[Pixel(c, n)] = IF in[c] = <<>> THEN before[Pixel(c, n)]
                                  ELSE Written(in[c][n + 1], offset)
  <2>1. one[Pixel(c, n)] = IF c = "r" /\ in["r"] # <<>>
                             THEN Written(in["r"][n + 1], offset)
                             ELSE before[Pixel(c, n)]
    BY <1>2, <1>3, <1>4
  <2> HIDE DEF one
  <2>2. two[Pixel(c, n)] = IF c = "g" /\ in["g"] # <<>>
                             THEN Written(in["g"][n + 1], offset)
                             ELSE one[Pixel(c, n)]
    BY <1>2, <1>3, <1>4
  <2> HIDE DEF two
  <2>3. bytes[Pixel(c, n)] = IF c = "b" /\ in["b"] # <<>>
                               THEN Written(in["b"][n + 1], offset)
                               ELSE two[Pixel(c, n)]
    BY <1>1, <1>2, <1>3, <1>4
  <2>4. CASE c = "r"
    BY <2>1, <2>2, <2>3, <2>4
  <2>5. CASE c = "g"
    BY <2>1, <2>2, <2>3, <2>5
  <2>6. CASE c = "b"
    BY <2>1, <2>2, <2>3, <2>6
  <2> QED BY <2>4, <2>5, <2>6 DEF Colors
<1>6. ASSUME NEW p \in 0 .. 24 * eighths - 1
      PROVE  \E c \in Colors, n \in ns : p = Pixel(c, n)
  BY PixelsFillTransfer DEF ns
<1> QED BY <1>4, <1>5, <1>6 DEF T, ns, AllWritten

(* A function on 1 .. n is a sequence of length n. *)
LEMMA SequenceOfLength ==
  ASSUME NEW S, NEW n \in Nat, NEW s \in [1 .. n -> S]
  PROVE  s \in Seq(S) /\ Len(s) = n
<1>1. s \in Seq(S)
  BY SeqDef
<1>2. Len(s) \in Nat /\ 1 .. Len(s) = 1 .. n
  BY <1>1, LenProperties
<1> QED BY <1>1, <1>2

(* THEOREM: in particular, the run's frame is converted in place. *)
THEOREM PixelsHaveTheirPlace == Spec => []PixelsInPlace
<1>1. ASSUME input.kind = "frame" PROVE PixelsInPlace
  <2> DEFINE samples == [r |-> [n \in 1 .. 16 |-> n - 128],
                         g |-> [n \in 1 .. 16 |-> n],
                         b |-> [n \in 1 .. 16 |-> 112 + n - 1]]
             in == [c \in Colors |->
                      IF c \in input.channels THEN samples[c] ELSE <<>>]
             old == [p \in 0 .. 47 |-> p]
             bytes == Converted(old, in, 128)
             S == -128 .. 127
  <2>1. ASSUME NEW c \in Colors
        PROVE  /\ samples[c] \in Seq(Int) /\ Len(samples[c]) = 16
               /\ \A n \in 0 .. 15 : samples[c][n + 1] \in S
    <3>1. /\ [n \in 1 .. 16 |-> n - 128] \in [1 .. 16 -> S]
          /\ [n \in 1 .. 16 |-> n] \in [1 .. 16 -> S]
          /\ [n \in 1 .. 16 |-> 112 + n - 1] \in [1 .. 16 -> S]
      OBVIOUS
    <3>2. /\ samples["r"] \in [1 .. 16 -> S]
          /\ samples["g"] \in [1 .. 16 -> S]
          /\ samples["b"] \in [1 .. 16 -> S]
      BY <3>1
    <3> HIDE DEF samples
    <3>3. samples[c] \in [1 .. 16 -> S]
      BY ONLY <3>2, c \in Colors DEF Colors
    <3>4. S \subseteq Int /\ 16 \in Nat
      OBVIOUS
    <3>5. \A n \in 0 .. 15 : n + 1 \in 1 .. 16
      OBVIOUS
    <3> HIDE DEF S
    <3>6. samples[c] \in Seq(S) /\ Len(samples[c]) = 16
      <4> DEFINE s == samples[c]
      <4>1. s \in [1 .. 16 -> S] /\ 16 \in Nat
        BY <3>3
      <4> HIDE DEF s
      <4>2. s \in Seq(S) /\ Len(s) = 16
        BY ONLY <4>1, SequenceOfLength
      <4> QED BY <4>2 DEF s
    <3>7. samples[c] \in Seq(Int)
      BY ONLY <3>4, <3>6, SeqMonotonic
    <3> QED BY <3>3, <3>5, <3>6, <3>7
  <2>2. \A c \in Colors :
          in[c] = IF c \in input.channels THEN samples[c] ELSE <<>>
    OBVIOUS
  <2> HIDE DEF samples
  <2>3. /\ in \in [Colors -> Seq(Int)]
        /\ \A c \in Colors : in[c] = <<>> \/ Len(in[c]) = 16
        /\ \A c \in Colors : c \in input.channels => in[c] # <<>>
    <3>1. <<>> \in Seq(Int) /\ Len(<<>>) = 0
      BY EmptySeq
    <3>2. in = [c \in Colors |-> in[c]]
      OBVIOUS
    <3> HIDE DEF in
    <3>3. ASSUME NEW c \in Colors
          PROVE  /\ in[c] \in Seq(Int)
                 /\ in[c] = <<>> \/ Len(in[c]) = 16
                 /\ c \in input.channels => in[c] # <<>>
      <4>1. CASE c \in input.channels
        <5>1. in[c] = samples[c]
          BY <2>2, <4>1
        <5>2. samples[c] # <<>>
          <6> DEFINE s == samples[c]
                     none == <<>>
          <6>1. Len(s) = 16 /\ Len(none) = 0
            BY <2>1, <3>1
          <6>2. Len(s) # Len(none)
            BY <6>1
          <6> HIDE DEF s, none
          <6>3. s # none
            BY ONLY <6>2, Zenon
          <6> QED BY <6>3 DEF s, none
        <5> QED BY <2>1, <5>1, <5>2
      <4>2. CASE c \notin input.channels
        BY <2>2, <3>1, <4>2
      <4> QED BY <4>1, <4>2
    <3> QED BY ONLY <3>2, <3>3
  <2>4. old \in [0 .. 47 -> 0 .. 255]
    OBVIOUS
  <2>5. /\ 2 \in Nat /\ 24 * 2 - 1 = 47 /\ 8 * 2 = 16 /\ 8 * 2 - 1 = 15
        /\ 128 \in Int
    OBVIOUS
  <2>6. old \in Transfers(2)
    BY <2>4, <2>5 DEF Transfers
  <2> HIDE DEF in, old, bytes
  <2>7. ASSUME NEW c \in Colors, NEW n \in 0 .. 15
        PROVE  bytes[Pixel(c, n)] = IF in[c] = <<>> THEN old[Pixel(c, n)]
                                    ELSE Written(in[c][n + 1], 128)
    <3> DEFINE two == 2
               offset == 128
    <3>1. /\ two \in Nat /\ offset \in Int /\ old \in Transfers(two)
          /\ \A d \in Colors : Supplied(in[d], two)
          /\ bytes = Converted(old, in, offset)
      BY <2>3, <2>5, <2>6 DEF bytes, Supplied
    <3>2. n \in 0 .. 8 * two - 1
      BY <2>5
    <3> HIDE DEF two, offset
    <3>3. AllWritten(two, in, offset, old, bytes)
      BY ONLY <2>3, <3>1, BytesOfTransfer, ZenonT(60)
    <3> QED BY <3>2, <3>3 DEF offset, AllWritten
  <2>8. ASSUME NEW c \in Colors, NEW n \in 0 .. 15
        PROVE  bytes[Pixel(c, n)] = IF c \in input.channels
                                      THEN samples[c][n + 1] + 128
                                      ELSE old[Pixel(c, n)]
    <3>1. CASE c \in input.channels
      <4>1. in[c] # <<>> /\ in[c] = samples[c]
        BY <2>2, <2>3, <3>1
      <4>2. samples[c][n + 1] \in -128 .. 127
        BY <2>1
      <4>3. (samples[c][n + 1] + 128) % 256 = samples[c][n + 1] + 128
        BY <4>2
      <4>4. bytes[Pixel(c, n)] = Written(in[c][n + 1], 128)
        BY <2>7, <4>1
      <4>5. bytes[Pixel(c, n)] = (samples[c][n + 1] + 128) % 256
        BY <4>1, <4>4 DEF Written
      <4> QED BY <3>1, <4>3, <4>5
    <3>2. CASE c \notin input.channels
      BY <2>2, <2>7, <3>2
    <3> QED BY <3>1, <3>2
  <2> QED BY <2>8 DEF PixelsInPlace, Pixel, Swapped, Byte, samples, in, old,
                      bytes
<1>2. PixelsInPlace
  BY <1>1 DEF PixelsInPlace
<1> QED BY <1>2, PTL

-----------------------------------------------------------------------------
(* THEOREM: from 1901 on the day number is larger by a month's length a    *)
(* month later (get_rds_ct_group), with a leap day every four years; with  *)
(* the day number of one date, which the run looks at, every date's is     *)
(* right as far as the Julian calendar's leap years are: until 2100.       *)
THEOREM MonthsHaveTheirLength ==
  ASSUME NEW mon \in 0 .. 11, NEW year \in Nat \ {0}
  PROVE  mjd(1, (mon + 1) % 12, year + (mon + 1) \div 12) =
           mjd(1, mon, year) + Days(mon, year)
<1> DEFINE y == year \div 4
           k == year % 4
<1>1. y \in Nat /\ k \in 0 .. 3 /\ year = 4 * y + k
  OBVIOUS
<1> HIDE DEF y, k
<1>2. /\ (year * 1461) \div 4 = 1461 * y + (k * 1461) \div 4
      /\ ((year - 1) * 1461) \div 4 = 1461 * y + ((k - 1) * 1461) \div 4
  BY <1>1
<1>3. CASE mon = 11
  BY <1>1, <1>2, <1>3 DEF mjd, Days
<1>4. CASE mon \in 2 .. 10
  BY <1>1, <1>2, <1>4 DEF mjd, Days
<1>5. CASE mon \in 0 .. 1
  BY <1>1, <1>2, <1>5 DEF mjd, Days
<1> QED BY <1>3, <1>4, <1>5

-----------------------------------------------------------------------------
(* A bit of a sum of words is that of one of them and not of the other. *)
LEMMA BitOfSum ==
  ASSUME NEW A, NEW B, NEW x
  PROVE  x \in SymDiff(A, B) <=> ~ (x \in A <=> x \in B)
BY DEF SymDiff

(* A bit of a shifted word. *)
LEMMA BitOfShift ==
  ASSUME NEW word \in SUBSET Int, NEW n \in Int, NEW x \in Int
  PROVE  x \in Shl(word, n) <=> x - n \in word
<1>1. ASSUME x - n \in word PROVE \E i \in word : x = i + n
  BY <1>1
<1> QED BY <1>1 DEF Shl

(* Words have no bits below 0. *)
LEMMA SumsAndShifts ==
  ASSUME NEW A \in SUBSET Nat, NEW B \in SUBSET Nat, NEW n \in Nat
  PROVE  SymDiff(A, B) \in SUBSET Nat /\ Shl(A, n) \in SUBSET Nat
BY DEF SymDiff, Shl

(* The shift register of crc after i bits of a block. *)
Shifted(block, c, i) ==
  IF (POLY_DEG - 1 \in c) # (16 - i \in block)
    THEN SymDiff(Shl(c, 1), POLY) ELSE Shl(c, 1)

(* The register is a set of bits. *)
LEMMA ShiftedIsWord ==
  ASSUME NEW block, NEW c \in SUBSET Nat, NEW i \in 1 .. 16
  PROVE  Shifted(block, c, i) \in SUBSET Nat
<1> DEFINE X == SUBSET Nat
<1>1. POLY \in X
  BY DEF POLY
<1>2. Shl(c, 1) \in X
  BY SumsAndShifts
<1>3. SymDiff(Shl(c, 1), POLY) \in X
  BY <1>1, <1>2, SumsAndShifts
<1> HIDE DEF X
<1> QED BY <1>2, <1>3 DEF Shifted, X

(* The recursive function of crc exists: it holds the register after each  *)
(* number of bits, and crc gives the bits that it ends with.               *)
LEMMA CrcSteps ==
  ASSUME NEW block \in SUBSET (0 .. 15)
  PROVE  \E c \in [0 .. 16 -> SUBSET Nat] :
           /\ c[0] = {}
           /\ \A i \in 1 .. 16 : c[i] = Shifted(block, c[i - 1], i)
           /\ crc(block) = {j \in c[16] : j < 16}
<1> DEFINE X == SUBSET Nat
           step == [i \in 1 .. 16 |->
                      [before \in X |-> Shifted(block, before, i)]]
<1>1. step \in [1 .. 16 -> [X -> X]]
  <2>1. \A i \in 1 .. 16, before \in X : Shifted(block, before, i) \in X
    BY ShiftedIsWord
  <2> HIDE DEF X
  <2> QED BY <2>1
<1>2. PICK d \in [0 .. 16 -> X] :
        d[0] = {} /\ \A i \in 1 .. 16 : d[i] = step[i][d[i - 1]]
  <2> DEFINE n == 16
             base == {}
  <2>1. n \in Nat /\ base \in X /\ step \in [1 .. n -> [X -> X]]
    BY <1>1
  <2> HIDE DEF step, X, n, base
  <2>2. \E d \in [0 .. n -> X] :
          MadeAlong(d, n, base, step)
    BY ONLY <2>1, RecursionExists
  <2> QED BY <2>2 DEF MadeAlong, n, base
<1> DEFINE Steps(c) ==
      [i \in 0 .. 16 |->
         IF i = 0 THEN {} ELSE Shifted(block, c[i - 1], i)]
           c == CHOOSE c : c = Steps(c)
<1>3. ASSUME NEW e, e = Steps(e)
      PROVE  e[0] = {} /\ \A i \in 1 .. 16 : e[i] = Shifted(block, e[i - 1], i)
  BY <1>3
<1>4. d = Steps(d)
  <2>1. ASSUME NEW i \in 1 .. 16 PROVE d[i] = Shifted(block, d[i - 1], i)
    <3>1. d[i - 1] \in X /\ d[i] = step[i][d[i - 1]]
      BY <1>2
    <3> HIDE DEF X
    <3> QED BY <3>1
  <2>2. ASSUME NEW i \in 0 .. 16 PROVE d[i] = Steps(d)[i]
    <3>1. i = 0 \/ i \in 1 .. 16
      OBVIOUS
    <3>2. Steps(d)[i] = IF i = 0 THEN {} ELSE Shifted(block, d[i - 1], i)
      OBVIOUS
    <3> HIDE DEF Steps
    <3> QED BY <1>2, <2>1, <3>1, <3>2
  <2> DEFINE e == Steps(d)
  <2>3. e = [i \in 0 .. 16 |-> e[i]] /\ d = [i \in 0 .. 16 |-> d[i]]
    OBVIOUS
  <2> HIDE DEF e
  <2> QED BY <2>2, <2>3 DEF e
<1>5. c = Steps(c)
  BY <1>4
<1>6. c[0] = {} /\ \A i \in 1 .. 16 : c[i] = Shifted(block, c[i - 1], i)
  BY <1>3, <1>5
<1>7. crc(block) = {j \in c[16] : j < 16}
  BY DEF crc, Shifted
<1>8. c \in [0 .. 16 -> SUBSET Nat]
  <2>1. c = [i \in 0 .. 16 |-> c[i]]
    BY <1>5
  <2> HIDE DEF c
  <2> DEFINE Good == {i \in 0 .. 16 : c[i] \in X}
  <2>2. ASSUME NEW i \in 1 .. 16, i - 1 \in Good PROVE i \in Good
    <3>1. c[i - 1] \in X /\ i \in 0 .. 16
      BY <2>2
    <3>2. /\ step[i] \in [X -> X]
          /\ step[i][c[i - 1]] = Shifted(block, c[i - 1], i)
      BY <1>1, <3>1
    <3> HIDE DEF X
    <3> HIDE DEF step
    <3> QED BY <1>6, <3>1, <3>2
  <2>3. 0 \in Good /\ 16 \in Nat
    BY <1>6
  <2> HIDE DEF Good
  <2>4. \A i \in 0 .. 16 : i \in Good
    BY ONLY <2>2, <2>3, Induction
  <2> QED BY <2>1, <2>4 DEF Good
<1> HIDE DEF c
<1> QED BY <1>6, <1>7, <1>8

(* A step of a receiver's division, and the division, as CodewordsDivide   *)
(* has it.                                                                 *)
Divided(word, i) ==
  IF 26 - i \in word
    THEN SymDiff(word, Shl({10, 8, 7, 5, 4, 3, 0}, 16 - i)) ELSE word

Remainder(word) ==
  LET r[i \in 0 .. 16] == IF i = 0 THEN word ELSE Divided(r[i - 1], i)
  IN r[16]

(* The word stays a set of bits. *)
LEMMA DividedIsWord ==
  ASSUME NEW word \in SUBSET Nat, NEW i \in 1 .. 16
  PROVE  Divided(word, i) \in SUBSET Nat
<1> DEFINE X == SUBSET Nat
           g == {10, 8, 7, 5, 4, 3, 0}
<1>1. g \in X /\ 16 - i \in Nat
  OBVIOUS
<1> HIDE DEF g
<1>2. Shl(g, 16 - i) \in X
  BY <1>1, SumsAndShifts
<1>3. SymDiff(word, Shl(g, 16 - i)) \in X
  BY <1>2, SumsAndShifts
<1> HIDE DEF X
<1> QED BY <1>3 DEF Divided, g, X

(* The recursive function of the division exists. *)
LEMMA RemainderSteps ==
  ASSUME NEW word \in SUBSET Nat
  PROVE  \E r : /\ r[0] = word
                /\ \A i \in 1 .. 16 : r[i] = Divided(r[i - 1], i)
                /\ Remainder(word) = r[16]
<1> DEFINE X == SUBSET Nat
           n == 16
           step == [i \in 1 .. n |-> [before \in X |-> Divided(before, i)]]
<1>1. step \in [1 .. n -> [X -> X]]
  <2>1. \A i \in 1 .. 16, before \in X : Divided(before, i) \in X
    BY DividedIsWord
  <2> HIDE DEF X
  <2> QED BY <2>1
<1>2. n \in Nat
  OBVIOUS
<1>3. PICK d \in [0 .. n -> X] : MadeAlong(d, n, word, step)
  <2>1. word \in X
    OBVIOUS
  <2> HIDE DEF step, X, n
  <2> QED BY ONLY <1>1, <1>2, <2>1, RecursionExists
<1> DEFINE Steps(r) ==
      [i \in 0 .. 16 |-> IF i = 0 THEN word ELSE Divided(r[i - 1], i)]
           r == CHOOSE r : r = Steps(r)
<1>4. d = Steps(d)
  <2>1. ASSUME NEW i \in 1 .. 16 PROVE d[i] = Divided(d[i - 1], i)
    <3>1. d[i - 1] \in X /\ d[i] = step[i][d[i - 1]]
      BY <1>3 DEF MadeAlong
    <3> HIDE DEF X
    <3> QED BY <3>1
  <2>2. ASSUME NEW i \in 0 .. 16 PROVE d[i] = Steps(d)[i]
    <3>1. i = 0 \/ i \in 1 .. 16
      OBVIOUS
    <3>2. Steps(d)[i] = IF i = 0 THEN word ELSE Divided(d[i - 1], i)
      OBVIOUS
    <3> HIDE DEF Steps
    <3> QED BY <1>3, <2>1, <3>1, <3>2 DEF MadeAlong
  <2> DEFINE e == Steps(d)
  <2>3. e = [i \in 0 .. 16 |-> e[i]] /\ d = [i \in 0 .. 16 |-> d[i]]
    OBVIOUS
  <2> HIDE DEF e
  <2> QED BY <2>2, <2>3 DEF e
<1>5. r = Steps(r)
  BY <1>4
<1>6. Remainder(word) = r[16]
  BY DEF Remainder
<1> HIDE DEF r
<1>7. r[0] = word /\ \A i \in 1 .. 16 : r[i] = Divided(r[i - 1], i)
  BY <1>5
<1> QED BY <1>6, <1>7

(* What is left of a codeword after i steps: the bits of the block that    *)
(* were not looked at, the shift register that crc has after i bits, in    *)
(* its place, and the check bits.                                          *)
Left(block, c, check, i) ==
  SymDiff(SymDiff(Shl({y \in block : y < 16 - i}, 10),
                  Shl({j \in c : j < 10}, 16 - i)),
          check)

(* It is a set of bits. *)
LEMMA LeftIsWord ==
  ASSUME NEW block \in SUBSET (0 .. 15), NEW c \in SUBSET Nat,
         NEW check \in SUBSET (0 .. 9), NEW i \in 0 .. 16
  PROVE  Left(block, c, check, i) \in SUBSET Nat
<1> DEFINE A == {y \in block : y < 16 - i}
           B == {j \in c : j < 10}
<1>1. A \in SUBSET Nat
  <2>1. \A y \in 0 .. 15 : y \in Nat
    OBVIOUS
  <2> QED BY <2>1, Zenon
<1>2. B \in SUBSET Nat
  OBVIOUS
<1> HIDE DEF A, B
<1>6. check \in SUBSET Nat /\ 10 \in Nat /\ 16 - i \in Nat
  <2>1. \A y \in 0 .. 9 : y \in Nat
    OBVIOUS
  <2>2. check \subseteq Nat
    BY <2>1, Zenon
  <2> QED BY <2>2
<1>3. Shl(A, 10) \in SUBSET Nat /\ Shl(B, 16 - i) \in SUBSET Nat
  BY <1>1, <1>2, <1>6, SumsAndShifts
<1>4. SymDiff(Shl(A, 10), Shl(B, 16 - i)) \in SUBSET Nat
  BY <1>3, SumsAndShifts
<1>5. SymDiff(SymDiff(Shl(A, 10), Shl(B, 16 - i)), check) \in SUBSET Nat
  BY <1>4, <1>6, SumsAndShifts
<1> QED BY <1>5 DEF Left, A, B

(* Which bits these are. *)
InLeft(block, c, check, i, x) ==
  ((x - 10 \in block /\ x - 10 < 16 - i)
    # (x - (16 - i) \in c /\ x - (16 - i) < 10)) # (x \in check)

(* A bit is left exactly if an odd number of the three words has it. *)
LEMMA BitOfLeft ==
  ASSUME NEW block \in SUBSET (0 .. 15), NEW c \in SUBSET Nat,
         NEW check \in SUBSET (0 .. 9), NEW i \in 0 .. 16, NEW x \in Int
  PROVE  x \in Left(block, c, check, i) <=> InLeft(block, c, check, i, x)
<1> DEFINE A == {y \in block : y < 16 - i}
           B == {j \in c : j < 10}
<1>1. A \in SUBSET Int /\ B \in SUBSET Int /\ 10 \in Int /\ 16 - i \in Int
  <2>1. \A y \in 0 .. 15 : y \in Int
    OBVIOUS
  <2>2. \A y \in Nat : y \in Int
    OBVIOUS
  <2>3. A \subseteq Int
    BY <2>1, Zenon
  <2>4. B \subseteq Int
    BY <2>2, Zenon
  <2>5. 10 \in Int /\ 16 - i \in Int
    OBVIOUS
  <2> HIDE DEF A, B
  <2> QED BY <2>3, <2>4, <2>5
<1>2. /\ x - 10 \in A <=> x - 10 \in block /\ x - 10 < 16 - i
      /\ x - (16 - i) \in B <=> x - (16 - i) \in c /\ x - (16 - i) < 10
  OBVIOUS
<1> HIDE DEF A, B
<1>3. /\ x \in Shl(A, 10) <=> x - 10 \in A
      /\ x \in Shl(B, 16 - i) <=> x - (16 - i) \in B
  BY <1>1, BitOfShift
<1>4. Left(block, c, check, i)
        = SymDiff(SymDiff(Shl(A, 10), Shl(B, 16 - i)), check)
  BY DEF Left, A, B
<1>5. x \in Left(block, c, check, i) <=>
        ((x \in Shl(A, 10)) # (x \in Shl(B, 16 - i))) # (x \in check)
  BY <1>4, BitOfSum
<1> QED BY <1>2, <1>3, <1>5 DEF InLeft

(* The division and the shift register keep step with each other. *)
LEMMA DivisionStep ==
  ASSUME NEW block \in SUBSET (0 .. 15), NEW c \in SUBSET Nat,
         NEW check \in SUBSET (0 .. 9), NEW i \in 1 .. 16
  PROVE  Divided(Left(block, c, check, i - 1), i)
           = Left(block, Shifted(block, c, i), check, i)
<1> DEFINE r == Left(block, c, check, i - 1)
           g == {10, 8, 7, 5, 4, 3, 0}
           d == Shifted(block, c, i)
           s == (9 \in c) # (16 - i \in block)
<1>1. r \in SUBSET Nat /\ d \in SUBSET Nat
      /\ Left(block, d, check, i) \in SUBSET Nat
  <2>1. i \in 0 .. 16 /\ i - 1 \in 0 .. 16
    OBVIOUS
  <2>2. d \in SUBSET Nat
    BY ShiftedIsWord
  <2>3. r \in SUBSET Nat
    BY <2>1, LeftIsWord
  <2> HIDE DEF d
  <2>4. Left(block, d, check, i) \in SUBSET Nat
    BY <2>1, <2>2, LeftIsWord
  <2> QED BY <2>2, <2>3, <2>4
<1>2. ASSUME NEW x \in Int
      PROVE  x \in r <=> ((x - 10 \in block /\ x - 10 < 17 - i)
                            # (x - (16 - i) - 1 \in c /\ x - (16 - i) - 1 < 10))
                           # (x \in check)
  <2> DEFINE k == i - 1
  <2>1. k \in 0 .. 16 /\ 16 - k = 17 - i /\ x - (16 - k) = x - (16 - i) - 1
    OBVIOUS
  <2> HIDE DEF k
  <2>2. x \in Left(block, c, check, k) <=> InLeft(block, c, check, k, x)
    BY <2>1, BitOfLeft
  <2> QED BY <2>1, <2>2 DEF k, InLeft
<1>3. ASSUME NEW x \in Int
      PROVE  x \in Left(block, d, check, i) <=>
               ((x - 10 \in block /\ x - 10 < 16 - i)
                 # (x - (16 - i) \in d /\ x - (16 - i) < 10)) # (x \in check)
  <2>1. i \in 0 .. 16
    OBVIOUS
  <2> HIDE DEF d
  <2>2. x \in Left(block, d, check, i) <=> InLeft(block, d, check, i, x)
    BY <1>1, <2>1, BitOfLeft
  <2> QED BY <2>2 DEF InLeft
<1>4. 26 - i \in r <=> s
  <2>1. /\ (26 - i) - 10 = 16 - i /\ 16 - i < 17 - i
        /\ (26 - i) - (16 - i) - 1 = 9 /\ 9 < 10
        /\ 26 - i \in Int /\ 26 - i \notin check
    OBVIOUS
  <2> HIDE DEF r
  <2> QED BY <1>2, <2>1
<1>5. ASSUME NEW x \in Int
      PROVE  x \in Divided(r, i) <=> (x \in r) # (s /\ x - (16 - i) \in g)
  <2>1. g \in SUBSET Int /\ 16 - i \in Int
    OBVIOUS
  <2> HIDE DEF g, r, s
  <2>2. x \in Shl(g, 16 - i) <=> x - (16 - i) \in g
    BY <2>1, BitOfShift
  <2>3. x \in SymDiff(r, Shl(g, 16 - i))
          <=> ~ (x \in r <=> x \in Shl(g, 16 - i))
    BY BitOfSum
  <2>4. Divided(r, i) = IF s THEN SymDiff(r, Shl(g, 16 - i)) ELSE r
    BY <1>4 DEF Divided, g
  <2>5. CASE s
    BY <2>2, <2>3, <2>4, <2>5
  <2>6. CASE ~s
    BY <2>4, <2>6
  <2> QED BY <2>5, <2>6
<1>6. ASSUME NEW z \in Int
      PROVE  z \in d <=> (z - 1 \in c) # (s /\ z \in POLY)
  <2>1. c \in SUBSET Int /\ 1 \in Int /\ POLY_DEG - 1 = 9
    BY DEF POLY_DEG
  <2>2. z \in Shl(c, 1) <=> z - 1 \in c
    BY <2>1, BitOfShift
  <2>3. z \in SymDiff(Shl(c, 1), POLY) <=> ~ (z \in Shl(c, 1) <=> z \in POLY)
    BY BitOfSum
  <2>4. d = IF s THEN SymDiff(Shl(c, 1), POLY) ELSE Shl(c, 1)
    BY <2>1 DEF Shifted
  <2> HIDE DEF d, s
  <2>5. CASE s
    BY <2>2, <2>3, <2>4, <2>5
  <2>6. CASE ~s
    BY <2>2, <2>4, <2>6
  <2> QED BY <2>5, <2>6
<1>7. ASSUME NEW x \in Int
      PROVE  x \in Divided(r, i) <=> x \in Left(block, d, check, i)
  <2> DEFINE z == x - (16 - i)
  <2>1. z \in Int /\ (z = 10 <=> x = 26 - i) /\ (x - 10 = 16 - i <=> z = 10)
    OBVIOUS
  <2>2. z \in d <=> (z - 1 \in c) # (s /\ z \in POLY)
    BY <1>6, <2>1
  <2>3. z \in g <=> z = 10 \/ z \in POLY
    BY DEF POLY
  <2>4. z \in POLY => z < 9
    BY DEF POLY
  <2>5. x \in Divided(r, i) <=> (x \in r) # (s /\ z \in g)
    BY <1>5
  <2> HIDE DEF g, r, d
  <2>6. CASE z = 10
    <3>1. x \notin Left(block, d, check, i)
      <4>1. ~ (x - 10 < 16 - i) /\ ~ (x - (16 - i) < 10) /\ x \notin check
        BY <2>1, <2>6
      <4> QED BY <1>3, <4>1
    <3>2. x \in r <=> s
      BY <1>4, <2>1, <2>6
    <3> QED BY <2>3, <2>5, <2>6, <3>1, <3>2
  <2>7. CASE z # 10
    <3>1. x - 10 < 17 - i <=> x - 10 < 16 - i
      BY <2>1, <2>7
    <3>2. (z - 1 < 10 <=> z <= 10) /\ (z < 10 <=> z <= 10)
      BY <2>1, <2>7
    <3> DEFINE p == x - 10 \in block /\ x - 10 < 16 - i
               low == z < 10
               b == z - 1 \in c
               w == x \in check
               h == s /\ z \in POLY
    <3>3. x \in r <=> (p # (b /\ low)) # w
      BY <1>2, <3>1, <3>2
    <3>4. x \in Left(block, d, check, i) <=> (p # ((b # h) /\ low)) # w
      BY <1>3, <2>2
    <3>5. x \in Divided(r, i) <=> (x \in r) # h
      BY <2>3, <2>5, <2>7
    <3>6. h => low
      BY <2>1, <2>4
    <3>7. p \in BOOLEAN /\ low \in BOOLEAN /\ b \in BOOLEAN /\ w \in BOOLEAN
          /\ h \in BOOLEAN
      OBVIOUS
    <3> HIDE DEF p, low, b, w, h
    <3> QED BY ONLY <3>3, <3>4, <3>5, <3>6, <3>7
  <2> QED BY <2>6, <2>7
<1>8. Divided(r, i) \in SUBSET Nat
  BY <1>1, DividedIsWord
<1> HIDE DEF r, d
<1>9. \A x : x \in Divided(r, i) <=> x \in Left(block, d, check, i)
  BY <1>1, <1>7, <1>8
<1> QED BY <1>9 DEF r, d

(* A receiver is left with the offset word, whatever the block. *)
LEMMA CodewordDivides ==
  ASSUME NEW block \in SUBSET (0 .. 15), NEW offset \in SUBSET (0 .. 9)
  PROVE  Remainder(Shl(block, POLY_DEG) \cup
                     {j \in SymDiff(crc(block), offset) : j < POLY_DEG})
            = offset
<1> DEFINE check == {j \in SymDiff(crc(block), offset) : j < POLY_DEG}
           word == Shl(block, POLY_DEG) \cup check
<1>1. PICK c \in [0 .. 16 -> SUBSET Nat] :
        /\ c[0] = {}
        /\ \A i \in 1 .. 16 : c[i] = Shifted(block, c[i - 1], i)
        /\ crc(block) = {j \in c[16] : j < 16}
  BY CrcSteps
<1>2. check \in SUBSET (0 .. 9) /\ POLY_DEG = 10
  <2>1. c[16] \in SUBSET Nat /\ POLY_DEG = 10
    BY DEF POLY_DEG
  <2>2. \A j \in check : (j \in c[16] \/ j \in offset) /\ j < 10
    BY <1>1, <2>1 DEF SymDiff
  <2>3. \A j \in c[16] \cup offset : j < 10 => j \in 0 .. 9
    BY <2>1
  <2>4. \A j \in check : j \in 0 .. 9
    BY <2>2, <2>3, Zenon
  <2> HIDE DEF check
  <2> QED BY <2>1, <2>4
<1>3. \A j \in Int : j \in check <=>
                       j < 10 /\ ((j \in c[16] /\ j < 16) # (j \in offset))
  BY <1>1, <1>2 DEF SymDiff
<1> HIDE DEF check
<1>4. Left(block, c[0], check, 0) = word
  <2>1. {y \in block : y < 16 - 0} = block
    <3>1. \A y \in block : y < 16 - 0
      OBVIOUS
    <3> QED BY <3>1, Zenon
  <2>2. {j \in c[0] : j < 10} = {} /\ Shl({}, 16 - 0) = {}
    BY <1>1 DEF Shl
  <2>3. \A x \in Shl(block, 10) : x \notin 0 .. 9
    BY DEF Shl
  <2>4. SymDiff(SymDiff(Shl(block, 10), {}), check) = Shl(block, 10) \cup check
    BY <1>2, <2>3 DEF SymDiff
  <2> QED BY <1>2, <2>1, <2>2, <2>4 DEF Left
<1>5. PICK r : /\ r[0] = word
               /\ \A i \in 1 .. 16 : r[i] = Divided(r[i - 1], i)
               /\ Remainder(word) = r[16]
  <2>1. word \in SUBSET Nat
    <3>1. c[0] \in SUBSET Nat /\ 0 \in 0 .. 16
      OBVIOUS
    <3>2. Left(block, c[0], check, 0) \in SUBSET Nat
      BY <1>2, <3>1, LeftIsWord
    <3> QED BY <1>4, <3>2
  <2> HIDE DEF word
  <2> QED BY <2>1, RemainderSteps
<1> DEFINE Good == {i \in 0 .. 16 : r[i] = Left(block, c[i], check, i)}
<1>6. ASSUME NEW i \in 1 .. 16, i - 1 \in Good PROVE i \in Good
  <2>1. i \in 0 .. 16 /\ c[i - 1] \in SUBSET Nat
    OBVIOUS
  <2>2. r[i] = Divided(Left(block, c[i - 1], check, i - 1), i)
    BY <1>5, <1>6
  <2>3. r[i] = Left(block, Shifted(block, c[i - 1], i), check, i)
    BY <1>2, <2>1, <2>2, DivisionStep
  <2> QED BY <1>1, <2>1, <2>3
<1>7. 0 \in Good
  <2>1. r[0] = Left(block, c[0], check, 0) /\ 0 \in 0 .. 16
    BY <1>4, <1>5
  <2> QED BY <2>1, Zenon
<1>8. r[16] = Left(block, c[16], check, 16)
  <2>1. 16 \in Nat /\ 16 \in 0 .. 16
    OBVIOUS
  <2> HIDE DEF Good
  <2>2. \A i \in 0 .. 16 : i \in Good
    BY ONLY <1>6, <1>7, <2>1, Induction
  <2> QED BY <2>1, <2>2 DEF Good
<1>9. ASSUME NEW x \in Int
      PROVE  x \in Left(block, c[16], check, 16) <=> x \in offset
  <2>1. /\ c[16] \in SUBSET Nat /\ 16 \in 0 .. 16
        /\ ~ (x - 10 \in block /\ x - 10 < 16 - 16) /\ x - (16 - 16) = x
    OBVIOUS
  <2>2. x \in Left(block, c[16], check, 16)
          <=> InLeft(block, c[16], check, 16, x)
    BY <1>2, <2>1, BitOfLeft
  <2>3. x \in Left(block, c[16], check, 16) <=>
          (x \in c[16] /\ x < 10) # (x \in check)
    BY <2>1, <2>2 DEF InLeft
  <2>4. (x < 10 => x < 16) /\ (x \in offset => x < 10)
    OBVIOUS
  <2> QED BY <1>3, <2>3, <2>4
<1>10. Left(block, c[16], check, 16) = offset
  <2> DEFINE left == Left(block, c[16], check, 16)
  <2>1. c[16] \in SUBSET Nat /\ 16 \in 0 .. 16
    OBVIOUS
  <2>2. left \in SUBSET Nat
    BY <1>2, <2>1, LeftIsWord
  <2>3. offset \subseteq Int
    <3>1. \A y \in 0 .. 9 : y \in Int
      OBVIOUS
    <3> QED BY <3>1, Zenon
  <2> HIDE DEF left
  <2>4. \A x : x \in left <=> x \in offset
    <3>1. \A x \in Int : x \in left <=> x \in offset
      BY <1>9 DEF left
    <3>2. left \subseteq Int
      <4>1. \A y \in Nat : y \in Int
        OBVIOUS
      <4> QED BY <2>2, <4>1, Zenon
    <3> QED BY ONLY <2>3, <3>1, <3>2, Zenon
  <2> QED BY <2>4 DEF left
<1> QED BY <1>5, <1>8, <1>10 DEF check

(* A calculation's input stays what it was. *)
InputType == input \in Inputs

(* THEOREM: a receiver that divides the 26 bits of any block by the        *)
(* generator polynomial is left with the offset word of the block's place  *)
(* in the group, and so accepts it and knows its place (crc,               *)
(* get_rds_group).                                                         *)
THEOREM EveryCodewordDivides == Spec => []CodewordsDivide
<1>1. Init => InputType
  BY DEF Init, InputType
<1>2. InputType /\ [Next]_<<input, target, search, rdsVars>> => InputType'
  BY DEF Next, InputType
<1>3. InputType => CodewordsDivide
  <2> SUFFICES ASSUME input \in Inputs, input.kind = "crc"
               PROVE  LET i == (Cardinality(input.block) % 4) + 1
                      IN Remainder(Codeword(input.block, i)) = offset_words[i]
    BY DEF CodewordsDivide, Remainder, Divided, InputType
  <2> DEFINE block == input.block
             i == (Cardinality(block) % 4) + 1
  <2>1. block \in SUBSET (0 .. 15)
    BY DEF Inputs
  <2>2. i \in 1 .. 4
    <3>1. 0 \in Int /\ 15 \in Int
      OBVIOUS
    <3>2. IsFiniteSet(0 .. 15)
      BY ONLY <3>1, FS_Interval
    <3>3. Cardinality(block) \in Nat
      BY <2>1, <3>2, FS_Subset, FS_CardinalityType
    <3> HIDE DEF block
    <3> QED BY <3>3
  <2> HIDE DEF block, i
  <2>3. offset_words[i] \in SUBSET (0 .. 9)
    BY <2>2 DEF offset_words
  <2>4. Remainder(Codeword(block, i)) = offset_words[i]
    BY <2>1, <2>3, CodewordDivides DEF Codeword
  <2> QED BY <2>4 DEF block, i
<1> QED BY <1>1, <1>2, <1>3, PTL DEF Spec

-----------------------------------------------------------------------------
(* The bits of a shifted number are the shifted bits of the number. *)
LEMMA BitsShift ==
  ASSUME NEW n \in Nat, NEW low \in 0 .. 30, NEW j \in 0 .. 30
  PROVE  j \in Bits(n * 2^low) <=> j >= low /\ j - low \in Bits(n)
<1>1. j \in Bits(n * 2^low) <=> ((n * 2^low) \div 2^j) % 2 = 1
  BY DEF Bits
<1>2. 2^j \in Nat \ {0} /\ 2^low \in Nat \ {0}
  BY PowerType
<1>3. CASE j >= low
  <2> DEFINE k == j - low
  <2>1. k \in 0 .. 30 - low /\ k \in 0 .. 30 /\ k + low = j
    BY <1>3
  <2> HIDE DEF k
  <2>2. 2^j = 2^k * 2^low /\ 2^k \in Nat \ {0}
    BY <2>1, PowerSum, PowerType
  <2>3. (n * 2^low) \div (2^k * 2^low) = n \div 2^k
    BY <1>2, <2>2, DivScale
  <2>4. k \in Bits(n) <=> (n \div 2^k) % 2 = 1
    BY <2>1 DEF Bits
  <2> QED BY <1>1, <1>3, <2>2, <2>3, <2>4 DEF k
<1>4. CASE j < low
  <2> DEFINE k == low - j - 1
             m == n * 2^k
             p == 2^j
  <2>1. /\ k \in 0 .. 29 /\ k + 1 \in 0 .. 30 - j /\ (k + 1) + j = low
        /\ k \in 0 .. 30
    BY <1>4
  <2> HIDE DEF k
  <2>2. 2^low = 2^(k + 1) * 2^j /\ 2^(k + 1) = 2 * 2^k /\ 2^k \in Nat
    BY <2>1, PowerSum, PowerStep, PowerType
  <2>3. m \in Nat /\ p \in Nat \ {0}
    BY <1>2, <2>2
  <2> DEFINE t == 2^k
             a == n * 2^low
  <2>4. a = n * ((2 * t) * p) /\ m = n * t /\ t \in Nat
    BY <2>2
  <2> HIDE DEF m, p, t, a
  <2>8. a = p * (2 * m) + 0
    BY ONLY <2>3, <2>4, n \in Nat
  <2>5. 2 * m \in Int /\ 0 \in 0 .. p - 1
    BY <2>3
  <2>6. (p * (2 * m) + 0) \div p = 2 * m
    BY <2>3, <2>5, DivUnique
  <2>7. (2 * m) % 2 = 0
    BY <2>3
  <2>9. (a \div p) % 2 = 0
    BY ONLY <2>6, <2>7, <2>8
  <2> QED BY <1>1, <1>4, <2>9 DEF p, a
<1> QED BY <1>3, <1>4

(* A number has no bits from those on whose powers are larger than it. *)
LEMMA BitsBelow ==
  ASSUME NEW m \in 0 .. 30, NEW n \in 0 .. 2^m - 1, NEW j \in Bits(n)
  PROVE  j \in 0 .. m - 1
<1>1. j \in 0 .. 30 /\ (n \div 2^j) % 2 = 1
  BY DEF Bits
<1>2. ASSUME j >= m PROVE FALSE
  <2> DEFINE k == j - m
             p == 2^j
  <2>1. k \in 0 .. 30 - m /\ k \in 0 .. 30 /\ k + m = j
    BY <1>1, <1>2
  <2> HIDE DEF k
  <2>2. 2^j = 2^k * 2^m /\ 2^k \in Nat \ {0} /\ 2^m \in Nat \ {0}
    BY <2>1, PowerSum, PowerType
  <2>3. 2^m <= p /\ p \in Nat \ {0}
    BY <2>2
  <2>4. n \in 0 .. p - 1
    BY <2>2, <2>3
  <2> HIDE DEF p
  <2>5. (p * 0 + n) \div p = 0 /\ p * 0 + n = n
    BY <2>3, <2>4, DivUnique
  <2>6. ~ ((n \div p) % 2 = 1)
    BY ONLY <2>5
  <2> QED BY <1>1, <2>6, Zenon DEF p
<1> QED BY <1>1, <1>2

-----------------------------------------------------------------------------
(* The powers that a sum of up to fifteen bits adds, and such a sum. *)
Powers == {2^k : k \in 0 .. 14}

Sum5(f, i) == f[i] + f[i + 1] + f[i + 2] + f[i + 3] + f[i + 4]
Sum15(f) == Sum5(f, 0) + Sum5(f, 5) + Sum5(f, 10)

Terms(S) == [k \in 0 .. 14 |-> IF 2^k \in S THEN 2^k ELSE 0]
Weight(S) == Sum15(Terms(S))

(* Two such sums that differ in one term. *)
LEMMA Sum15Differs ==
  ASSUME NEW f \in [0 .. 14 -> Nat], NEW g \in [0 .. 14 -> Nat],
         NEW i \in 0 .. 14, \A k \in 0 .. 14 : k # i => f[k] = g[k]
  PROVE  Sum15(f) = Sum15(g) + f[i] - g[i] /\ Sum15(f) \in Nat
<1>1. ASSUME NEW b \in {0, 5, 10}
      PROVE  /\ Sum5(f, b) \in Nat /\ Sum5(g, b) \in Nat
             /\ Sum5(f, b) = Sum5(g, b) + IF i \in b .. b + 4 THEN f[i] - g[i]
                                                             ELSE 0
  <2>1. /\ f[b] \in Nat /\ f[b + 1] \in Nat /\ f[b + 2] \in Nat
        /\ f[b + 3] \in Nat /\ f[b + 4] \in Nat
    OBVIOUS
  <2>2. /\ g[b] \in Nat /\ g[b + 1] \in Nat /\ g[b + 2] \in Nat
        /\ g[b + 3] \in Nat /\ g[b + 4] \in Nat
    OBVIOUS
  <2>3. /\ i = b \/ f[b] = g[b]
        /\ i = b + 1 \/ f[b + 1] = g[b + 1]
        /\ i = b + 2 \/ f[b + 2] = g[b + 2]
        /\ i = b + 3 \/ f[b + 3] = g[b + 3]
        /\ i = b + 4 \/ f[b + 4] = g[b + 4]
    OBVIOUS
  <2>4. b \in Int /\ i \in Int
    OBVIOUS
  <2> QED BY ONLY <2>1, <2>2, <2>3, <2>4 DEF Sum5
<1>2. f[i] \in Nat /\ g[i] \in Nat
  OBVIOUS
<1> QED BY <1>1, <1>2 DEF Sum15

(* Taking a power from a set takes it from the sum, in whatever order. *)
LEMMA WeightStep ==
  ASSUME NEW S \in SUBSET Powers, NEW x \in S
  PROVE  /\ Weight(S) = x + Weight(S \ {x})
         /\ Weight(S) \in Nat /\ Weight(S \ {x}) \in Nat /\ x \in Nat \ {0}
<1> DEFINE R == S \ {x}
<1>1. PICK i \in 0 .. 14 : x = 2^i
  BY DEF Powers
<1>2. \A k \in 0 .. 14 : k \in 0 .. 30
  OBVIOUS
<1>3. ASSUME NEW k \in 0 .. 14
      PROVE  2^k \in Nat \ {0} /\ (k # i => 2^k # x)
  <2>1. k \in 0 .. 30 /\ i \in 0 .. 30 /\ (k # i => k < i \/ i < k)
    OBVIOUS
  <2> QED BY <1>1, <2>1, PowerType, PowersDiffer
<1>4. Terms(R) \in [0 .. 14 -> Nat] /\ Terms(S) \in [0 .. 14 -> Nat]
  BY <1>3, Zenon DEF Terms
<1>5. \A k \in 0 .. 14 : k # i => Terms(R)[k] = Terms(S)[k]
  BY <1>3, Zenon DEF Terms
<1>6. Terms(R)[i] = 0 /\ Terms(S)[i] = x /\ x \in Nat \ {0}
  BY <1>1, <1>3 DEF Terms
<1> HIDE DEF R
<1>7. Weight(S) = Weight(R) + x - 0 /\ Weight(S) \in Nat
  BY <1>4, <1>5, <1>6, Sum15Differs DEF Weight
<1>8. Weight(R) \in Nat
  BY <1>4, <1>5, Sum15Differs DEF Weight
<1> QED BY <1>6, <1>7, <1>8 DEF R

(* The sum of a set of powers. *)
LEMMA SumIsWeight ==
  ASSUME NEW S \in SUBSET Powers
  PROVE  SumSet(S) = Weight(S)
<1> DEFINE Step(it, s) ==
      IF s = {} THEN 0
      ELSE LET x == CHOOSE x \in s : TRUE IN x + it[s \ {x}]
           w == [s \in SUBSET S |-> Weight(s)]
           iter == CHOOSE it : it = [s \in SUBSET S |-> Step(it, s)]
<1>1. Weight({}) = 0
  <2> DEFINE f == Terms({})
  <2>1. /\ f[0] = 0 /\ f[1] = 0 /\ f[2] = 0 /\ f[3] = 0 /\ f[4] = 0
        /\ f[5] = 0 /\ f[6] = 0 /\ f[7] = 0 /\ f[8] = 0 /\ f[9] = 0
        /\ f[10] = 0 /\ f[11] = 0 /\ f[12] = 0 /\ f[13] = 0 /\ f[14] = 0
    BY DEF Terms
  <2> HIDE DEF f
  <2>2. Sum15(f) = 0
    BY <2>1 DEF Sum15, Sum5
  <2> QED BY <2>2 DEF Weight, f
<1>2. ASSUME NEW s \in SUBSET S, s # {}
      PROVE  LET x == CHOOSE x \in s : TRUE
             IN /\ x \in s /\ s \ {x} \in SUBSET S
                /\ Weight(s) = x + Weight(s \ {x})
                /\ Weight(s) \in Nat /\ Weight(s \ {x}) \in Nat
                /\ x \in Nat \ {0}
  <2> DEFINE x == CHOOSE x \in s : TRUE
  <2>1. x \in s
    BY <1>2
  <2> HIDE DEF x
  <2>2. s \in SUBSET Powers /\ s \ {x} \in SUBSET S
    OBVIOUS
  <2>3. /\ Weight(s) = x + Weight(s \ {x})
        /\ Weight(s) \in Nat /\ Weight(s \ {x}) \in Nat /\ x \in Nat \ {0}
    BY <2>1, <2>2, WeightStep
  <2> QED BY <2>1, <2>2, <2>3 DEF x
<1>3. w = [s \in SUBSET S |-> Step(w, s)]
  <2>1. ASSUME NEW s \in SUBSET S PROVE Weight(s) = Step(w, s)
    BY <1>1, <1>2
  <2> HIDE DEF Step
  <2> QED BY <2>1
<1>4. iter = [s \in SUBSET S |-> Step(iter, s)]
  BY <1>3
<1>5. SumSet(S) = iter[S]
  BY DEF SumSet, FoldSet, MapThenFoldSet
<1> HIDE DEF iter, w
<1> DEFINE Bad == {s \in SUBSET S : iter[s] # Weight(s)}
           T == {Weight(s) : s \in Bad}
<1>6. ASSUME T # {} PROVE FALSE
  <2>1. T \subseteq Nat
    <3>1. ASSUME NEW s \in SUBSET S PROVE Weight(s) \in Nat
      <4>1. CASE s = {}
        BY <1>1, <4>1
      <4>2. CASE s # {}
        BY <1>2, <4>2
      <4> QED BY <4>1, <4>2
    <3> QED BY <3>1
  <2>2. PICK n \in T : \A m \in T : n <= m
    <3> HIDE DEF T
    <3> QED BY ONLY <2>1, <1>6, SmallestNat, Zenon
  <2>3. PICK s \in Bad : n = Weight(s)
    OBVIOUS
  <2>4. iter[s] = Step(iter, s) /\ s \in SUBSET S
    BY <1>4, <2>3
  <2>5. s # {}
    BY <1>1, <2>3, <2>4
  <2> DEFINE x == CHOOSE x \in s : TRUE
  <2>6. /\ s \ {x} \in SUBSET S /\ Weight(s) = x + Weight(s \ {x})
        /\ Weight(s) \in Nat /\ Weight(s \ {x}) \in Nat /\ x \in Nat \ {0}
    BY <1>2, <2>4, <2>5
  <2>7. iter[s] = x + iter[s \ {x}]
    BY <2>4, <2>5
  <2> HIDE DEF x, Step
  <2>8. iter[s \ {x}] # Weight(s \ {x})
    BY <2>3, <2>6, <2>7
  <2>9. Weight(s \ {x}) \in T
    BY <2>6, <2>8
  <2>10. n <= Weight(s \ {x})
    BY <2>2, <2>9
  <2> QED BY <2>3, <2>6, <2>10
<1>7. iter[S] = Weight(S)
  BY <1>6
<1> QED BY <1>5, <1>7

(* The digits of a number: what a power of two takes from it. *)
LEMMA DigitStep ==
  ASSUME NEW n \in Nat, NEW p \in Nat \ {0}
  PROVE  p * (n \div p) - (2 * p) * (n \div (2 * p))
           = IF (n \div p) % 2 = 1 THEN p ELSE 0
<1> DEFINE q == n \div p
           r == n % p
           d == q \div 2
           e == q % 2
           t == p * e + r
           m == 2 * p
<1>1. q \in Int /\ r \in 0 .. p - 1 /\ n = p * q + r
  OBVIOUS
<1> HIDE DEF q, r
<1>2. d \in Int /\ e \in {0, 1} /\ q = 2 * d + e
  BY <1>1
<1> HIDE DEF d, e
<1>3. t \in 0 .. m - 1 /\ m \in Nat \ {0}
  BY <1>1, <1>2
<1>4. n = m * d + t
  BY <1>1, <1>2
<1>5. p * q - m * d = p * e
  BY <1>1, <1>2
<1> HIDE DEF m, t
<1>6. (m * d + t) \div m = d
  BY <1>2, <1>3, DivUnique
<1>7. p * e = IF e = 1 THEN p ELSE 0
  BY <1>2
<1>8. n \div m = d
  BY <1>4, <1>6
<1>9. p * q - m * (n \div m) = IF e = 1 THEN p ELSE 0
  BY <1>5, <1>7, <1>8
<1> QED BY <1>9 DEF q, m, e

(* The powers that stand for a number's bits add up to the number. *)
LEMMA SumOfBits ==
  ASSUME NEW n \in 0 .. 2^15 - 1
  PROVE  SumSet({2^k : k \in Bits(n)}) = n
<1> DEFINE S == {2^k : k \in Bits(n)}
           f == Terms(S)
           h == [k \in 0 .. 15 |-> 2^k * (n \div 2^k)]
<1>1. n \in Nat /\ 15 \in 0 .. 30
  OBVIOUS
<1>2. \A k \in Bits(n) : k \in 0 .. 14
  <2>1. ASSUME NEW k \in Bits(n) PROVE k \in 0 .. 15 - 1
    BY <1>1, BitsBelow
  <2> QED BY <2>1
<1>3. S \in SUBSET Powers
  BY <1>2 DEF Powers
<1>4. ASSUME NEW k \in 0 .. 14
      PROVE  f[k] = IF (n \div 2^k) % 2 = 1 THEN 2^k ELSE 0
  <2>1. 2^k \in S <=> k \in Bits(n)
    <3>1. ASSUME NEW i \in Bits(n), 2^i = 2^k PROVE i = k
      <4>1. i \in 0 .. 30 /\ k \in 0 .. 30 /\ (i = k \/ i < k \/ k < i)
        BY <1>2
      <4> QED BY <3>1, <4>1, PowersDiffer
    <3> QED BY <3>1
  <2>2. k \in Bits(n) <=> (n \div 2^k) % 2 = 1
    BY DEF Bits
  <2> HIDE DEF S
  <2> QED BY <2>1, <2>2 DEF Terms
<1>5. ASSUME NEW k \in 0 .. 14 PROVE f[k] = h[k] - h[k + 1]
  <2>1. k \in 0 .. 15 /\ k + 1 \in 0 .. 15 /\ k \in 0 .. 29 /\ k \in 0 .. 30
    OBVIOUS
  <2>2. 2^(k + 1) = 2 * 2^k /\ 2^k \in Nat \ {0}
    BY <2>1, PowerStep, PowerType
  <2>3. 2^k * (n \div 2^k) - (2 * 2^k) * (n \div (2 * 2^k))
          = IF (n \div 2^k) % 2 = 1 THEN 2^k ELSE 0
    BY <1>1, <2>2, DigitStep
  <2>4. h[k] = 2^k * (n \div 2^k) /\ h[k + 1] = 2^(k + 1) * (n \div 2^(k + 1))
    BY <2>1
  <2> HIDE DEF h, f
  <2> QED BY <1>4, <2>2, <2>3, <2>4
<1>6. h[0] = n /\ h[15] = 0
  OBVIOUS
<1>7. \A k \in 0 .. 15 : h[k] \in Int
  <2>1. ASSUME NEW k \in 0 .. 15 PROVE h[k] \in Int
    <3> DEFINE p == 2^k
    <3>1. k \in 0 .. 30
      OBVIOUS
    <3>2. p \in Nat \ {0}
      BY <3>1, PowerType
    <3>3. h[k] = p * (n \div p)
      OBVIOUS
    <3> HIDE DEF p, h
    <3> QED BY <1>1, <3>2, <3>3
  <2> QED BY <2>1
<1> HIDE DEF f, h
<1>8. Sum15(f) = n
  <2>1. ASSUME NEW b \in {0, 5, 10}
        PROVE  Sum5(f, b) = h[b] - h[b + 5] /\ h[b] \in Int /\ h[b + 5] \in Int
    <3>1. /\ f[b] = h[b] - h[b + 1]
          /\ f[b + 1] = h[b + 1] - h[b + 1 + 1]
          /\ f[b + 2] = h[b + 2] - h[b + 2 + 1]
          /\ f[b + 3] = h[b + 3] - h[b + 3 + 1]
          /\ f[b + 4] = h[b + 4] - h[b + 4 + 1]
      BY <1>5
    <3>2. /\ h[b] \in Int /\ h[b + 1] \in Int /\ h[b + 2] \in Int
          /\ h[b + 3] \in Int /\ h[b + 4] \in Int /\ h[b + 5] \in Int
      BY <1>7
    <3>3. b \in Int
      OBVIOUS
    <3> QED BY ONLY <3>1, <3>2, <3>3 DEF Sum5
  <2> QED BY <1>6, <2>1 DEF Sum15
<1> QED BY <1>3, <1>8, SumIsWeight DEF Weight, f

(* The low bits of a number are those of its remainder. *)
LEMMA BitsMod ==
  ASSUME NEW n \in Nat, NEW m \in 0 .. 30, NEW k \in 0 .. 30, k < m
  PROVE  k \in Bits(n) <=> k \in Bits(n % 2^m)
<1> DEFINE j == m - k - 1
           p == 2^k
           t == 2^j
           q == n \div 2^m
           r == n % 2^m
           d == r \div p
           e == r % p
<1>1. /\ j \in 0 .. 29 /\ j \in 0 .. 30 /\ j + 1 \in 0 .. 30 - k
      /\ (j + 1) + k = m
  OBVIOUS
<1>2. 2^m = (2 * t) * p /\ t \in Nat \ {0} /\ p \in Nat \ {0}
      /\ 2^m \in Nat \ {0}
  <2> HIDE DEF j
  <2> QED BY <1>1, PowerSum, PowerStep, PowerType
<1> HIDE DEF j
<1>3. n = 2^m * q + r /\ q \in Int /\ r \in Nat
  <2> DEFINE c == 2^m
  <2>1. c \in Nat \ {0}
    BY <1>2
  <2> HIDE DEF c
  <2>2. n = c * (n \div c) + (n % c) /\ n \div c \in Int /\ n % c \in Nat
    BY <2>1
  <2> QED BY <2>2 DEF c
<1>4. /\ k \in Bits(n) <=> (n \div p) % 2 = 1
      /\ k \in Bits(r) <=> (r \div p) % 2 = 1
  BY DEF Bits
<1> HIDE DEF p, t, q, r
<1>5. d \in Int /\ e \in 0 .. p - 1 /\ r = p * d + e
  BY <1>2, <1>3
<1> DEFINE u == t * q
           v == 2 * u + d
<1>6. n = p * v + e /\ u \in Int /\ v \in Int
  <2>1. 2^m * q = p * (2 * (t * q))
    BY <1>2, <1>3
  <2>2. u \in Int
    BY <1>2, <1>3
  <2> HIDE DEF u, d, e
  <2>3. 2^m * q = p * (2 * u)
    BY <2>1 DEF u
  <2>4. p * v = p * (2 * u) + p * d
    BY <1>2, <1>5, <2>2
  <2> QED BY <1>2, <1>3, <1>5, <2>2, <2>3, <2>4
<1> HIDE DEF d, e
<1>7. v % 2 = d % 2
  <2> HIDE DEF u
  <2> QED BY <1>5, <1>6
<1> HIDE DEF v
<1>8. (p * v + e) \div p = v
  BY <1>2, <1>5, <1>6, DivUnique
<1> QED BY <1>4, <1>6, <1>7, <1>8 DEF d, r

(* A field of a word, as a receiver reads it. *)
Field(word, low, high) == SumSet({2^(j - low) : j \in word \cap (low .. high)})

(* A field of m bits holds a number, bit by bit. *)
HoldsNumber(word, low, high, m, n) ==
  /\ low \in 0 .. 15 /\ high \in 0 .. 15 /\ m \in 1 .. 15
  /\ high = low + m - 1 /\ n \in 0 .. 2^m - 1
  /\ \A j \in low .. high : j \in word <=> j - low \in Bits(n)

(* A field that holds the bits of a number reads as the number. *)
LEMMA FieldReads ==
  \A word, low, high, m, n :
    HoldsNumber(word, low, high, m, n) => Field(word, low, high) = n
<1> SUFFICES ASSUME NEW word, NEW low, NEW high, NEW m, NEW n,
                    HoldsNumber(word, low, high, m, n)
             PROVE  Field(word, low, high) = n
  OBVIOUS
<1> USE DEF HoldsNumber
<1>1. n \in 0 .. 2^15 - 1
  <2> DEFINE k == 15 - m
  <2>1. k \in 0 .. 30 - m /\ k \in 0 .. 30 /\ m \in 0 .. 30 /\ k + m = 15
    OBVIOUS
  <2> HIDE DEF k
  <2>2. 2^(k + m) = 2^k * 2^m /\ 2^k \in Nat \ {0} /\ 2^m \in Nat \ {0}
    BY <2>1, PowerSum, PowerType
  <2>3. 2^m <= 2^(k + m) /\ 2^(k + m) \in Nat
    BY <2>2
  <2>4. n \in 0 .. 2^(k + m) - 1
    BY <2>2, <2>3
  <2> QED BY ONLY <2>1, <2>4
<1>2. ASSUME NEW k \in Bits(n) PROVE k \in 0 .. high - low
  <2>1. m \in 0 .. 30
    OBVIOUS
  <2>2. k \in 0 .. m - 1
    BY <2>1, BitsBelow
  <2> QED BY <2>2
<1>3. {2^(j - low) : j \in word \cap (low .. high)} = {2^k : k \in Bits(n)}
  <2>1. ASSUME NEW j \in word \cap (low .. high) PROVE j - low \in Bits(n)
    OBVIOUS
  <2>2. ASSUME NEW k \in Bits(n)
        PROVE  \E j \in word \cap (low .. high) : k = j - low
    <3>1. k + low \in low .. high /\ (k + low) - low = k
      BY <1>2
    <3> QED BY <3>1
  <2> QED BY <2>1, <2>2
<1> QED BY <1>1, <1>3, SumOfBits DEF Field

(* The bits of the blocks of a clock time group, each in its place. *)
Placed(b, day, hour, min, offset) ==
  \A j \in 0 .. 15 :
    /\ j <= 1 => (j \in b[1] <=> j \in Bits(day \div 2^15))
    /\ j = 0 => (j \in b[2] <=> j \in Bits(hour \div 16))
    /\ j >= 1 => (j \in b[2] <=> j - 1 \in Bits(day % 2^15))
    /\ j >= 12 => (j \in b[3] <=> j - 12 \in Bits(hour % 16))
    /\ j \in 6 .. 11 => (j \in b[3] <=> j - 6 \in Bits(min))
    /\ j <= 4 => (j \in b[3]
                    <=> j \in Bits(IF offset < 0 THEN -offset ELSE offset))
    /\ j = 5 => (j \in b[3] <=> offset < 0)

(* No field of the blocks reaches into another. *)
LEMMA BitsPlaced ==
  \A day \in 0 .. 2^17 - 1, hour \in 0 .. 23, min \in 0 .. 59,
     offset \in -31 .. 31 :
    Placed(CtBlocks(day, hour, min, offset), day, hour, min, offset)
<1> SUFFICES ASSUME NEW day \in 0 .. 2^17 - 1, NEW hour \in 0 .. 23,
                    NEW min \in 0 .. 59, NEW offset \in -31 .. 31,
                    NEW b, b = CtBlocks(day, hour, min, offset)
             PROVE  Placed(b, day, hour, min, offset)
  OBVIOUS
<1> SUFFICES ASSUME NEW j \in 0 .. 15
             PROVE
    /\ j <= 1 => (j \in b[1] <=> j \in Bits(day \div 2^15))
    /\ j = 0 => (j \in b[2] <=> j \in Bits(hour \div 16))
    /\ j >= 1 => (j \in b[2] <=> j - 1 \in Bits(day % 2^15))
    /\ j >= 12 => (j \in b[3] <=> j - 12 \in Bits(hour % 16))
    /\ j \in 6 .. 11 => (j \in b[3] <=> j - 6 \in Bits(min))
    /\ j <= 4 => (j \in b[3]
                    <=> j \in Bits(IF offset < 0 THEN -offset ELSE offset))
    /\ j = 5 => (j \in b[3] <=> offset < 0)
  BY Zenon DEF Placed
<1> DEFINE size == IF offset < 0 THEN -offset ELSE offset
           h == hour % 16
           signs == IF offset < 0 THEN {5} ELSE {}
           top == Bits(day \div 2^15)
           low == Bits(2 * day)
           w2 == low \cup Bits(hour \div 16)
           w3 == Bits(h * 2^12) \cup Bits(min * 2^6) \cup Bits(size) \cup signs
<1>1. /\ day \in Nat /\ h \in 0 .. 2^4 - 1 /\ hour \div 16 \in 0 .. 2^1 - 1
      /\ min \in 0 .. 2^6 - 1 /\ size \in 0 .. 2^5 - 1
      /\ h \in Nat /\ min \in Nat
      /\ j \in 0 .. 30 /\ 1 \in 0 .. 30 /\ 4 \in 0 .. 30 /\ 5 \in 0 .. 30
      /\ 6 \in 0 .. 30 /\ 12 \in 0 .. 30 /\ 15 \in 0 .. 30 /\ j < 16
  OBVIOUS
<1>2. b[1] = top \cup {10, 14} /\ b[2] = Word16(w2) /\ b[3] = Word16(w3)
  BY DEF CtBlocks
<1>3. \A word : j \in Word16(word) <=> j \in word
  BY <1>1 DEF Word16
<1> HIDE DEF h, size
<1>4. j \in b[1] <=> j \in top \/ j \in {10, 14}
  <2> HIDE DEF top
  <2> QED BY ONLY <1>2
<1>5. j \in b[2] <=> j \in low \/ j \in Bits(hour \div 16)
  <2>1. j \in b[2] <=> j \in w2
    <3> HIDE DEF w2
    <3> QED BY ONLY <1>2, <1>3
  <2> HIDE DEF low
  <2> QED BY <2>1
<1>6. j \in b[3] <=> \/ j \in Bits(h * 2^12) \/ j \in Bits(min * 2^6)
                     \/ j \in Bits(size) \/ j \in signs
  <2>1. j \in b[3] <=> j \in w3
    <3> HIDE DEF w3
    <3> QED BY ONLY <1>2, <1>3
  <2> HIDE DEF signs
  <2> QED BY ONLY <2>1 DEF w3
<1>7. j \in signs <=> offset < 0 /\ j = 5
  OBVIOUS
<1>8. j \in low <=> j >= 1 /\ j - 1 \in Bits(day % 2^15)
  <2>1. 2^1 = 2 /\ 2 * day = day * 2
    OBVIOUS
  <2>2. j \in Bits(day * 2^1) <=> j >= 1 /\ j - 1 \in Bits(day)
    BY <1>1, BitsShift
  <2>3. ASSUME j >= 1 PROVE j - 1 \in Bits(day) <=> j - 1 \in Bits(day % 2^15)
    <3> DEFINE k == j - 1
    <3>1. k \in 0 .. 30 /\ k < 15
      BY <2>3
    <3> HIDE DEF k
    <3>2. k \in Bits(day) <=> k \in Bits(day % 2^15)
      BY <1>1, <3>1, BitsMod
    <3> QED BY <3>2 DEF k
  <2> QED BY <2>1, <2>2, <2>3
<1>9. j \in Bits(h * 2^12) <=> j >= 12 /\ j - 12 \in Bits(h)
  BY <1>1, BitsShift
<1>10. j \in Bits(min * 2^6) <=> j >= 6 /\ j - 6 \in Bits(min)
  BY <1>1, BitsShift
<1>11. /\ \A k \in Bits(hour \div 16) : k \in 0 .. 1 - 1
       /\ \A k \in Bits(min) : k \in 0 .. 6 - 1
       /\ \A k \in Bits(size) : k \in 0 .. 5 - 1
  <2>1. ASSUME NEW k \in Bits(hour \div 16) PROVE k \in 0 .. 1 - 1
    BY <1>1, BitsBelow
  <2>2. ASSUME NEW k \in Bits(min) PROVE k \in 0 .. 6 - 1
    <3>1. 6 \in 0 .. 30 /\ min \in 0 .. 2^6 - 1
      BY <1>1
    <3> QED BY <3>1, BitsBelow
  <2>3. ASSUME NEW k \in Bits(size) PROVE k \in 0 .. 5 - 1
    BY <1>1, BitsBelow
  <2> QED BY <2>1, <2>2, <2>3
<1>12. /\ j \in Bits(hour \div 16) => j = 0
       /\ j - 6 \in Bits(min) => j < 12
       /\ j \in Bits(size) => j < 5
  BY <1>11
<1> HIDE DEF top, low, w2, w3, signs
<1>13. j <= 1 => (j \in b[1] <=> j \in top)
  BY <1>4
<1>14. j = 0 => (j \in b[2] <=> j \in Bits(hour \div 16))
  BY <1>5, <1>8
<1>15. j >= 1 => (j \in b[2] <=> j - 1 \in Bits(day % 2^15))
  BY <1>5, <1>8, <1>12
<1>16. /\ j >= 12 => (j \in b[3] <=> j - 12 \in Bits(h))
       /\ j \in 6 .. 11 => (j \in b[3] <=> j - 6 \in Bits(min))
       /\ j <= 4 => (j \in b[3] <=> j \in Bits(size))
       /\ j = 5 => (j \in b[3] <=> offset < 0)
  BY <1>6, <1>7, <1>9, <1>10, <1>12
<1> QED BY ONLY <1>13, <1>14, <1>15, <1>16 DEF top, h, size

(* The time that a receiver reads in the blocks of a clock time group. *)
Received(b, day, hour, min, offset) ==
  /\ Field(b[1], 0, 1) * 2^15 + Field(b[2], 1, 15) = day
  /\ Field(b[2], 0, 0) * 2^4 + Field(b[3], 12, 15) = hour
  /\ Field(b[3], 6, 11) = min
  /\ Field(b[3], 0, 4) * (IF 5 \in b[3] THEN -1 ELSE 1) = offset

(* THEOREM: every clock time up to the largest day number of seventeen     *)
(* bits, in 2217, and for an offset of up to fifteen and a half hours, is  *)
(* read back from the group's blocks (get_rds_ct_group).                   *)
THEOREM ClockTimeIsReceived ==
  \A day \in 0 .. 2^17 - 1, hour \in 0 .. 23, min \in 0 .. 59,
     offset \in -31 .. 31 :
    Received(CtBlocks(day, hour, min, offset), day, hour, min, offset)
<1> SUFFICES ASSUME NEW day \in 0 .. 2^17 - 1, NEW hour \in 0 .. 23,
                    NEW min \in 0 .. 59, NEW offset \in -31 .. 31,
                    NEW b, b = CtBlocks(day, hour, min, offset)
             PROVE  Received(b, day, hour, min, offset)
  OBVIOUS
<1> DEFINE size == IF offset < 0 THEN -offset ELSE offset
           h == hour % 16
           low == day % 2^15
           top == day \div 2^15
           ten == hour \div 16
<1>1. \A j \in 0 .. 15 :
        /\ j <= 1 => (j \in b[1] <=> j \in Bits(top))
        /\ j = 0 => (j \in b[2] <=> j \in Bits(ten))
        /\ j >= 1 => (j \in b[2] <=> j - 1 \in Bits(low))
        /\ j >= 12 => (j \in b[3] <=> j - 12 \in Bits(h))
        /\ j \in 6 .. 11 => (j \in b[3] <=> j - 6 \in Bits(min))
        /\ j <= 4 => (j \in b[3] <=> j \in Bits(size))
        /\ j = 5 => (j \in b[3] <=> offset < 0)
  <2>1. Placed(b, day, hour, min, offset)
    BY BitsPlaced
  <2> QED BY ONLY <2>1, Zenon DEF Placed, size, h, low, top, ten
<1>2. /\ top \in 0 .. 2^2 - 1 /\ low \in 0 .. 2^15 - 1
      /\ ten \in 0 .. 2^1 - 1 /\ h \in 0 .. 2^4 - 1
      /\ min \in 0 .. 2^6 - 1 /\ size \in 0 .. 2^5 - 1
  OBVIOUS
<1>3. /\ top * 2^15 + low = day
      /\ ten * 2^4 + h = hour
      /\ size * (IF offset < 0 THEN -1 ELSE 1) = offset
  OBVIOUS
<1> HIDE DEF size, h, low, top, ten
<1>4. Field(b[1], 0, 1) = top
  <2>1. HoldsNumber(b[1], 0, 1, 2, top)
    BY <1>1, <1>2 DEF HoldsNumber
  <2> QED BY ONLY <2>1, FieldReads, Zenon
<1>5. Field(b[2], 1, 15) = low
  <2>1. HoldsNumber(b[2], 1, 15, 15, low)
    BY <1>1, <1>2 DEF HoldsNumber
  <2> QED BY ONLY <2>1, FieldReads, Zenon
<1>6. Field(b[2], 0, 0) = ten
  <2>1. HoldsNumber(b[2], 0, 0, 1, ten)
    BY <1>1, <1>2 DEF HoldsNumber
  <2> QED BY ONLY <2>1, FieldReads, Zenon
<1>7. Field(b[3], 12, 15) = h
  <2>1. HoldsNumber(b[3], 12, 15, 4, h)
    BY <1>1, <1>2 DEF HoldsNumber
  <2> QED BY ONLY <2>1, FieldReads, Zenon
<1>8. Field(b[3], 6, 11) = min
  <2>1. HoldsNumber(b[3], 6, 11, 6, min)
    BY <1>1, <1>2 DEF HoldsNumber
  <2> QED BY ONLY <2>1, FieldReads, Zenon
<1>9. Field(b[3], 0, 4) = size
  <2>1. HoldsNumber(b[3], 0, 4, 5, size)
    BY <1>1, <1>2 DEF HoldsNumber
  <2> QED BY ONLY <2>1, FieldReads, Zenon
<1>10. 5 \in b[3] <=> offset < 0
  BY <1>1
<1> QED BY <1>3, <1>4, <1>5, <1>6, <1>7, <1>8, <1>9, <1>10 DEF Received

(* THEOREM: the clock time group tells every month of every year since     *)
(* 1901, and every time of three days in three ranges of the day number,   *)
(* as ClockTimeDecodes asks (get_rds_ct_group).                            *)
THEOREM ClockTimesDecode == Spec => []ClockTimeDecodes
<1>1. Init => InputType
  BY DEF Init, InputType
<1>2. InputType /\ [Next]_<<input, target, search, rdsVars>> => InputType'
  BY DEF Next, InputType
<1>3. InputType => ClockTimeDecodes
  <2> SUFFICES ASSUME input \in Inputs PROVE ClockTimeDecodes
    BY DEF InputType
  <2>1. mjd(1, 0, 100) = 51544
    BY DEF mjd
  <2>2. ASSUME input.kind = "date"
        PROVE  mjd(1, (input.mon + 1) % 12,
                   input.year + (input.mon + 1) \div 12)
                 = mjd(1, input.mon, input.year) + Days(input.mon, input.year)
    <3>1. input.mon \in 0 .. 11 /\ input.year \in Years
      BY <2>2 DEF Inputs
    <3>2. input.year \in Nat \ {0}
      BY <3>1, CodecAssumption
    <3> QED BY <3>1, <3>2, MonthsHaveTheirLength
  <2>3. ASSUME input.kind = "time"
        PROVE  Received(CtBlocks(input.day, input.hour, input.min,
                                 input.offset),
                        input.day, input.hour, input.min, input.offset)
    <3>1. /\ input.day \in 0 .. 2^17 - 1 /\ input.hour \in 0 .. 23
          /\ input.min \in 0 .. 59 /\ input.offset \in -31 .. 31
      BY <2>3 DEF Inputs
    <3> QED BY ONLY <3>1, ClockTimeIsReceived
  <2> QED BY <2>1, <2>2, <2>3 DEF ClockTimeDecodes, Received, Field
<1> QED BY <1>1, <1>2, <1>3, PTL DEF Spec
=============================================================================
