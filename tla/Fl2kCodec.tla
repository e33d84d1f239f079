----------------------------- MODULE Fl2kCodec ------------------------------
(***************************************************************************)
(* The calculations of src/libosmo-fl2k.c: the order of the R, G and B     *)
(* samples in a transfer and the search for the sample rate's register.    *)
(***************************************************************************)
EXTENDS Integers, Sequences

-----------------------------------------------------------------------------
(* fl2k_convert_r, fl2k_convert_g, fl2k_convert_b                          *)

Colors == {"r", "g", "b"}

(* Mutation: two of the outputs are exchanged. *)
PlacesSwapped ==
  [r |-> <<6, 1, 12, 15, 10, 21, 19, 16>>,
   g |-> <<5, 0, 3, 14, 9, 20, 23, 18>>,
   b |-> <<4, 7, 2, 13, 8, 11, 22, 17>>]

(* The places of eight samples of a color in 24 bytes of a transfer.       *)
Places ==
  [r |-> <<6, 1, 12, 15, 10, 21, 16, 19>>,
   g |-> <<5, 0, 3, 14, 9, 20, 23, 18>>,
   b |-> <<4, 7, 2, 13, 8, 11, 22, 17>>]

(* What becomes of the bytes out of a transfer, for any number of groups   *)
(* of eight samples; offset is 128 for signed samples and wraps in a char. *)
(* Without a buffer for the color, <<>> here, nothing is written.          *)
fl2k_convert(color, out, in, offset) ==
  LET place(j) == 24 * (j \div 8) + Places[color][(j % 8) + 1]
      js == 0 .. Len(in) - 1
      From(p) == CHOOSE j \in js : place(j) = p
  IN IF in = <<>> THEN out
     ELSE [p \in DOMAIN out |-> IF \E j \in js : place(j) = p
                                  THEN (in[From(p) + 1] + offset) % 256
                                  ELSE out[p]]

(* The three calls of fl2k_sample_worker. *)
Converted(out, in, offset) ==
  LET r == fl2k_convert("r", out, in["r"], offset)
      g == fl2k_convert("g", r, in["g"], offset)
  IN fl2k_convert("b", g, in["b"], offset)

-----------------------------------------------------------------------------
(* fl2k_reg_to_freq, fl2k_set_sample_rate.  The doubles are whole numbers  *)
(* but for the offset, which the code truncates to a uint32_t; errors are  *)
(* floats, exact below 2^24, and smaller for any target within the range.  *)

Reg(mult, div, frac) == mult * 2^20 + frac * 2^16 + 96 * 2^8 + 2^8 + div

(* Mutation: the offset is not divided by the multiplier. *)
fl2k_reg_to_freqOffset(reg) ==
  LET div == reg % 64
      out_div == (reg \div 2^8) % 16
      frac == (reg \div 2^16) % 16
      mult == (reg \div 2^20) % 16
      sample_clock == (160000000 * mult) \div div
      offset == sample_clock \div 16
  IN (sample_clock + offset * frac) \div out_div

fl2k_reg_to_freq(reg) ==
  LET div == reg % 64
      out_div == (reg \div 2^8) % 16
      frac == (reg \div 2^16) % 16
      mult == (reg \div 2^20) % 16
      sample_clock == (160000000 * mult) \div div
      offset == sample_clock \div (16 * mult)
  IN (sample_clock + offset * frac) \div out_div

Distance(a, b) == IF a < b THEN b - a ELSE a - b

(* Mutation: of equally close settings the last one is kept. *)
ClosestLast(freq, reg, best) ==
  IF best = 0
       \/ Distance(fl2k_reg_to_freq(reg), freq)
            <= Distance(fl2k_reg_to_freq(best), freq)
    THEN reg ELSE best

(* "Keep closest match": of equally close ones the first. *)
Closest(freq, reg, best) ==
  IF best = 0
       \/ Distance(fl2k_reg_to_freq(reg), freq)
            < Distance(fl2k_reg_to_freq(best), freq)
    THEN reg ELSE best

VARIABLES
  target,  \* target_freq
  search   \* mult, div and frac of the three nested loops, and result_reg

SearchInit ==
  search = [mult |-> 6, div |-> 63, frac |-> 1, result_reg |-> 0]

(* One round of the innermost loop; mult counts down to 3, div from 63 to  *)
(* 2 and frac up to 15.                                                    *)
SearchNext ==
  LET mult == search.mult
      div == search.div
      frac == search.frac
      best == Closest(target, Reg(mult, div, frac), search.result_reg)
  IN /\ mult >= 3
     /\ search' =
          IF frac < 15
            THEN [search EXCEPT !.frac = @ + 1, !.result_reg = best]
          ELSE IF div > 2
            THEN [search EXCEPT !.div = @ - 1, !.frac = 1, !.result_reg = best]
          ELSE [mult |-> mult - 1, div |-> 63, frac |-> 1, result_reg |-> best]
     /\ UNCHANGED target

(* Every setting the search looks at. *)
Settings == {Reg(mult, div, frac) : mult \in 3 .. 6, div \in 2 .. 63,
                                    frac \in 1 .. 15}

=============================================================================
