---------------------------- MODULE MCDecodeLoop ----------------------------
(* DecodeLoop with a small floating point format for fp16: as many significant
   bits as make Exact the largest integer below which all are representable. *)
EXTENDS DecodeLoop

(* The magnitude m above Exact, rounded to the spacing there, ties to the even
   multiple.                                                                 *)
RoundedMagnitude(m) ==
    LET k == CHOOSE e \in 1..m : Exact * 2^(e - 1) < m /\ m <= Exact * 2^e
        u == 2^k
        low == (m \div u) * u
        up == 2 * (m - low) > u \/ (2 * (m - low) = u /\ (m \div u) % 2 = 1)
    IN  IF up THEN low + u ELSE low

HalfFloat(n) ==
    IF Magnitude(n) <= Exact THEN n
    ELSE IF n > 0 THEN RoundedMagnitude(n) ELSE -RoundedMagnitude(-n)
=============================================================================
