------------------------------ MODULE Polyline ------------------------------
(***************************************************************************)
(* The two text formats in which map services send a line, and the        *)
(* decoders of services/maps/google.py (used for Mappls too) and           *)
(* services/maps/here.py.  A character is the number it stands for, 0..63: *)
(* five bits of a number, and 32 when more bits of it follow.  Degrees are *)
(* integers in units of the format's precision.                            *)
(***************************************************************************)
EXTENDS Integers, Sequences, SequencesExt

(* The numbers a text holds: whole ones, and what is left of one that is   *)
(* cut off.                                                                *)
Start == [whole |-> <<>>, part |-> 0, unit |-> 1]

Digit(acc, d) ==
  IF d < 32
  THEN [whole |-> Append(acc.whole, acc.part + d * acc.unit),
        part |-> 0, unit |-> 1]
  ELSE [whole |-> acc.whole,
        part |-> acc.part + (d - 32) * acc.unit, unit |-> acc.unit * 32]

Varints(text) == FoldLeft(Digit, Start, text)

CutOff(text) == Varints(text).unit # 1

(* ~(u >> 1) is -(u \div 2) - 1.                                           *)
Signed(u) == IF u % 2 = 1 THEN -(u \div 2) - 1 ELSE u \div 2

(* Points from the differences between them, "arity" numbers to a point.  *)
Points(numbers, arity) ==
  LET Delta(k, j) == Signed(numbers[arity * (k - 1) + j])
      Next(line, k) ==
        LET from == IF line = <<>> THEN <<0, 0>> ELSE line[Len(line)]
        IN  Append(line, <<from[1] + Delta(k, 1), from[2] + Delta(k, 2)>>)
  IN  FoldLeft(Next, <<>>, [k \in 1..(Len(numbers) \div arity) |-> k])

(* _decode_polyline: what is cut off is left out.                          *)
DecodePolyline(text) == Points(Varints(text).whole, 2)

(* _decode_flexible_polyline: without "ok" it raises MapsProviderError.  A *)
(* third dimension is read and left out.                                   *)
Truncated == [ok |-> FALSE, line |-> <<>>]
DecodeFlexible(text) ==
  LET numbers == Varints(text).whole
      arity == IF (numbers[2] \div 16) % 8 = 0 THEN 2 ELSE 3
      body == SubSeq(numbers, 3, Len(numbers))
  IN  IF text = <<>> THEN [ok |-> TRUE, line |-> <<>>]
      ELSE IF numbers = <<>> THEN Truncated
      ELSE IF numbers[1] % 16 # 1 THEN Truncated
      ELSE IF Len(numbers) = 1 THEN Truncated
      ELSE IF CutOff(text) \/ Len(body) % arity # 0 THEN Truncated
      ELSE [ok |-> TRUE, line |-> Points(body, arity)]

-----------------------------------------------------------------------------
(* The services' own encoders.                                             *)

Unsigned(n) == IF n < 0 THEN -2 * n - 1 ELSE 2 * n

Digits[u \in Nat] ==
  IF u < 32 THEN <<u>> ELSE <<(u % 32) + 32>> \o Digits[u \div 32]

Written(numbers) == FlattenSeq([i \in DOMAIN numbers |-> Digits[numbers[i]]])

(* The differences between the points; in a third dimension they climb by  *)
(* one per point.                                                          *)
Deltas(line, arity) ==
  LET Of(k, j) ==
        IF j = 3 THEN 1 ELSE line[k][j] - (IF k = 1 THEN 0 ELSE line[k - 1][j])
  IN  [i \in 1..(arity * Len(line)) |->
         Unsigned(Of(1 + ((i - 1) \div arity), 1 + ((i - 1) % arity)))]

EncodePolyline(line) == Written(Deltas(line, 2))

(* "third" is the kind of a third dimension, 0 for none.                   *)
EncodeFlexible(line, third) ==
  Written(<<1, 5 + 16 * third>> \o Deltas(line, IF third = 0 THEN 2 ELSE 3))
=============================================================================
