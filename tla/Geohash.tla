-------------------------------- MODULE Geohash --------------------------------
(***************************************************************************)
(* geo/geohash.go: Encode, DecodeBounds and CoverBoundingBox.  The world   *)
(* is a square of Side by Side units, which stand for the degrees that     *)
(* bisection comes to; a geohash is the sequence of its characters, and a  *)
(* character its index in base32, or NoChar when it is not one of them.    *)
(***************************************************************************)
EXTENDS Integers, Sequences, FiniteSets

CONSTANT Side       \* of the world: its repeated halves are whole

ASSUME GeohashAssumption == Side \in Nat \ {0}

NoChar == -1

MaxPrecision == 12

Bound(n, low, high) == IF n < low THEN low ELSE IF n > high THEN high ELSE n

------------------------------------------------------------------------------
(* One axis *)
World == <<0, Side>>

Mid(interval) == (interval[1] + interval[2]) \div 2

Half(interval, bit) ==
    IF bit = 1 THEN <<Mid(interval), interval[2]>> ELSE <<interval[1], Mid(interval)>>

Upper(x, interval) == IF x >= Mid(interval) THEN 1 ELSE 0

(* The intervals that the world is halved to around a coordinate. *)
Around(x) ==
    LET after[k \in 0 .. 5 * MaxPrecision] ==
            IF k = 0 THEN World
            ELSE LET before == after[k - 1] IN Half(before, Upper(x, before))
    IN  after

(* The interval that is left when each bit has said which half to take. *)
Narrowed(bits) ==
    LET after[k \in 0 .. Len(bits)] ==
            IF k = 0 THEN World ELSE Half(after[k - 1], bits[k])
    IN  after[Len(bits)]

------------------------------------------------------------------------------
(* Bits go to the two axes in turn, beginning with the longitude and going *)
(* on across characters.                                                   *)
Axis(i) == IF i % 2 = 1 THEN "lng" ELSE "lat"

BitOf(p, i) ==
    LET x == IF Axis(i) = "lng" THEN p.lng ELSE p.lat
    IN  Upper(x, Around(x)[(i - 1) \div 2])

(* A character has five bits, the first the highest. *)
Weights == <<16, 8, 4, 2, 1>>

Encode(p, precision) ==
    LET Char(i) == 16 * BitOf(p, i) + 8 * BitOf(p, i + 1) + 4 * BitOf(p, i + 2)
                       + 2 * BitOf(p, i + 3) + BitOf(p, i + 4)
    IN  [c \in 1 .. Bound(precision, 1, MaxPrecision) |-> Char(5 * c - 4)]

ReadBit(hash, i) ==
    (hash[((i - 1) \div 5) + 1] \div Weights[((i - 1) % 5) + 1]) % 2

(* Characters that are not of the alphabet are passed over: the k-th is    *)
(* the k-th of the others.                                                 *)
Known(hash) ==
    LET places == {c \in DOMAIN hash : hash[c] # NoChar}
        kth(k) == CHOOSE c \in places : Cardinality({d \in places : d <= c}) = k
    IN  [k \in 1 .. Cardinality(places) |-> hash[kth(k)]]

DecodeBounds(hash) ==
    LET known == Known(hash)
        n == 5 * Len(known)
    IN  [lat |-> Narrowed([k \in 1 .. n \div 2 |-> ReadBit(known, 2 * k)]),
         lng |-> Narrowed([k \in 1 .. (n + 1) \div 2 |-> ReadBit(known, 2 * k - 1)])]

Decode(hash) ==
    LET box == DecodeBounds(hash)
    IN  [lat |-> Mid(box.lat), lng |-> Mid(box.lng)]

(* Fault of a mutant run: a sample is left out, and every other one. *)
EveryOtherSample(interval, last) ==
    {interval[1] + k * ((interval[2] - interval[1]) \div 5) : k \in 0 .. last \div 2}

(* One side of the box is sampled in tenths.  The samples are sums in      *)
(* floating point, and the last of the eleven may miss the box by a        *)
(* rounding error.                                                         *)
Samples(interval, last) ==
    {interval[1] + k * ((interval[2] - interval[1]) \div 10) : k \in 0 .. last}

CoverBoundingBox(box, precision, lastLat, lastLng) ==
    {Encode([lat |-> y, lng |-> x], precision) :
        y \in Samples(box.lat, lastLat), x \in Samples(box.lng, lastLng)}

===============================================================================
