-------------------------------- MODULE Polygon --------------------------------
(***************************************************************************)
(* geo/polygon.go: polygons, their way through GeoJSON, and geofences.     *)
(*                                                                         *)
(* Coordinates are integers, in a unit so coarse (ten metres, say) that    *)
(* float64 tells a point off the line of an edge from those on it.  On     *)
(* the line itself its rounding decides, and differently from either end.  *)
(***************************************************************************)
EXTENDS Integers, Sequences, FiniteSetsExt

CONSTANT RoundsEast(_, _, _)    \* whether the edge, computed from its first
                                \* end, comes to lie east of a point on it

(* The two ends of the edge are on different sides of the point's          *)
(* latitude, an end on it counting as below.                               *)
Straddles(a, b, p) == (a.lat > p.lat) # (b.lat > p.lat)

(* The edge lies east of the point at the point's latitude: the code's     *)
(* quotient, multiplied out.                                               *)
IsEast(a, b, p) ==
    LET left == (p.lng - a.lng) * (b.lat - a.lat)
        right == (b.lng - a.lng) * (p.lat - a.lat)
    IN  IF b.lat > a.lat THEN left < right ELSE left > right

(* The point is on the edge, and the quotient is not exact.  It is when    *)
(* the edge is upright, and at the end it starts from: it is 0 then.       *)
Rounded(a, b, p) ==
    /\ Straddles(a, b, p)
    /\ (p.lng - a.lng) * (b.lat - a.lat) = (b.lng - a.lng) * (p.lat - a.lat)
    /\ a.lng # b.lng
    /\ p.lat # a.lat

(* Fault of a mutant run: an end at the point's latitude counts as above   *)
(* on one side of the edge and as below on the other.                      *)
CrossesUnevenly(a, b, p) ==
    /\ (a.lat >= p.lat) # (b.lat > p.lat)
    /\ IsEast(a, b, p) \/ (Rounded(a, b, p) /\ RoundsEast(a, b, p))

(* Line 33: the ray that goes east from the point crosses the edge.        *)
Crosses(a, b, p) ==
    /\ Straddles(a, b, p)
    /\ IsEast(a, b, p) \/ (Rounded(a, b, p) /\ RoundsEast(a, b, p))

Before(i, n) == IF i = 1 THEN n ELSE i - 1

(* Each crossing turns inside into outside and back. *)
Contains(polygon, p) ==
    LET n == Len(polygon)
        crossed == {i \in 1 .. n : Crosses(polygon[i], polygon[Before(i, n)], p)}
    IN  n >= 3 /\ Cardinality(crossed) % 2 = 1

BoundingBox(polygon) ==
    LET lats == {polygon[i].lat : i \in DOMAIN polygon}
        lngs == {polygon[i].lng : i \in DOMAIN polygon}
    IN  IF polygon = <<>> THEN [lat |-> <<0, 0>>, lng |-> <<0, 0>>]
        ELSE [lat |-> <<Min(lats), Max(lats)>>,
              lng |-> <<Min(lngs), Max(lngs)>>]

(* A ring of GeoJSON is a sequence of pairs <<lng, lat>>, closed by its    *)
(* first one.  FromGeoJSON drops the last pair whatever it is, and pairs   *)
(* that are too short: its k-th point is the k-th of the others.           *)
Pair(p) == <<p.lng, p.lat>>

ToGeoJSON(polygon) ==
    IF polygon = <<>> THEN <<<<>>>>
    ELSE [i \in DOMAIN polygon |-> Pair(polygon[i])] \o <<Pair(polygon[1])>>

FromGeoJSON(ring) ==
    LET long == {i \in 1 .. Len(ring) - 1 : Len(ring[i]) >= 2}
        kth(k) == CHOOSE i \in long : Cardinality({j \in long : j <= i}) = k
    IN  [k \in 1 .. Cardinality(long) |->
            [lat |-> ring[kth(k)][2], lng |-> ring[kth(k)][1]]]

(* Geofences have a type and a polygon; one that has none holds no point,  *)
(* like the empty polygon.                                                 *)
FindContaining(fences, p) == {f \in fences : Contains(f.polygon, p)}
FindByType(fences, p, type) == {f \in FindContaining(fences, p) : f.type = type}
IsInServiceArea(fences, p) == FindByType(fences, p, "service_area") # {}

===============================================================================
