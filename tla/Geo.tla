---------------------------------- MODULE Geo ----------------------------------
(***************************************************************************)
(* The parts of geo/ that a dispatcher puts together: drivers move and are *)
(* kept in the H3 index, a service area that is divided into two zones     *)
(* says who may be sent where, and the geohashes that cover the area say   *)
(* which keys to look for drivers under.                                   *)
(*                                                                         *)
(* Areas and zones come out of GeoJSON.                                    *)
(***************************************************************************)
EXTENDS Geohash, Polygon, DriverIndex

CONSTANTS
    Corners,        \* for each corner of an area, the points it may be at
    Precisions      \* of the geohashes

ASSUME GeoAssumption ==
    /\ DOMAIN Corners = 1 .. 4
    /\ \A i \in 1 .. 4 : Corners[i] \subseteq [lat : Int, lng : Int]
    /\ Points \subseteq [lat : 0 .. Side, lng : 0 .. Side]
    /\ Precisions \subseteq Nat

VARIABLES
    fences,     \* the geofences, by name
    covers      \* for each precision, the geohashes that cover the area

geoVars == <<indexVars, fences, covers>>

Fence(type, polygon) ==
    [type |-> type, polygon |-> FromGeoJSON(ToGeoJSON(polygon))]

(* The area abcd, and what a cut from a to c makes of it. *)
Divided(a, b, c, d) ==
    [area |-> Fence("service_area", <<a, b, c, d>>),
     east |-> Fence("surge_zone", <<a, b, c>>),
     west |-> Fence("surge_zone", <<a, c, d>>)]

AreaBox == BoundingBox(fences.area.polygon)

GeoInit ==
    /\ IndexInit
    /\ \E a \in Corners[1], b \in Corners[2], c \in Corners[3], d \in Corners[4] :
          fences = Divided(a, b, c, d)
    /\ \E lastLat, lastLng \in {9, 10} :
          covers = [n \in Precisions |-> CoverBoundingBox(AreaBox, n, lastLat, lastLng)]

GeoNext == IndexNext /\ UNCHANGED <<fences, covers>>

GeoSpec == GeoInit /\ [][GeoNext]_geoVars

------------------------------------------------------------------------------
GeoTypeOK ==
    /\ IndexTypeOK
    /\ DOMAIN fences = {"area", "east", "west"}
    /\ DOMAIN covers = Precisions

Positions == {at[d] : d \in DOMAIN at}

Within(interval, x) == interval[1] <= x /\ x <= interval[2]

(* The cut runs through the point, and float64 rounds where.               *)
OnRoundedCut(p) ==
    LET a == fences.area.polygon[1]
        c == fences.area.polygon[3]
    IN  Rounded(a, c, p) \/ Rounded(c, a, p)

(* A driver in the service area is in one of the two zones and not in      *)
(* both, wherever the area's edges and the cut run, on its edges and       *)
(* corners and along an upright cut too; one outside the area is in        *)
(* neither.  The zones walk a slanted cut in opposite directions, so that  *)
(* a driver on it may be in both or in none: who is there is left out.     *)
(* Nobody at all is in a polygon without being in its bounding box.        *)
ZonesPartition ==
    \A p \in Positions :
        /\ OnRoundedCut(p)
           \/ (IsInServiceArea(Range(fences), p)
                  <=> Cardinality(FindByType(Range(fences), p, "surge_zone")) = 1)
        /\ \A f \in FindContaining(Range(fences), p) :
              LET box == BoundingBox(f.polygon)
              IN  Within(box.lat, p.lat) /\ Within(box.lng, p.lng)

Tenth(interval) == (interval[2] - interval[1]) \div 10

(* The box is at most ten of the cells wide and high. *)
FineEnough(box, hash) ==
    LET cell == DecodeBounds(hash)
    IN  \A axis \in {"lat", "lng"} :
            Tenth(box[axis]) <= cell[axis][2] - cell[axis][1]

(* "CoverBoundingBox returns geohashes that cover a bounding box" (line    *)
(* 252): a driver in the area has its geohash among them, and lies in the  *)
(* bounds the geohash decodes to.  That takes cells no smaller than the    *)
(* distance of two samples, and holds up to the last sample.               *)
AreaIsCovered ==
    \A p \in Positions, n \in Precisions :
        LET hash == Encode(p, n)
            cell == DecodeBounds(hash)
        IN  /\ Within(cell.lat, p.lat) /\ Within(cell.lng, p.lng)
            /\ Encode(Decode(hash), n) = hash
            /\ /\ Contains(fences.area.polygon, p)
               /\ FineEnough(AreaBox, hash)
               /\ p.lat <= AreaBox.lat[1] + 9 * Tenth(AreaBox.lat)
               /\ p.lng <= AreaBox.lng[1] + 9 * Tenth(AreaBox.lng)
               => hash \in covers[n]

===============================================================================
