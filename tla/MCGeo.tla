--------------------------------- MODULE MCGeo ---------------------------------
(***************************************************************************)
(* Points and corners for the run of Geo.  The world is 640 units wide:    *)
(* cells of one character are 80 by 160 units, those of two 20 by 20.      *)
(***************************************************************************)
EXTENDS Geo, TLC

CONSTANTS d1, d2, d3

Symmetry == Permutations(Drivers)

At(lat, lng) == [lat |-> lat, lng |-> lng]

(* An edge comes to lie too far east when it is computed from its upper    *)
(* end, as from (1, 1.1) to (0, 0.1) in float64.                           *)
MCRoundsEast(a, b, p) == a.lat > b.lat

(* Corners at which an area is ten cells of two characters wide, or more,  *)
(* or has a level or an upright edge, or is cut uprightly.                 *)
MCCorners ==
    <<{At(100, 100), At(100, 300)}, {At(100, 320), At(140, 320)},
      {At(300, 300), At(260, 340)}, {At(300, 100), At(280, 140)}>>

(* On corners and west of them, on edges, on the cuts, and near the end of *)
(* the samples.                                                            *)
MCPoints ==
    {At(100, 100), At(300, 300), At(200, 200), At(100, 200), At(200, 300),
     At(279, 279), At(150, 161), At(100, 300), At(100, 61), At(260, 320)}
===============================================================================
