------------------------------ MODULE DriverIndex ------------------------------
(***************************************************************************)
(* H3DriverIndex of geo/h3.go: for each cell the drivers in it, and for    *)
(* each driver its cell.  It has no lock, so one goroutine uses it.        *)
(*                                                                         *)
(* H3 is the external part: points lie in hexagonal cells, whose axial     *)
(* coordinates stand for their names.                                      *)
(***************************************************************************)
EXTENDS Integers, Sequences, FiniteSets, FiniteSetsExt, Functions

CONSTANTS
    Drivers,
    Points,         \* where drivers are and pickups are asked for
    CellSize        \* of a cell, along either axis

ASSUME IndexAssumption ==
    /\ CellSize \in Nat \ {0}
    /\ Points \subseteq [lat : Int, lng : Int]

VARIABLES
    cells,      \* the drivers of each cell that has any, in a list
    drivers,    \* the cell of each driver in the index
    at          \* where each driver in the index was last said to be

indexVars == <<cells, drivers, at>>

------------------------------------------------------------------------------
(* H3 *)
LatLngToCell(p) == <<p.lng \div CellSize, p.lat \div CellSize>>

Abs(n) == IF n < 0 THEN -n ELSE n

GridDistance(c, d) ==
    LET q == c[1] - d[1]
        r == c[2] - d[2]
    IN  (Abs(q) + Abs(r) + Abs(q + r)) \div 2

(* The cell and those around it, ring by ring. *)
GridDisk(c, k) ==
    {<<c[1] + o[1], c[2] + o[2]>> :
        o \in {x \in (-k .. k) \X (-k .. k) : Abs(x[1] + x[2]) <= k}}

------------------------------------------------------------------------------
IndexInit ==
    /\ cells = <<>>
    /\ drivers = <<>>
    /\ at = <<>>

(* An entry of a map is written, or taken out. *)
Put(map, key, value) ==
    [k \in DOMAIN map \cup {key} |-> IF k = key THEN value ELSE map[k]]
Without(map, key) == [k \in DOMAIN map \ {key} |-> map[k]]

Listed(lists, cell) == IF cell \in DOMAIN lists THEN lists[cell] ELSE <<>>

(* The list from one place on moves up over it. *)
Spliced(list, i) ==
    [j \in 1 .. Len(list) - 1 |-> IF j < i THEN list[j] ELSE list[j + 1]]

(* The driver is taken out where he first is in the list, and a cell that  *)
(* is left without drivers out of the map.                                 *)
RemoveFromCell(lists, d, cell) ==
    LET list == Listed(lists, cell)
        places == {i \in DOMAIN list : list[i] = d}
        rest == IF places = {} THEN list ELSE Spliced(list, Min(places))
    IN  IF rest = <<>> THEN Without(lists, cell) ELSE Put(lists, cell, rest)

(* Nothing changes when the driver is still in its cell. *)
UpdateDriver(d, p) ==
    LET cell == LatLngToCell(p)
        known == d \in DOMAIN drivers
        rest == IF known THEN RemoveFromCell(cells, d, drivers[d]) ELSE cells
    IN  /\ at' = Put(at, d, p)
        /\ IF known /\ drivers[d] = cell
           THEN UNCHANGED <<cells, drivers>>
           ELSE /\ drivers' = Put(drivers, d, cell)
                /\ cells' = Put(rest, cell, Append(Listed(rest, cell), d))

(* Fault of a mutant run: the driver's cell is not forgotten, and a driver *)
(* that comes back to it counts as still there.                            *)
RemoveFromListOnly(d) ==
    /\ d \in DOMAIN at
    /\ cells' = RemoveFromCell(cells, d, drivers[d])
    /\ at' = Without(at, d)
    /\ UNCHANGED drivers

RemoveDriver(d) ==
    /\ d \in DOMAIN drivers
    /\ cells' = RemoveFromCell(cells, d, drivers[d])
    /\ drivers' = Without(drivers, d)
    /\ at' = Without(at, d)

IndexNext ==
    \E d \in Drivers : RemoveDriver(d) \/ \E p \in Points : UpdateDriver(d, p)

GetDriversNearby(pickup, kRings) ==
    UNION {Range(cells[c]) : c \in DOMAIN cells \cap GridDisk(LatLngToCell(pickup), kRings)}

GetDriverCount == Cardinality(DOMAIN drivers)
GetCellStats == [c \in DOMAIN cells |-> Len(cells[c])]

------------------------------------------------------------------------------
IndexTypeOK ==
    /\ DOMAIN cells \subseteq {LatLngToCell(p) : p \in Points}
    /\ \A c \in DOMAIN cells : cells[c] \in Seq(Drivers) /\ cells[c] # <<>>
    /\ DOMAIN drivers \subseteq Drivers
    /\ DOMAIN at \subseteq Drivers
    /\ \A d \in DOMAIN at : at[d] \in Points

(* Around any pickup the index finds the drivers whose last position is in *)
(* one of the rings, all of them and no other, after any sequence of       *)
(* moves, removals and returns.  Its two maps count the same drivers: all  *)
(* of them, and for each cell those in it, in the cells that have any.     *)
NearbyIsExact ==
    /\ \A pickup \in Points, k \in 0 .. 2 :
          GetDriversNearby(pickup, k) =
              {d \in DOMAIN at :
                  GridDistance(LatLngToCell(at[d]), LatLngToCell(pickup)) <= k}
    /\ GetDriverCount = Cardinality(DOMAIN at)
    /\ GetCellStats =
          [c \in {LatLngToCell(at[d]) : d \in DOMAIN at} |->
              Cardinality({d \in DOMAIN at : LatLngToCell(at[d]) = c})]

===============================================================================
