SPECIFICATION GeoSpec
CONSTANTS
    d1 = d1
    d2 = d2
    d3 = d3
    Drivers = {d1, d2, d3}
    Points <- MCPoints
    Corners <- MCCorners
    CellSize = 60
    Side = 640
    RoundsEast <- MCRoundsEast
    Precisions = {1, 2}
INVARIANTS
    NearbyIsExact
    ZonesPartition
    AreaIsCovered
SYMMETRY Symmetry
