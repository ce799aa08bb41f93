------------------------------- MODULE TilePath -------------------------------
(***************************************************************************)
(* What a tile's key is meant to be: the quadrants on the way from the     *)
(* root to the tile.  The behaviours walk the quad tree with the methods   *)
(* of TileKey, and path says in its own terms where they should have got.  *)
(***************************************************************************)
EXTENDS TileKey, SequencesExt

VARIABLES
    tile,           \* the tile that the methods return
    path            \* the quadrants from the root to it

pathVars == <<tile, path>>

Init == tile = Root /\ path = <<>>

Child(index) ==
    /\ tile.level + 1 < LevelCount
    /\ tile' = GetChild(tile, index) /\ path' = Append(path, index)

ToParent ==
    /\ tile.level > 0
    /\ tile' = Parent(tile) /\ path' = Front(path)

(* The first child at a deeper level, or the ancestor at a higher one.     *)
ChangeLevel(level) ==
    /\ tile' = ChangedLevelTo(tile, level)
    /\ path' = [i \in 1..level |-> IF i <= Len(path) THEN path[i] ELSE 0]

AddSub(digits) ==
    /\ tile.level + Len(digits) < LevelCount
    /\ tile' = AddedSubkey(tile, digits) /\ path' = path \o digits

(* The neighbour of a row above has the path of the next row: its digits   *)
(* change from the right for as long as a quadrant is in the upper half.   *)
Stepped(bit, up) ==
    LET high(q) == (q \div bit) % 2 = 1
        carries == {i \in DOMAIN path : \A j \in i..Len(path) : high(path[j]) = up}
        first == Len(path) - Cardinality(carries)
        flip(q) == IF high(q) THEN q - bit ELSE q + bit
    IN  [i \in DOMAIN path |-> IF i >= first THEN flip(path[i]) ELSE path[i]]

Neighbour ==
    \/ HasNextRow(tile) /\ tile' = NextRow(tile) /\ path' = Stepped(2, TRUE)
    \/ HasPreviousRow(tile) /\ tile' = PreviousRow(tile) /\ path' = Stepped(2, FALSE)
    \/ HasNextColumn(tile) /\ tile' = NextColumn(tile) /\ path' = Stepped(1, TRUE)
    \/ HasPreviousColumn(tile) /\ tile' = PreviousColumn(tile) /\ path' = Stepped(1, FALSE)

Next ==
    \/ \E index \in Quadrants : Child(index)
    \/ ToParent
    \/ \E level \in Levels : ChangeLevel(level)
    \/ \E first, second \in Quadrants : AddSub(<<first, second>>)
    \/ Neighbour

Spec == Init /\ [][Next]_pathVars
---------------------------------------------------------------------------
(* Whatever the methods that led to a tile, its keys spell its path, from  *)
(* either key the tile is found again, and what is said of its relatives   *)
(* agrees with the path: the parent's quadrant, the ancestors, and the key *)
(* below an ancestor, with which the services answer (AddedSubHereTile).   *)
KeyIsPath ==
    LET ancestor(n) == ChangedLevelBy(tile, -n)
    IN  /\ IsValid(tile) /\ tile.level = Len(path)
        /\ ToQuadKey(tile) = IF path = <<>> THEN RootKey ELSE path
        /\ FromQuadKey(ToQuadKey(tile)) = tile
        /\ FromHereTile(ToHereTile(tile)) = tile
        /\ RelationshipToParent(tile) = IF path = <<>> THEN "Invalid" ELSE Last(path)
        /\ IF path = <<>> THEN Parent(tile) = NoTile ELSE Parent(tile) = ancestor(1)
        /\ \A n \in 0..Len(path) :
            LET sub == GetSubkey64(tile, n)
            IN  /\ ToQuadKey(ancestor(n)) =
                    IF n = Len(path) THEN RootKey ELSE SubSeq(path, 1, Len(path) - n)
                /\ AddedSubkey64(ancestor(n), sub) = tile
                /\ AddedSubHereTile(ancestor(n), sub) = tile
                /\ AddedSubkey(ancestor(n), SubSeq(path, Len(path) - n + 1, Len(path))) = tile
                /\ IsParentOf(ancestor(n), tile) <=> n > 0

(* The nearest of a set of levels is one of them, and none is nearer to    *)
(* the tile's own level.                                                   *)
Distance(level) == IF level > tile.level THEN level - tile.level ELSE tile.level - level

NearestLevel ==
    \A levels \in SUBSET Levels \ {{}} :
        LET nearest == GetNearestAvailableTileKeyLevel(levels, tile.level)
        IN  nearest \in levels /\ \A l \in levels : Distance(nearest) <= Distance(l)
=============================================================================
