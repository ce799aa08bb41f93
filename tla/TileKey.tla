------------------------------- MODULE TileKey -------------------------------
(***************************************************************************)
(* TileKey (core, geo/tiling): the tiles of a quad tree, each addressed by *)
(* its level, row and column, and the keys that the services know them by. *)
(*                                                                         *)
(* A quad key is the sequence of its digits and a HERE tile the number     *)
(* that the text spells.  Rows and columns are unsigned of a fixed width.  *)
(***************************************************************************)
EXTENDS Integers, Sequences, FiniteSets, FiniteSetsExt

CONSTANT LevelCount     \* 32 in the code: the levels, and the width of a row

TileKeyAssumption == LevelCount \in Nat \ {0}

Levels == 0..(LevelCount - 1)
Quadrants == 0..3
Width == 2 ^ LevelCount
Wrapped(n) == n % Width

FromRowColumnLevel(row, column, level) == [row |-> row, column |-> column, level |-> level]

(* TileKey(): the invalid tile *)
NoTile == FromRowColumnLevel(0, 0, LevelCount)
Root == FromRowColumnLevel(0, 0, 0)

IsValid(tile) ==
    tile.level < LevelCount /\ tile.row < 2 ^ tile.level /\ tile.column < 2 ^ tile.level

---------------------------------------------------------------------------
(* Keys                                                                    *)

Bit(n, i) == (n \div 2 ^ i) % 2

(* The bits of the row and of the column alternate, the column's first,    *)
(* below a bit that marks the level.                                       *)
ToQuadKey64_RowFirst(tile) ==
    4 ^ tile.level
        + MapThenSumSet(LAMBDA i : 4 ^ i * (2 * Bit(tile.column, i) + Bit(tile.row, i)),
                        0..(LevelCount - 1))
ToQuadKey64(tile) ==
    4 ^ tile.level
        + MapThenSumSet(LAMBDA i : 4 ^ i * (2 * Bit(tile.row, i) + Bit(tile.column, i)),
                        0..(LevelCount - 1))

(* Two bits are taken off while the key is more than the marking bit.      *)
FromQuadKey64(key) ==
    LET level == CHOOSE l \in 0..LevelCount : key \div 4 ^ l <= 1 /\ \A k \in 0..(l - 1) : key \div 4 ^ k > 1
        Bits(first) == MapThenSumSet(LAMBDA i : 2 ^ i * Bit(key, 2 * i + first), 0..(level - 1))
    IN  FromRowColumnLevel(Bits(1), Bits(0), level)

RootKey == <<-1>>       \* the text "-"

ToQuadKey(tile) ==
    IF ~IsValid(tile) THEN <<>>
    ELSE IF tile.level = 0 THEN RootKey
    ELSE [i \in 1..tile.level |-> (ToQuadKey64(tile) \div 4 ^ (tile.level - i)) % 4]

FromQuadKey(digits) ==
    IF digits = <<>> THEN NoTile
    ELSE IF digits = RootKey THEN Root
    ELSE LET level == Len(digits)
             Bits(bit) ==
                MapThenSumSet(LAMBDA i : 2 ^ i * Bit(digits[level - i], bit), 0..(level - 1))
         IN  FromRowColumnLevel(Bits(1), Bits(0), level)

ToHereTile(tile) == ToQuadKey64(tile)
FromHereTile(key) == FromQuadKey64(key)

---------------------------------------------------------------------------
(* Relatives                                                               *)

Parent(tile) ==
    IF tile.level > 0 THEN FromRowColumnLevel(tile.row \div 2, tile.column \div 2, tile.level - 1)
    ELSE NoTile

ChangedLevelBy(tile, delta) ==
    LET level == IF tile.level + delta < 0 THEN 0 ELSE tile.level + delta
        Shifted(n) == IF delta >= 0 THEN Wrapped(n * 2 ^ delta) ELSE n \div 2 ^ (-delta)
    IN  FromRowColumnLevel(Shifted(tile.row), Shifted(tile.column), level)

ChangedLevelTo(tile, level) == ChangedLevelBy(tile, level - tile.level)

IsChildOf(tile, other) == tile.level > other.level /\ ChangedLevelTo(tile, other.level) = other
IsParentOf(tile, other) == IsChildOf(other, tile)

(* The lower bit of a quadrant's index is its column, the higher its row.  *)
GetChild_Swapped(tile, index) ==
    LET child == ChangedLevelBy(tile, 1)
    IN  [child EXCEPT !.row = @ + (index % 2), !.column = @ + (index \div 2)]
GetChild(tile, index) ==
    LET child == ChangedLevelBy(tile, 1)
    IN  [child EXCEPT !.column = @ + (index % 2), !.row = @ + (index \div 2)]

RelationshipToParent(tile) ==
    IF tile.level = 0 THEN "Invalid"
    ELSE LET sw == GetChild(Parent(tile), 0)
         IN  2 * (tile.row - sw.row) + tile.column - sw.column

GetSubkey64(tile, delta) == (ToQuadKey64(tile) % 4 ^ delta) + 4 ^ delta

(* The key is shifted to where the marking bit of the sub key stands.      *)
AddedSubkey64(tile, sub_key) ==
    LET digits == CHOOSE n \in 0..LevelCount : 4 ^ n <= sub_key /\ sub_key < 4 ^ (n + 1)
    IN  FromQuadKey64(ToQuadKey64(tile) * 4 ^ digits + (sub_key % 4 ^ digits))

Added(tile, sub) ==
    LET child == ChangedLevelBy(tile, sub.level)
    IN  FromRowColumnLevel(Wrapped(child.row + sub.row), Wrapped(child.column + sub.column),
                           child.level)

AddedSubkey(tile, digits) == Added(tile, FromQuadKey(IF digits = <<>> THEN RootKey ELSE digits))
AddedSubHereTile(tile, key) == Added(tile, FromHereTile(key))

---------------------------------------------------------------------------
(* Neighbours                                                              *)

HasNextRow(tile) == tile.row < 2 ^ tile.level - 1
HasNextColumn(tile) == tile.column < 2 ^ tile.level - 1
HasPreviousRow(tile) == tile.row > 0
HasPreviousColumn(tile) == tile.column > 0

NextRow(tile) == [tile EXCEPT !.row = Wrapped(@ + 1)]
NextColumn(tile) == [tile EXCEPT !.column = Wrapped(@ + 1)]
PreviousRow(tile) == [tile EXCEPT !.row = Wrapped(@ - 1)]
PreviousColumn(tile) == [tile EXCEPT !.column = Wrapped(@ - 1)]

---------------------------------------------------------------------------
(* Sets of levels                                                          *)

NoLevel == -1
GetMinTileKeyLevel(levels) == IF levels = {} THEN NoLevel ELSE Min(levels)
GetMaxTileKeyLevel(levels) == IF levels = {} THEN NoLevel ELSE Max(levels)

(* From the reference level, moved into the range of the levels, one       *)
(* searches outward, a deeper level before the other of the same distance. *)
GetNearestAvailableTileKeyLevel(levels, reference) ==
    IF levels = {} THEN NoLevel
    ELSE LET lowest == GetMinTileKeyLevel(levels)
             level == Max({Min({reference, GetMaxTileKeyLevel(levels)}), lowest})
             At(dist) == {level + dist, level - dist} \cap levels
             dist == CHOOSE d \in Levels : At(d) # {} /\ \A c \in 0..(d - 1) : At(c) = {}
         IN  Max(At(dist))
=============================================================================
