----------------------- MODULE PrefetchTilesRepository -----------------------
(***************************************************************************)
(* PrefetchTilesRepository (dataservice-read): from the tiles of a         *)
(* prefetch request and its levels EffectiveTileKeys finds the quads to    *)
(* ask the service for, each with a depth, and GetSubTiles asks for them   *)
(* and collects the tiles that the service knows.                          *)
(*                                                                         *)
(* EffectiveTileKeys calls itself for the tiles below a tile; the calls    *)
(* that are still to be made are in a stack.  The code collects the quads  *)
(* of a call in a map of its own and merges it into the caller's, keeping  *)
(* the greater depth; here they are merged as they are found.              *)
(***************************************************************************)
EXTENDS TileKey, SequencesExt

CONSTANTS
    Requests,       \* requests: their tiles and their least and greatest level
    MaxDepth,       \* kMaxQuadTreeIndexDepth, 4 in the code
    Existing,       \* the tiles that the service knows
    MaxFaults       \* bound on the answers other than a list of tiles

PrefetchTilesAssumption == MaxDepth \in Nat \ {0} /\ MaxFaults \in Nat

VARIABLES
    request,        \* [tiles, min, max]
    at,             \* "walk", "ask", "done" or "failed"
    calls,          \* calls of EffectiveTileKeys to be made: <<tile, add_ancestors>>
    ancestor,       \* the tile of the loop in AddParents, or NoLoop
    quads,          \* SubQuadsRequest: from each tile to the depth asked for
    result,         \* SubTilesResult: the tiles collected
    stored,         \* the partitions put into the cache, named by HERE tiles
    faults, unknown \* faults so far, and the quads answered with 404

(* The request that the default constructor makes.                         *)
PrefetchTilesRequest == [tiles |-> <<>>, min |-> 0, max |-> 0]

(* Requests on which WithMinLevel was not called: the least level is zero. *)
LevelZero ==
    {[PrefetchTilesRequest EXCEPT !.tiles = <<FromRowColumnLevel(1, 0, 1)>>, !.max = 1]}

walkVars == <<calls, ancestor, quads>>
askVars == <<result, stored, faults, unknown>>
tilesVars == <<request, at, walkVars, askVars>>

NoLoop == FromRowColumnLevel(0, 0, -1)

(* EffectiveTileKeys of the request's tiles, one after the other.          *)
Init ==
    /\ request \in Requests
    /\ at = "walk"
    /\ calls = [i \in DOMAIN request.tiles |-> <<request.tiles[i], TRUE>>]
    /\ ancestor = NoLoop /\ quads = <<>>
    /\ result = <<>> /\ stored = {} /\ faults = 0 /\ unknown = {}

---------------------------------------------------------------------------
(* EffectiveTileKeys                                                       *)

(* A quad that was found before keeps the greater depth.                   *)
Merge_Last(tile, depth) ==
    quads' = [t \in DOMAIN quads \cup {tile} |-> IF t # tile THEN quads[t] ELSE depth]
Merge(tile, depth) ==
    quads' = [t \in DOMAIN quads \cup {tile} |->
                IF t # tile THEN quads[t]
                ELSE IF t \in DOMAIN quads THEN Max({quads[t], depth}) ELSE depth]

(* The children that the recursion of GetChildAtLevel ends with, in order. *)
(* Its loop over the children of a tile has kMaxQuadTreeIndexDepth rounds, *)
(* which is also the number of quadrants.                                  *)
Children(tiles) ==
    [i \in 1..(4 * Len(tiles)) |-> GetChild(tiles[((i - 1) \div 4) + 1], (i - 1) % 4)]

GetChildAtLevel(tile, level) ==
    FoldLeft(LAMBDA tiles, l : Children(tiles), <<tile>>, [l \in 1..(level - tile.level) |-> l])

CallsFor(tiles) == [i \in DOMAIN tiles |-> <<tiles[i], FALSE>>]

Tile == Head(calls)[1]
AddAncestors == Head(calls)[2]
Walking == at = "walk" /\ calls # <<>> /\ ancestor = NoLoop

(* The tile is deeper than the greatest level: AddParents is the call.     *)
AboveMaximum ==
    /\ Walking /\ Tile.level > request.max
    /\ ancestor' = Parent(Tile) /\ calls' = Tail(calls)
    /\ UNCHANGED <<request, at, quads, askVars>>

(* The tile is above the least level: start from its children there.       *)
BelowMinimum ==
    /\ Walking /\ Tile.level <= request.max /\ Tile.level < request.min
    /\ calls' = CallsFor(GetChildAtLevel(Tile, request.min)) \o Tail(calls)
    /\ UNCHANGED <<request, at, ancestor, quads, askVars>>

(* The tile is within the levels: AddParents if it is the request's own,   *)
(* the tile with as much depth as the service takes, and calls for the     *)
(* children below that depth.                                              *)
Deeper(tile) == tile.level + MaxDepth + 1

WithinLevels ==
    LET depth == request.max - Tile.level IN
    /\ Walking /\ Tile.level <= request.max /\ Tile.level >= request.min
    /\ ancestor' = IF AddAncestors THEN Parent(Tile) ELSE NoLoop
    /\ IF depth <= MaxDepth
       THEN Merge(Tile, depth) /\ calls' = Tail(calls)
       ELSE /\ Merge(Tile, MaxDepth)
            /\ calls' = CallsFor(GetChildAtLevel(Tile, Deeper(Tile))) \o Tail(calls)
    /\ UNCHANGED <<request, at, askVars>>

(* AddParents: the parent of the root is the invalid tile, whose level is  *)
(* deeper than any.                                                        *)
MoreParents_NotLeast == ancestor # NoLoop /\ ancestor.level > request.min
MoreParents == ancestor # NoLoop /\ ancestor.level >= request.min

AddParent ==
    /\ MoreParents
    /\ IF ancestor.level <= request.max THEN Merge(ancestor, 0) ELSE UNCHANGED quads
    /\ ancestor' = Parent(ancestor)
    /\ UNCHANGED <<request, at, calls, askVars>>

ParentsAdded ==
    /\ ancestor # NoLoop /\ ~MoreParents
    /\ ancestor' = NoLoop
    /\ UNCHANGED <<request, at, calls, quads, askVars>>

(* "TileKeys/levels mismatch" if there is no quad to ask for.              *)
Walked ==
    /\ at = "walk" /\ calls = <<>> /\ ancestor = NoLoop
    /\ at' = IF quads = <<>> THEN "failed" ELSE "ask"
    /\ UNCHANGED <<request, walkVars, askVars>>

---------------------------------------------------------------------------
(* GetSubTiles and GetSubQuads                                             *)

(* The next quad of the map, whose order the result does not depend on.    *)
Quad == CHOOSE t \in DOMAIN quads : TRUE
Rest == [t \in DOMAIN quads \ {Quad} |-> quads[t]]
Asking == at = "ask" /\ quads # <<>>

(* What the service answers for a quad: the tiles it knows down to the     *)
(* depth, each with its key below the quad.                                *)
Subquads(tile, depth) ==
    {GetSubkey64(t, t.level - tile.level) :
        t \in {e \in Existing : e.level <= tile.level + depth /\ (e = tile \/ IsChildOf(e, tile))}}

Found ==
    LET subtiles == {AddedSubHereTile(Quad, key) : key \in Subquads(Quad, quads[Quad])} IN
    /\ Asking
    /\ result' = result \o SetToSeq(subtiles)
    /\ stored' = stored \cup {ToHereTile(t) : t \in subtiles}
    /\ quads' = Rest
    /\ UNCHANGED <<request, at, calls, ancestor, faults, unknown>>

(* 404 Not Found is no error.                                              *)
NotFound ==
    /\ Asking /\ faults < MaxFaults
    /\ faults' = faults + 1 /\ quads' = Rest
    /\ unknown' = unknown \cup {<<Quad, quads[Quad]>>}
    /\ UNCHANGED <<request, at, calls, ancestor, result, stored>>

(* Any other error, a failed lookup of the service, a cancelled context.   *)
Fail ==
    /\ Asking /\ faults < MaxFaults
    /\ at' = "failed" /\ faults' = faults + 1
    /\ UNCHANGED <<request, walkVars, result, stored, unknown>>

(* "Subquads retrieval failed" if nothing was found.                       *)
Collected ==
    /\ at = "ask" /\ quads = <<>>
    /\ at' = IF result = <<>> THEN "failed" ELSE "done"
    /\ UNCHANGED <<request, walkVars, askVars>>

Next ==
    \/ AboveMaximum \/ BelowMinimum \/ WithinLevels \/ AddParent \/ ParentsAdded \/ Walked
    \/ Found \/ NotFound \/ Fail \/ Collected

(* The task that prefetches runs to its end.                               *)
Spec == Init /\ [][Next]_tilesVars /\ WF_tilesVars(Next)
---------------------------------------------------------------------------
(* "Tile keys below the maximum tile level have the ancestors fetched from *)
(* the minimum tile level": the tiles between the levels that lie above or *)
(* below a tile of the request.                                            *)
Related(t, o) == t = o \/ IsChildOf(t, o) \/ IsChildOf(o, t)
Wanted(t) == t.level \in request.min..request.max /\ \E o \in ToSet(request.tiles) : Related(t, o)

Covers(quad, depth, t) ==
    (t = quad \/ IsChildOf(t, quad)) /\ t.level <= quad.level + depth

(* A prefetch that succeeds has every tile that it should have and none    *)
(* else, however the levels are split into quads of the depth that the     *)
(* service takes: the tiles of the result and the partitions in the cache  *)
(* are those wanted that the service knows, but for the quads it did not.  *)
(* At any time nothing unwanted is asked for or stored.                    *)
TilesExact ==
    LET got == ToSet(result) IN
    /\ \A t \in DOMAIN quads :
        quads[t] <= MaxDepth /\ Wanted(t) /\ t.level + quads[t] <= request.max
    /\ \A t \in got : t \in Existing /\ Wanted(t)
    /\ stored = {ToHereTile(t) : t \in got}
    /\ at = "done" =>
        \A t \in Existing : Wanted(t) => t \in got \/ \E u \in unknown : Covers(u[1], u[2], t)

(* The walk comes to an end.                                               *)
WalkEnds == <>(at # "walk")
=============================================================================
