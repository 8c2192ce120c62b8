------------------------------ MODULE Geofence ------------------------------
(***************************************************************************)
(* The geofence test of internal/alertengine/geofence.go, on coordinates   *)
(* that are integers: the comparison with the crossing of an edge is made  *)
(* exactly, multiplied out, where the code divides in floating point.      *)
(***************************************************************************)
EXTENDS Integers, Sequences, FiniteSets

CONSTANTS
  Grid,        \* bound: the coordinates of vertices and vehicles
  MaxVertices  \* bound: vertices of a fence

ASSUME GridAssumption == Grid \subseteq Int /\ MaxVertices \in Nat

VARIABLE fence  \* Polygon.Points

Point == [lat : Grid, lon : Grid]

Lats(points) == {points[i].lat : i \in DOMAIN points}
Lons(points) == {points[i].lon : i \in DOMAIN points}

(* The bounding box of NewPolygon, borders included. *)
InBox(points, pt) ==
  /\ (\E y \in Lats(points) : y <= pt.lat) /\ (\E y \in Lats(points) : pt.lat <= y)
  /\ (\E x \in Lons(points) : x <= pt.lon) /\ (\E x \in Lons(points) : pt.lon <= x)

(* Twice the area of the triangle abp, negative if p is to the right of    *)
(* the way from a to b.                                                    *)
Side(a, b, p) ==
  (b.lon - a.lon) * (p.lat - a.lat) - (b.lat - a.lat) * (p.lon - a.lon)

(* Mutant of Spans: an edge has both its ends, so that a vertex counts for *)
(* both edges that meet in it.                                             *)
SpansClosed(a, b, pt) ==
  \/ a.lat <= pt.lat /\ pt.lat <= b.lat /\ a.lat # b.lat
  \/ b.lat <= pt.lat /\ pt.lat <= a.lat /\ a.lat # b.lat

(* The edge goes from below pt, or its height, to above it, or back. *)
Spans(a, b, pt) == (a.lat > pt.lat) # (b.lat > pt.lat)

(* Mutant of Crosses: the sign that the division has is forgotten.         *)
CrossesUnsigned(a, b, pt) == Spans(a, b, pt) /\ Side(a, b, pt) > 0

(* pt is to the left of where the edge passes its height, which is a       *)
(* matter of its side and of whether the edge goes up or down.             *)
Crosses(a, b, pt) ==
  /\ Spans(a, b, pt)
  /\ IF b.lat > a.lat THEN Side(a, b, pt) > 0 ELSE Side(a, b, pt) < 0

(* The edge that ends in the i-th vertex starts in the one before it. *)
Before(points, i) == IF i = 1 THEN points[Len(points)] ELSE points[i - 1]

Crossings(points, pt) ==
  {i \in DOMAIN points : Crosses(Before(points, i), points[i], pt)}

(* No fence is never left.  Otherwise an odd number of edges is crossed on *)
(* the way out.                                                            *)
Contains(points, pt) ==
  \/ Len(points) < 3
  \/ InBox(points, pt) /\ Cardinality(Crossings(points, pt)) % 2 = 1

(* ParsePolygon: a fence is any list of vertices. *)
FenceInit == fence = <<>>

AddVertex(pt) == Len(fence) < MaxVertices /\ fence' = Append(fence, pt)

FenceNext == \E pt \in Point : AddVertex(pt)

FenceSpec == FenceInit /\ [][FenceNext]_fence

-----------------------------------------------------------------------------
(* Properties                                                              *)

(* A fence is a list of vertices. *)
FenceTypeOK == fence \in Seq(Point) /\ Len(fence) <= MaxVertices

Sides(t, p) == {Side(t[1], t[2], p), Side(t[2], t[3], p), Side(t[3], t[1], p)}

Inside(t, p) == (\A s \in Sides(t, p) : s > 0) \/ (\A s \in Sides(t, p) : s < 0)

Outside(t, p) == (\E s \in Sides(t, p) : s > 0) /\ (\E s \in Sides(t, p) : s < 0)

(* For a triangle, the counting of crossings agrees with the definition by *)
(* the sides of its edges: a point that is on the same side of all three   *)
(* is in the fence, one on different sides is not, through whatever        *)
(* vertices the ray passes.                                                *)
TrianglesByTheirSides ==
  Len(fence) = 3 => \A p \in Point :
    /\ Inside(fence, p) => Contains(fence, p)
    /\ Outside(fence, p) => ~ Contains(fence, p)

(* Cutting the last vertex off a fence, convex or not, leaves a smaller    *)
(* fence and a triangle that share nothing and leave out nothing, points   *)
(* on the cut included; where the fence crosses itself, it has what is in  *)
(* one of the two only.                                                    *)
CutsLoseNothing ==
  LET n == Len(fence) IN
  n > 3 => \A p \in Point :
    Contains(fence, p) <=>
      Contains(SubSeq(fence, 1, n - 1), p)
        # Contains(<<fence[1], fence[n - 1], fence[n]>>, p)

=============================================================================
