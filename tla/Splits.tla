--------------------------------- MODULE Splits ---------------------------------
(***************************************************************************)
(* The arithmetic of layouts (split.c, geometry.c, the layout functions of  *)
(* sheet.c): a tree of splits divides an area among containers, and each    *)
(* container takes some of the views of a sheet and gives each a box.       *)
(*                                                                         *)
(* A box has a position and a size on each axis; a vertical split divides   *)
(* the x axis, a horizontal one the y axis.  The tileable views of the      *)
(* sheet are numbered in its order, and known by their size.  A scale is a  *)
(* number of hundredths, computed exactly: the rounding of the code's       *)
(* doubles, which may cost a pixel, is not modelled.  The area is large     *)
(* enough for the code's assertion that no part is empty.                   *)
(***************************************************************************)
EXTENDS Integers, SequencesExt

Axis == {"x", "y"}

Box(x, y, width, height) ==
  [at |-> [x |-> x, y |-> y], size |-> [x |-> width, y |-> height]]

Shrink(box, gap) ==
  [at   |-> [a \in Axis |-> box.at[a] + gap],
   size |-> [a \in Axis |-> box.size[a] - 2 * gap]]

HalvesWithoutGap(box, axis, size, gap) ==
  << [box EXCEPT !.size[axis] = size],
     [box EXCEPT !.at[axis] = @ + size, !.size[axis] = @ - size] >>

Halves(box, axis, size, gap) ==
  << [box EXCEPT !.size[axis] = size],
     [box EXCEPT !.at[axis] = @ + size + gap, !.size[axis] = @ - gap - size] >>

Fixed(hundredths)     == [type |-> "fixed", of |-> hundredths]
Dynamic(least, most)  == [type |-> "dynamic", least |-> least, most |-> most]

Flip(scale) ==
  IF scale.type = "fixed" THEN Fixed(100 - scale.of)
  ELSE Dynamic(100 - scale.least, 100 - scale.most)

(* The size of the left or top part, by a scale of the size or by what the  *)
(* first view that goes into either part has now.                           *)
ScaledSize(scale, size, wanted, gap) ==
  LET Part(hundredths) == ((size - gap) * hundredths) \div 100
  IN  IF scale.type = "fixed" THEN Part(scale.of)
      ELSE IF wanted < Part(scale.least) THEN Part(scale.least)
      ELSE IF wanted > Part(scale.most) THEN Part(scale.most)
      ELSE wanted

--------------------------------------------------------------------------------
(* Trees.  The dominant part is the one that is filled first; a scale is    *)
(* turned round when it is given for the right or the bottom part.          *)

Container(layout, most) == [type |-> "container", layout |-> layout, most |-> most]

NewSplit(axis, scale, dominant, parts) ==
  [type |-> "split", axis |-> axis, dominant |-> dominant, parts |-> parts,
   scale |-> IF dominant = 2 THEN Flip(scale) ELSE scale]

(* A copy is made in the same way, and turns the scale round again.         *)
RECURSIVE Copy(_)
Copy(split) ==
  IF split.type = "container" THEN split
  ELSE NewSplit(split.axis, split.scale, split.dominant,
                <<Copy(split.parts[1]), Copy(split.parts[2])>>)

--------------------------------------------------------------------------------
(* Containers.                                                             *)

(* The k-th of nr equal boxes along an axis; the first takes the rest.      *)
Cell(box, axis, nr, spare, k, ui) ==
  LET between == ui.gap + 2 * ui.border
      room    == box.size[axis] - between * (nr - 1)
      each    == (room - spare) \div nr
      rest    == room - each * nr
  IN  IF k = 1 THEN [box EXCEPT !.size[axis] = each + rest]
      ELSE [box EXCEPT !.at[axis] = @ + rest + (k - 1) * (each + between),
                       !.size[axis] = each]

(* A grid grows by a column and by a row in turns.                          *)
GridShape(nr) ==
  FoldLeft(LAMBDA shape, i :
             IF i <= shape.rows * shape.cols THEN shape
             ELSE IF shape.cols > shape.rows THEN [shape EXCEPT !.rows = @ + 1]
             ELSE [shape EXCEPT !.cols = @ + 1],
           [rows |-> 1, cols |-> 1], [i \in 1 .. nr |-> i])

Grid(box, nr, ui) ==
  LET shape == GridShape(nr)
      Col(k) == ((k - 1) % shape.cols) + 1
      Row(k) == ((k - 1) \div shape.cols) + 1
  IN  [k \in 1 .. shape.rows * shape.cols |->
         Cell(Cell(box, "x", shape.cols, 2 * ui.border, Col(k), ui),
              "y", shape.rows, 2 * ui.border, Row(k), ui)]

Cells(layout, box, nr, ui) ==
  CASE layout = "queue"            -> [k \in 1 .. nr |-> Cell(box, "x", nr, 0, k, ui)]
    [] layout = "stack"            -> [k \in 1 .. nr |-> Cell(box, "y", nr, 0, k, ui)]
    [] layout = "grid"             -> Grid(box, nr, ui)
    [] layout \in {"full", "single"} -> [k \in 1 .. nr |-> box]
    [] layout = "empty"            -> <<>>

(* A grid fills the cells of its last row whatever its number of views is,  *)
(* and passes over the view that follows them.                              *)
Contain(container, box, filled, views, ui) ==
  LET first == filled.next
      left  == views - first + 1
      nr    == Min({left, container.most})
      cells == Cells(container.layout, box, nr, ui)
      taken == Min({left, Len(cells)})
      skips == container.layout = "grid" /\ nr > 1 /\ left > Len(cells)
  IN  [next  |-> first + taken + (IF skips THEN 1 ELSE 0),
       tiles |-> filled.tiles \o
                   [k \in 1 .. taken |-> [view |-> first + k - 1, box |-> cells[k],
                                          frame |-> box, layout |-> container.layout]]]

RECURSIVE Fill(_, _, _, _, _)
Fill(split, box, filled, views, ui) ==
  IF filled.next > Len(views) THEN filled
  ELSE IF split.type = "container" THEN Contain(split, box, filled, Len(views), ui)
  ELSE
    LET axis   == split.axis
        size   == ScaledSize(split.scale, box.size[axis], views[filled.next][axis], ui.gap)
        halves == Halves(box, axis, size, ui.gap + 2 * ui.border)
        first  == split.dominant
        second == 3 - first
    IN  Fill(split.parts[second], halves[second],
             Fill(split.parts[first], halves[first], filled, views, ui), views, ui)

(* hikari_sheet_apply_split: the sheet keeps a copy of the layout.          *)
Arrange(split, area, views, ui) ==
  Fill(Copy(split), Shrink(area, ui.gap + ui.border), [next |-> 1, tiles |-> <<>>],
       views, ui).tiles

================================================================================
