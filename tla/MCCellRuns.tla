----------------------------- MODULE MCCellRuns -----------------------------
(* A notebook of two cells, a and b.                                       *)
EXTENDS CellRuns
CONSTANTS a, b
InOrderOfCells == <<a, b>>
OneCell == <<a>>
=============================================================================
