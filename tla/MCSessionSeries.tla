--------------------------- MODULE MCSessionSeries ---------------------------
(* A rubric of four dimensions, one of them indirect, and a report in which  *)
(* the order of the dimensions, their weights and their scores disagree.     *)
EXTENDS SeriesPages, TLC

CONSTANTS j1

MCJobs == {j1}
MCDims == <<"fit", "values", "pace", "craft">>
MCWeight == ("craft" :> 4) @@ ("values" :> 3) @@ ("fit" :> 1) @@ ("pace" :> 2)
MCContent == {"craft", "values", "fit"}
MCIndirect == {"values"}
MCFit == {"fit"}
MCBank == ("craft" :> 2) @@ ("values" :> 1) @@ ("fit" :> 1) @@ ("pace" :> 0)
MCReports ==
  { ("craft" :> 2) @@ ("values" :> 1) @@ ("fit" :> 1) @@ ("pace" :> 1) }
=============================================================================
