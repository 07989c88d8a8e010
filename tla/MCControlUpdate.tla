---------------------------- MODULE MCControlUpdate ----------------------------
(* Instances of ControlUpdate for TLC. *)
EXTENDS ControlUpdate

Executives == {"fluid", "total", "level", "rate", "probe", "table"}

\* Two controls that share a statistic, and a table of values at a point.
Kinds ==
    [fluid |-> "grid", total |-> "sum", level |-> "get", rate |-> "get",
     probe |-> "get", table |-> "csv"]

Sources ==
    [fluid |-> None, total |-> "fluid", level |-> "total", rate |-> "total",
     probe |-> "fluid", table |-> "probe"]

SharedControls == <<"level", "rate", "table">>
ProbeOnly      == <<"table">>

TwoFields == <<"f", "g">>

\* The allocations whose failure every rank gets to know.
Allocations ==
    {"init", "work", "names", "post", "indices", "fields", "csv"}
===============================================================================
