----------------------------- MODULE MCFrontend -----------------------------
(* Bounds for Frontend: two region layers, two host keys of one name, words
   of four one-bit pixels, two handles on two records. *)
EXTENDS Frontend

MCLayers == {[map |-> 0, tab |-> 0, width |-> 0, data |-> 0],
             [map |-> 1, tab |-> 1, width |-> 2, data |-> 1],
             [map |-> 1, tab |-> 1, width |-> 2, data |-> 2],
             [map |-> 2, tab |-> 1, width |-> 3, data |-> 1],
             [map |-> 2, tab |-> 0, width |-> 2, data |-> 1]}
MCKeyName == [enter |-> "5", space |-> "5", arrow |-> "up", menu |-> "none"]
MCDelays == {-1, 0, 1, 3}
MCPositions == -7..9
MCCameras == -3..8
MCRecordOf == [h1 |-> 1, h2 |-> 2]
MCLengths == <<3, 2>>
=============================================================================
