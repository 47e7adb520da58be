----------------------------- MODULE MCRouting -----------------------------
(* Settings in which every adapter comes first, is a fallback, or both.    *)
(* The roads, with differences of one, two and three digits in both        *)
(* formats, are asked about while no ETAs are.                             *)
EXTENDS Routing

Street == <<<<0, 0>>, <<1, 1>>>>
Streets ==
  {<<>>, <<<<0, 0>>>>, <<<<-17, 15>>, <<-1, 16>>>>,
   <<<<1234, -567>>, <<1235, -600>>, <<0, 31>>>>,
   <<<<1, 2>>, <<3, 5>>, <<2, 9>>, <<-4, 4>>, <<6, -6>>, <<6, 1>>>>}

Indian == [default |-> "mappls", fallbacks |-> <<"google">>,
           keys |-> {"mappls", "google", "osrm"}]
Twice == [default |-> "tomtom", fallbacks |-> <<"mappls", "mappls">>,
          keys |-> {"tomtom", "mappls", "osrm"}]
Unset == [default |-> "", fallbacks |-> <<"nokia", "osrm">>,
          keys |-> {"here", "mapbox", "osrm"}]
Unkeyed == [default |-> "google", fallbacks |-> <<>>, keys |-> {"osrm"}]
Western == [default |-> "nokia", fallbacks |-> <<"here", "mapbox">>,
            keys |-> {"google", "here", "mapbox", "osrm"}]

MCCase ==
  [setting : {Indian, Unset}, road : {Street}, rows : {Rows}]
    \cup [setting : {Twice, Unkeyed}, road : {Street}, rows : {{}}]
    \cup [setting : {Western, Indian}, road : Streets, rows : {{}}]
=============================================================================
