---------------------------- MODULE MCHazardFeed ----------------------------
(* A feed that changes half-way: a storm on the border of a box, a quake   *)
(* that is measured again, a fire that grows into a polygon, and events    *)
(* that are dropped.                                                       *)
EXTENDS HazardFeed

Shape(type, magnitude, points) ==
  [type |-> type, magnitude |-> magnitude, points |-> points]
Listed(id, categories, geometry) ==
  [id |-> id, categories |-> categories, geometry |-> geometry]

Storm == Listed("storm", <<"severeStorms">>,
               <<Shape("Point", 20, <<<<10, 2>>>>), Shape("Point", -1, <<<<12, 4>>>>)>>)
Quake == Listed("quake", <<"earthquakes", "landslides">>,
               <<Shape("Point", -1, <<<<1, 1>>>>), Shape("Point", 62, <<<<1, 1>>>>)>>)
Requake == Listed("quake", <<"earthquakes">>,
                 <<Shape("Point", 47, <<<<1, 1>>>>), Shape("Point", 40, <<<<1, 2>>>>)>>)
Fire == Listed("fire", <<"wildfires">>,
              <<Shape("Point", -1, <<<<-3, 0>>>>),
                Shape("Polygon", -1, <<<<-4, -1>>, <<14, -1>>, <<14, 9>>>>)>>)
Line == Listed("line", <<"floods">>, <<Shape("LineString", -1, <<<<0, 0>>>>)>>)
Nameless == Listed("nameless", <<>>, <<Shape("Point", -1, <<<<0, 0>>>>)>>)

MCFeed == [t \in 0..MaxNow |->
             IF t < 2 THEN <<Quake, Line, Fire>> ELSE <<Nameless, Storm, Requake>>]

MCQuery ==
  {[bbox |-> NoBox, categories |-> {}],
   [bbox |-> <<0, 0, 5, 10>>, categories |-> {}],
   [bbox |-> <<-1, -4, 9, 14>>, categories |-> {"wildfires", "earthquakes"}],
   [bbox |-> <<5, 0, 0, 10>>, categories |-> {}],
   [bbox |-> <<0, 10, 5, 0>>, categories |-> {"volcano"}]}
=============================================================================
