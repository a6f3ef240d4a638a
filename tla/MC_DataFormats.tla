--------------------------- MODULE MC_DataFormats ---------------------------
(***************************************************************************)
(* Measurements at the edges of each format: the smallest and largest      *)
(* values, the neighbours of the invalid marks, and missing ones.          *)
(***************************************************************************)
EXTENDS DataFormats

Mac == <<203, 184, 51, 76, 136, 79>>
Relay == <<203, 184, 51, 76, 136, 80>>

Optional(S) == {{}} \cup {{v} : v \in S}

Edges5 ==
    [temperature  : Optional({-32767, -1, 32767}),
     humidity     : Optional({0, 40000, 40001}),
     pressure     : Optional({0, 65534}),
     acceleration : [{"x", "y", "z"} -> Optional({-32767, 1000})],
     voltage      : Optional({0, 7, 2046}),
     tx           : Optional({0, 30}),
     movement     : {255},
     sequence     : {256},
     mac          : {Mac}, sender : {Mac, Relay}]

\* One edge at a time in the packets that are not of format 5.
Plain5 ==
    {[temperature |-> {4860}, humidity |-> {21396}, pressure |-> {50044},
      acceleration |-> [x |-> {4}, y |-> {-4}, z |-> {1036}],
      voltage |-> {1377}, tx |-> {22}, movement |-> 66, sequence |-> 205,
      mac |-> Mac, sender |-> s] : s \in {Mac, Relay}}

Edges3 ==
    [humidity     : {0, 1, 200, 201, 255},
     temperature  : {-12799, -100, -99, -1, 0, 1, 2630, 12799},
     pressure     : {0, 255, 256, 65535},
     acceleration : {<<x, -1000, 32767>> : x \in {-32768, -1, 0, 1}},
     voltage      : {0, 2899, 65535},
     sender       : {Mac}]

None == {}

\* Memory past the end: all ones, and bytes that all differ.
Ones == [i \in 0..23 |-> 255]
Ramp == [i \in 0..23 |-> 10 * i + 3]
BeyondOne  == {Ones}
BeyondBoth == {Ones, Ramp}
=============================================================================
