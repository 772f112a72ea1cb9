------------------------------ MODULE MCSettings ------------------------------
(* Two cameras; the sizes and rates of one are listed in two orders. *)
EXTENDS Settings
MCSymmetry == Permutations(Values) \union Permutations(Macros)
MCDevices  == <<"cam", "tv">>
MCChannels == [d \in {"cam", "tv"} |-> IF d = "cam" THEN <<"c1">> ELSE <<"c1", "c2">>]
MCSizes    == [d \in {"cam", "tv"} |-> [c \in {"c1", "c2"} |-> IF c = "c1" THEN <<"s1", "s2">> ELSE <<"s2", "s1">>]]
MCRates    == [d \in {"cam", "tv"} |-> [c \in {"c1", "c2"} |-> [s \in {"s1", "s2"} |->
                 IF s = "s1" THEN <<"r1", "r2">> ELSE <<"r2", "r1">>]]]
MCInitialSettings ==
  [{"cam", "tv"} -> [channel : {"c1"}, size : {"s2"}, rate : {"r1"}]]
    \union {[d \in {"cam", "tv"} |-> [channel |-> IF d = "tv" THEN "c2" ELSE "c1", size |-> "s1", rate |-> "r2"]]}
=============================================================================
