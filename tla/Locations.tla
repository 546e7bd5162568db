------------------------------ MODULE Locations ------------------------------
(***************************************************************************)
(* The hierarchy of locations: stations, their platforms, the tracks of    *)
(* platforms, and equivalent stations. Locations are 1..n, 0 is the        *)
(* invalid one. A network n has                                            *)
(*   parents          : the parent of each location, or 0                  *)
(*   equivalences     : the locations each location is equivalent to,      *)
(*                      itself among them                                  *)
(*   generated_tracks : children that the loader made from track names     *)
(***************************************************************************)
EXTENDS Integers, FiniteSets

NoLocation == 0

AllLocations(n) == DOMAIN n.parents

children(n, l) == {c \in AllLocations(n) : n.parents[c] = l}

\* Up to two levels, as all walks over a station do.
Descendants(n, l) ==
  children(n, l) \cup UNION {children(n, c) : c \in children(n, l)}

get_root_idx(n, l) ==
  CHOOSE r \in AllLocations(n) :
    /\ n.parents[r] = NoLocation
    /\ l \in {r} \cup Descendants(n, r)

for_each_meta(n, mode, l) ==
  CASE mode = "exact" -> {l}
    [] mode = "intermodal" -> {l} \cup (children(n, l) \cap n.generated_tracks)
    [] mode = "only_children" -> {l} \cup Descendants(n, l)
    [] mode = "equivalent" ->
         LET root == get_root_idx(n, l)
         IN  {root} \cup Descendants(n, root)
               \cup UNION {{eq} \cup Descendants(n, eq) : eq \in n.equivalences[l]}

matches(n, mode, a, b) == a = b \/ b \in for_each_meta(n, mode, a)

=============================================================================
