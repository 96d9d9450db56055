------------------------- MODULE MCClusterAttributes -------------------------
(* Two services and one workspace; the first service's name is at a limit. *)
EXTENDS ClusterAttributes

CONSTANTS s1, s2, w, env, org, loft

MCServices == {s1, s2}
MCMapped == [s \in {s1, s2} |-> IF s = s1 THEN w ELSE NoWorkspace]
Plain == [custom |-> 0, prefix |-> 0, hyphen |-> FALSE, default |-> 20, cut |-> FALSE]
AtLimits ==
  { [Plain EXCEPT !.custom = 63], [Plain EXCEPT !.custom = 64],
    [Plain EXCEPT !.prefix = 57], [Plain EXCEPT !.prefix = 58],
    [Plain EXCEPT !.prefix = 58, !.hyphen = TRUE],
    [Plain EXCEPT !.default = 63], [Plain EXCEPT !.default = 64],
    [Plain EXCEPT !.default = 64, !.cut = TRUE] }
MCNamings == [s \in {s1, s2} |-> IF s = s1 THEN AtLimits ELSE {Plain}]
=============================================================================
