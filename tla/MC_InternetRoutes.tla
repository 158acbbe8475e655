------------------------- MODULE MC_InternetRoutes -------------------------
(* Instances of InternetRoutes for TLC: three modems at most, a wired and a *)
(* wireless host interface.                                                 *)
EXTENDS InternetRoutes, TLC

CONSTANTS a, b, c, eth, wifi

\* Every bearer has addresses of every family.
AllFamilies == [m \in Modems |-> Families]
\* Modem a has an IPv4 bearer, the others have both families.
OnlyAIsIPv4 == [m \in Modems |-> IF m = a THEN {4} ELSE Families]

\* A wired host route that is better than DefaultRouteMetric.
OneHostRoute == [iface : {eth}, fam : Families, metric : {5}]
\* Metric 0 (no priority attribute), the metric Sigmo wants, and a worse one.
ThreeHostRoutes ==
  [iface : {eth}, fam : Families, metric : {0}] \cup [iface : {wifi}, fam : Families, metric : {10, 100}]

AnyRequest == [m \in Modems |-> [dflt : BOOLEAN, always : BOOLEAN]]
DefaultOnly == [m \in Modems |-> [dflt : {TRUE}, always : {FALSE}]]
\* Modem a is the default route for now, modem b always.
OnlyBAlways == [m \in Modems |-> [dflt : {TRUE}, always : {m # a}]]
\* Modems are alike where all have the same families and requests.
AlikeModems == Permutations(Modems)
AlwaysDefault == [m \in Modems |-> [dflt : {TRUE}, always : {TRUE}]]
=============================================================================
