-------------------------------- MODULE MCBox --------------------------------
(* One connection at a time, a group, an outbound and an endpoint. *)
EXTENDS Box, TLC

CONSTANTS c1, l1, l2, s, t, g, missing

OneConn == {c1}
AllExternal == {{c1}}
TwoLoops == {l1, l2}
TwoTags == {s, t}
OneEndpoint == {t}
Order == (s :> 1) @@ (g :> 2) @@ (t :> 3)

\* In order; with a dependency on the endpoint, which takes a second pass; circular;
\* with a dependency that is missing.
Cases == {
    (s :> {}) @@ (g :> {s}) @@ (t :> {}),
    (s :> {t}) @@ (g :> {s, t}) @@ (t :> {}),
    (s :> {t}) @@ (g :> {s}) @@ (t :> {s}),
    (s :> {}) @@ (g :> {s, missing}) @@ (t :> {})}
==============================================================================
