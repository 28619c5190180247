--------------------------- MODULE MCConfiguration ---------------------------
(* A small instance of Configuration for TLC. The sections have an id or   *)
(* none; the routes name their client, provider and consumer in full, by   *)
(* the group, by "*", and in wrong ways.                                   *)
EXTENDS Configuration

gm == <<"g", "m">>
m == <<"", "m">>
g == <<"g">>
starm == <<"*", "m">>

MCRoutes ==
    {<<gm, gm, gm>>, <<gm, gm, m>>, <<gm, Star, gm>>,
     <<Star, gm, Star>>, <<starm, Star, g>>, <<gm, starm, <<"g", "">>>>}
=============================================================================
