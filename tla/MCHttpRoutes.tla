---------------------------- MODULE MCHttpRoutes ----------------------------
(* Three HTTP proxies whose routes overlap: p1 and p2 share a route in     *)
(* opposite positions, and p3 names one route twice (custom_domains        *)
(* listing the same domain, or a location repeated).                       *)
EXTENDS HttpRoutes

CONSTANTS p1, p2, p3, k1, k2, k3

MCProxies == {p1, p2, p3}
MCKeys == {k1, k2, k3}
MCRoutes == (p1 :> <<k1, k2>>) @@ (p2 :> <<k3, k1>>) @@ (p3 :> <<k3, k3>>)
=============================================================================
