\* Concurrent Run and Close of three HTTP proxies with overlapping routes.
CONSTANTS
    p1 = p1
    p2 = p2
    p3 = p3
    k1 = k1
    k2 = k2
    k3 = k3
    None = None
    Proxies <- MCProxies
    Keys <- MCKeys
    Routes <- MCRoutes
SPECIFICATION Spec
INVARIANT TypeOK
INVARIANT RoutesOwnedByLive
INVARIANT RunningHoldsRoutes
PROPERTY RouteTableRefined
