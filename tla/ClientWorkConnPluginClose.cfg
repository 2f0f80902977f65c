\* A work connection on its way to a proxy with a plugin, against the
\* manager closing that proxy.
SPECIFICATION Spec
INVARIANT HandedToLivePlugin
CHECK_DEADLOCK FALSE
