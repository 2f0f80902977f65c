----------------------------- MODULE ProxyReload -----------------------------
(***************************************************************************)
(* frpc's proxy manager on a reload of its configuration.  The manager is *)
(* not part of src/; it is modelled from the spec: "diff new vs. current  *)
(* proxy configs ... a proxy with the same name but changed attributes is *)
(* closed then re-added".  What counts as changed is decided by           *)
(* ProxyConf.Compare of src/models/config/proxy.go, modelled in ProxyConf. *)
(***************************************************************************)
EXTENDS ProxyConf

CONSTANTS
    Names,      \* section ids a file may hold
    Sections,   \* sections a name may hold
    Prefix      \* the user prefix of proxy names

VARIABLES
    running,    \* id -> the conf the running proxy was started with
    wanted      \* id -> the conf of the file last loaded

vars == <<running, wanted>>

\* The proxy confs of a file whose sections all load.
Confs(f) == [n \in DOMAIN f |-> IniConf(Prefix, n, f[n])]

ValidFiles ==
    {f \in UNION {[D -> Sections] : D \in SUBSET Names} :
        \A n \in DOMAIN f : NewProxyConfFromIni(Prefix, n, f[n]) = ""}

Init == \E f \in ValidFiles : running = Confs(f) /\ wanted = running

\* Reload: a proxy whose new conf Compares equal to the running one keeps
\* running; one that changed is closed and started with the new conf; one
\* gone from the file is closed; a new one is started.
Reload ==
    \E f \in ValidFiles :
        LET new == Confs(f) IN
        /\ wanted' = new
        /\ running' = [n \in DOMAIN new |->
                         IF n \in DOMAIN running /\ Compare(new[n], running[n])
                           THEN running[n] ELSE new[n]]

Next == Reload

Spec == Init /\ [][Next]_vars

\* After a reload every proxy serves the domains and locations its section
\* in the new file gives it: Compare reports a change of either, so the
\* proxy is re-added with the new conf.
ReloadApplied ==
    \A n \in DOMAIN wanted :
        running[n].domains = wanted[n].domains /\ running[n].locations = wanted[n].locations

==============================================================================
