------------------------------ MODULE ConfigLoad ------------------------------
(***************************************************************************)
(* LoadAllConfFromIni (src/models/config/proxy.go): frpc turns the        *)
(* sections of its ini file into proxy and visitor confs.  The sections    *)
(* and the sub-sections of a [range:...] section are Go maps, iterated in  *)
(* an order the runtime chooses afresh each time: here any order.  The     *)
(* first error ends the load.                                              *)
(*                                                                         *)
(* A section name is a record: [common], a plain [id], or [range:id].  A   *)
(* proxy name is <<prefix, id>>; the i-th sub-section of [range:id] is     *)
(* named SubName(id, i), the id of the plain section [id_i].              *)
(***************************************************************************)
EXTENDS ProxyConf, FiniteSets, Functions

CONSTANTS
    Names,      \* the section names a file may have
    Sections,   \* the sections a name may hold
    StartSets,  \* the startProxy filters frpc may be given
    Prefix      \* the user prefix of proxy names ("" when none)

VARIABLES
    file,          \* the loaded ini file: section name -> section
    startProxy,    \* names of the sections to start; {} starts all
    todo,          \* sections the outer range loop has not reached
    subs,          \* sub-sections of the current section not yet loaded
    proxyConfs,    \* proxy name -> conf
    visitorConfs,  \* names of the visitor confs
    err,           \* the error returned, or ""
    pc,            \* "sections", "subs" or "done"
    registered     \* proxy name -> frps's answer to its NewProxy: [err, conf]

vars == <<file, startProxy, todo, subs, proxyConfs, visitorConfs, err, pc, registered>>

Files == UNION {[D -> Sections] : D \in SUBSET Names}

EmptyFn == [x \in {} |-> x]

TypeOK ==
    /\ file \in Files /\ startProxy \in StartSets
    /\ todo \subseteq DOMAIN file
    /\ pc \in {"sections", "subs", "done"}
    /\ \A k \in DOMAIN proxyConfs : k[1] = Prefix /\ proxyConfs[k].name = k
    /\ err # "" => pc = "done"

\* NewVisitorConfFromIni (not under src/): visitors exist for stcp and xtcp.
VisitorErr(sec) == TypeOf(sec) \notin {"stcp", "xtcp"}

\* `if subSection["role"] == "" { subSection["role"] = "server" }`
RoleDefault(sec) == IF sec.role = "" THEN [sec EXCEPT !.role = "server"] ELSE sec

\* Mutant of Skipped: startProxy is not consulted.
SkippedNoFilter(n) == n.kind = "common"

\* The section is skipped: [common], or not in a non-empty startProxy.
Skipped(n) == n.kind = "common" \/ (startProxy # {} /\ n \notin startProxy)

Init ==
    /\ file \in Files /\ startProxy \in StartSets
    /\ todo = DOMAIN file /\ subs = EmptyFn
    /\ proxyConfs = EmptyFn /\ visitorConfs = {}
    /\ err = "" /\ pc = "sections" /\ registered = EmptyFn

\* One iteration of `for name, section := range conf` up to the inner loop:
\* skipped, a range section expanded (or its error returned), or a plain
\* section taken as its own single sub-section.
NextSection ==
    /\ pc = "sections"
    /\ \E n \in todo :
         /\ todo' = todo \ {n}
         /\ CASE Skipped(n) ->
                   UNCHANGED <<subs, err, pc>>
              [] n.kind = "range" /\ RangeErr(file[n]) ->
                   err' = "range" /\ pc' = "done" /\ UNCHANGED subs
              [] n.kind = "range" ->
                   subs' = ParseRangeSection(n.id, file[n]) /\ pc' = "subs" /\ UNCHANGED err
              [] OTHER ->
                   subs' = (n.id :> file[n]) /\ pc' = "subs" /\ UNCHANGED err
    /\ UNCHANGED <<file, startProxy, registered, proxyConfs, visitorConfs>>

\* The outer loop ends: LoadAllConfFromIni returns the confs, err nil.
Finish ==
    /\ pc = "sections" /\ todo = {}
    /\ pc' = "done"
    /\ UNCHANGED <<file, startProxy, registered, todo, subs, proxyConfs, visitorConfs, err>>

\* One iteration of `for subName, subSection := range subSections`.
Without(f, x) == [y \in DOMAIN f \ {x} |-> f[y]]

\* Mutant of LoadProxy: the conf is stored under the sub-section's name,
\* without the user prefix.
LoadProxyNoPrefix ==
    /\ pc = "subs"
    /\ \E sn \in DOMAIN subs :
         LET sec == RoleDefault(subs[sn]) IN
         /\ sec.role = "server"
         /\ subs' = Without(subs, sn)
         /\ IF NewProxyConfFromIni(Prefix, sn, sec) # ""
              THEN /\ err' = NewProxyConfFromIni(Prefix, sn, sec) /\ pc' = "done"
                   /\ UNCHANGED proxyConfs
              ELSE /\ proxyConfs' = (<<"", sn>> :> IniConf(Prefix, sn, sec)) @@ proxyConfs
                   /\ UNCHANGED <<err, pc>>
    /\ UNCHANGED <<file, startProxy, registered, todo, visitorConfs>>

LoadProxy ==
    /\ pc = "subs"
    /\ \E sn \in DOMAIN subs :
         LET sec == RoleDefault(subs[sn]) IN
         /\ sec.role = "server"
         /\ subs' = Without(subs, sn)
         /\ IF NewProxyConfFromIni(Prefix, sn, sec) # ""
              THEN /\ err' = NewProxyConfFromIni(Prefix, sn, sec) /\ pc' = "done"
                   /\ UNCHANGED proxyConfs
              ELSE /\ proxyConfs' = (<<Prefix, sn>> :> IniConf(Prefix, sn, sec)) @@ proxyConfs
                   /\ UNCHANGED <<err, pc>>
    /\ UNCHANGED <<file, startProxy, registered, todo, visitorConfs>>

LoadVisitor ==
    /\ pc = "subs"
    /\ \E sn \in DOMAIN subs :
         LET sec == RoleDefault(subs[sn]) IN
         /\ sec.role = "visitor"
         /\ subs' = Without(subs, sn)
         /\ IF VisitorErr(sec)
              THEN err' = "visitor" /\ pc' = "done" /\ UNCHANGED visitorConfs
              ELSE visitorConfs' = visitorConfs \cup {<<Prefix, sn>>} /\ UNCHANGED <<err, pc>>
    /\ UNCHANGED <<file, startProxy, registered, todo, proxyConfs>>

\* "role should be 'server' or 'visitor'"
BadRole ==
    /\ pc = "subs"
    /\ \E sn \in DOMAIN subs : RoleDefault(subs[sn]).role \notin {"server", "visitor"}
    /\ err' = "role" /\ pc' = "done"
    /\ UNCHANGED <<file, startProxy, registered, todo, subs, proxyConfs, visitorConfs>>

\* The inner loop is done; back to the outer one.
SubsDone ==
    /\ pc = "subs" /\ DOMAIN subs = {}
    /\ pc' = "sections"
    /\ UNCHANGED <<file, startProxy, registered, todo, subs, proxyConfs, visitorConfs, err>>

\* frpc sends NewProxy for a loaded proxy, and frps makes its conf of it
\* (the sending and frps's handler are not under src/; spec section 4.9).
Register ==
    /\ pc = "done" /\ err = ""
    /\ \E k \in DOMAIN proxyConfs \ DOMAIN registered :
         registered' = (k :> NewProxyConfFromMsg(MarshalToMsg(proxyConfs[k]))) @@ registered
    /\ UNCHANGED <<file, startProxy, todo, subs, proxyConfs, visitorConfs, err, pc>>

Next ==
    \/ NextSection \/ Finish \/ LoadProxy \/ LoadVisitor \/ BadRole \/ SubsDone
    \/ Register

Spec == Init /\ [][Next]_vars

-----------------------------------------------------------------------------
(* Reference: what the file stands for, by the spec's description          *)

\* Every proxy section when startProxy is empty, else the ones it names.
Selected ==
    {n \in DOMAIN file : n.kind # "common" /\ (startProxy = {} \/ n \in startProxy)}

\* [id] is itself; [range:id] stands for id_0 .. id_k, the local and remote
\* ports paired in order.
RefSubs(n) ==
    IF n.kind = "plain" THEN {<<n.id, file[n]>>}
    ELSE LET lp == ParseRangeNumbers(file[n].localPort)
             rp == ParseRangeNumbers(file[n].remotePort)
         IN {<<SubName(n.id, i - 1),
               [file[n] EXCEPT !.localPort = Num(lp[i]), !.remotePort = Num(rp[i])]>> :
               i \in 1..Len(lp)}

SubOk(sn, sec) ==
    LET s == RoleDefault(sec) IN
    CASE s.role = "server"  -> NewProxyConfFromIni(Prefix, sn, s) = ""
      [] s.role = "visitor" -> ~VisitorErr(s)
      [] OTHER              -> FALSE

FileValid ==
    \A n \in Selected :
        /\ n.kind = "range" => ~RangeErr(file[n])
        /\ \A p \in RefSubs(n) : SubOk(p[1], p[2])

RefPairs(role) == {p \in UNION {RefSubs(n) : n \in Selected} : RoleDefault(p[2]).role = role}

\* A custom domain under subdomain_host: it ends in "." and subdomain_host,
\* the names frps serves as subdomains of its own host.
UnderSubDomainHost(d) == SubDomainHost # <<>> /\ IsSuffix(<<".">> \o SubDomainHost, d)

\* What frps must refuse: http or https without its vhost port, a custom
\* domain under subdomain_host, a subdomain it cannot serve.
RefSvrRefuses(c) ==
    \/ c.type = "http" /\ VhostHttpPort = 0
    \/ c.type = "https" /\ VhostHttpsPort = 0
    \/ /\ c.type \in {"http", "https"}
       /\ \/ \E i \in DOMAIN c.domains : UnderSubDomainHost(c.domains[i])
          \/ c.subdomain # <<>> /\ (SubDomainHost = <<>> \/ {".", "*"} \cap ToSet(c.subdomain) # {})

-----------------------------------------------------------------------------
(* Properties                                                              *)

\* Whatever order Go's map iteration takes, the load fails exactly when a
\* selected section is invalid, and otherwise yields one proxy conf per
\* server (sub-)section and one visitor per visitor (sub-)section, under
\* the names the spec gives them: no section is lost, overwritten or added.
LoadMatchesFile ==
    pc = "done" =>
        /\ (err = "") = FileValid
        /\ err = "" =>
             /\ {<<k, proxyConfs[k]>> : k \in DOMAIN proxyConfs}
                  = {<<<<Prefix, p[1]>>, IniConf(Prefix, p[1], RoleDefault(p[2]))>> :
                       p \in RefPairs("server")}
             /\ visitorConfs = {<<Prefix, p[1]>> : p \in RefPairs("visitor")}

\* Every proxy frpc loaded reaches frps through MarshalToMsg and
\* NewProxyConfFromMsg with the name, type, flags, remote port, domains,
\* subdomain and locations frpc loaded, and frps refuses it exactly when
\* it must (RefSvrRefuses): no field is lost or altered on the way, and
\* CheckForSvr's domain test neither lets a subdomain of subdomain_host
\* through nor refuses a domain outside it.
RegisteredAsLoaded ==
    \A k \in DOMAIN registered :
        /\ (registered[k].err # "") = RefSvrRefuses(proxyConfs[k])
        /\ registered[k].conf = [f \in DOMAIN MsgZero |-> proxyConfs[k][f]]

\* A loaded proxy with a health check has a target to check: a tcp check
\* dials HealthCheckAddr, an http check GETs HealthCheckUrl.  The address
\* and URL are derived from local_ip and local_port in UnmarshalFromIni.
LoadedHealthCheckHasTarget ==
    \A k \in DOMAIN proxyConfs :
        proxyConfs[k].hcType # "" =>
            proxyConfs[k].hcAddr # <<>> \/ proxyConfs[k].hcUrl.host # <<>>

\* A loaded proxy without a plugin names a local port that can be dialed:
\* LocalSvrConf.checkForCli rejects "error local_port".
LoadedLocalPortValid ==
    \A k \in DOMAIN proxyConfs :
        proxyConfs[k].plugin = "" => proxyConfs[k].localPort \in 1..65535

==============================================================================
