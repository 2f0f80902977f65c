# TLA+ models of frp (xiaozhoufrp)

This directory holds TLA+ models of the tunnel control and data plane of this
fork of frp, the TLC configurations that check them, and `PROJECT.json`, the
machine-readable index of components, runs, mutants, the map from every
definition to the source lines it models, findings and hazards.

The sources are concatenated files:

- `src/unnamed/part_000`:
  - the client `Control` (lines 1-318);
  - the server `Service` (319-805);
  - the server `BaseProxy`, `ProxyManager` and TCP handling (806-1094);
  - the server `HttpProxy` (1095-1278).
- `src/client/proxy/proxy.go`: the client proxies.
- `src/models/config/proxy.go`: the proxy configuration.
- `src/unnamed/part_001`: the `frpc` command.

`server/control.go`, the client proxy manager, the vhost router and `udp.Forwarder`
are not under `src/`. Where a model needs them, they are modelled from `spec.md`
and marked `spec_modelled` in the map.

## 1. Inventory

### Components and how they interact

| Component | Source | State | Operations | Concurrency |
|---|---|---|---|---|
| Client control | part_000 77-318 | `conn`, `readCh`, `sendCh`, `closedCh`, `closedDoneCh`, `lastPong`, three shutdown latches | reader, writer, msgHandler (hbSend, hbCheck, readCh), worker teardown, Close | 4 goroutines, 2 tickers, the server |
| Client work connection | part_000 110-187, proxy.go 485-563 | the work connection, the local connection, the StartWorkConn | connectServer, NewWorkConn, StartWorkConn, dispatch, encryption, PROXY header, plugin or local dial, Join | one goroutine per ReqWorkConn |
| Client UDP proxy | proxy.go 379-482 | `closed`, `workConn`, `readCh`, `sendCh` | Close, InWorkConn (close old, install new, start goroutines, forward) | concurrent InWorkConn calls, the proxy manager's stop |
| Client XTCP proxy | proxy.go 239-377 | the UDP sockets, the sid, the KCP session | NatHoleClient, NatHoleResp, detect, sid, KCP/yamux accept | timers, the visitor, the server rendezvous |
| Server login and dispatch | part_000 582-775 | the control manager (`run_id` to control), the shared `err` of a session | dealFn, RegisterControl, RegisterWorkConn, RegisterVisitorConn | one goroutine per connection or per mux stream |
| Server work-connection pool | part_000 889-1057 | the pool, each work connection, each user goroutine | startListenHandler, HandleUserTcpConnection, GetWorkConnFromPool | user goroutines, frpc dialing, dead connections |
| Server HTTP routes | part_000 1125-1278 | the vhost route table, `closeFuncs` | HttpProxy.Run, Close | proxies of several clients |
| Configuration | config/proxy.go | the parsed `ProxyConf`s | Unmarshal, check, compare, ParseRangeSection, LoadAllConfFromIni | none (sequential) |
| frpc command, service setup, TLS | part_001, part_000 412-580, 778-796 | flags, listeners, certificate | setup | none of interest |

Interactions:

- frpc's control sends Login. frps's dealFn runs RegisterControl, which evicts any control with the same run id.
- The server control asks for work connections with ReqWorkConn. frpc's HandleReqWorkConn dials one and sends NewWorkConn, and RegisterWorkConn pools it.
- A user connection takes a pooled connection in GetWorkConnFromPool and writes StartWorkConn on it. frpc reads StartWorkConn and hands the connection to the named proxy (HandleTcpWorkConnection, UdpProxy.InWorkConn or XtcpProxy.InWorkConn).
- HTTP proxies register routes with the shared vhost router. A request then reaches a work connection through GetRealConn and GetWorkConnFromPool.

### Hard behaviours

These are listed in full, each at its line, under `hazards` in `PROJECT.json`:

- goroutines that block on channels that nobody drains any more;
- teardown order;
- a heartbeat check that reads a stale `lastPong`;
- pooled work connections that died on the client side;
- a retry loop whose error gets lost;
- re-login eviction with waiting on a control that has not started;
- the deferred `Del` of an evicted control;
- a variable shared by the goroutines of one mux session;
- two critical sections where one was meant;
- unlocked reads of fields another goroutine replaces;
- rollback of partially registered routes;
- the inverted `To16()` test;
- unchecked errors and missing deadlines in the XTCP hole punch;
- silent overwrite of configuration sections.

## 2. Structure

Each component module is standalone. The modules share no variables, because the components communicate only through connections. Each module models its peers as environment actions.

- `ClientControl`, `ServerWorkConn`, `ClientWorkConn`, `ClientUdpProxy`, `ServerLogin`, `HttpRoutes`: connection lifecycles and goroutine interleavings.
- `RouteTable`: the abstract specification of the vhost router. `HttpRoutes` implements it through `INSTANCE RouteTable WITH table <- Served`.
- `XtcpClient`: the XTCP hole punch of `XtcpProxy.InWorkConn`, with its two peers and an unreliable UDP network.
- `GoStrings`: `strings.Split`, `Join`, `TrimSpace`, `ToLower`, `Contains` and the digit test of `strconv.ParseInt` over strings as sequences of characters. These operators model Go's library, so they are not mapped.
- `ProxyConf`: the per-type configuration structs of `src/models/config/proxy.go` as pure operators:
  - `UnmarshalFromIni`, as `IniConf`, with the per-type `UnmarshalErr`;
  - `checkForCli` (`CheckForCliErr`);
  - `NewProxyConfFromIni`;
  - the `Compare` methods;
  - `ParseRangeSection`;
  - the server side: `MarshalToMsg`, `UnmarshalFromMsg`, `CheckForSvr` and `NewProxyConfFromMsg`.
- `ConfigLoad`: `LoadAllConfFromIni` as a state machine over a small ini file, with Go's map iteration order left free.
- `ProxyReload`: frpc's reload of the proxy manager, spec-modelled. It uses `ProxyConf.Compare` to decide what changed.

The server control (`server/control.go`) is not under `src/`. Its pool and `GetWorkConn` are spec-modelled inside `ServerWorkConn`, and its lifecycle inside `ServerLogin`. No module composes the two: a composition would consist almost entirely of spec-modelled control code.

## 3. Modules and runs



Every module has an `MC*.tla` that gives model values to its constants. Each `.cfg` names the invariants and properties of one run. "pass" runs must hold; "violation" runs check a single property that the code breaks.

### ClientControl (`Control` of frpc)

- **State:**
  - the connection: open, peerClosed or closed;
  - `readCh` and `sendCh` as bounded sequences with closed flags;
  - `closedCh` and `closedDoneCh`;
  - a discrete clock, `lastPong`, and the next hbSend and hbCheck times;
  - a program counter per goroutine.
- **Actions:**
  - Reader: `ReaderRead`, `ReaderFail`, `ReaderDeliver`.
  - Writer: `WriterInit`, `WriterSend`, `WriterExit`.
  - msgHandler, one action per `select` case: `HandlerHbSend`, `HandlerPing`, `HandlerHbCheck`, `HandlerRecv`, `HandlerExit`.
  - Worker, one action per blocking step of `worker()`: `WorkerClosed`, `WorkerWaitReader`, `WorkerWaitHandler`, `WorkerRelease`.
  - `Close`.
  - The server and time: `ServerSend`, `ServerPong`, `PeerClose`, `Tick`.
- **Fairness:** weak fairness on every goroutine and on `Tick`, which stands for the tickers. The server and the user get none.
- **Runs:**
  - `client_control` (pass): `TypeOK`, `NoSendOnClosedChannel` and `TeardownCompletes`. No goroutine sends on a closed channel, and once the reader exits, teardown always reaches `closedDoneCh`.
  - `client_control_stuck` (violation): `ConnCloseReleases`. A heartbeat timeout while `readCh` is full leaves the reader blocked in `ctl.readCh <- m` forever, so the client never reconnects.
- **Bounds:** `readCh` 2, `sendCh` 4, a clock of 3 ticks, 2 server messages. `readCh` can fill only with a capacity this small, and the timeout needs `HeartBeatTimeout` 1 to fire within 3 ticks.

### ClientWorkConn (`HandleReqWorkConn`, `HandleTcpWorkConnection`)

- **State:** one goroutine's program counter, the work and local connections, and what the local service received.
- **Inputs:**
  - every configuration that passes `checkForCli`: encryption, compression, PROXY version `""`, `v1` or `v2`, and plugin or not;
  - every form of StartWorkConn address: empty, IPv4, IPv6, unparsable.
- **Helpers:** `ParseIP` and `To16` model what `net.ParseIP` and `To16` return for those forms. `PPHeader` is the header the code builds.
- **Plugin lifecycle:** `plugin` is the proxy's `proxyPlugin`. `Run` (proxy.go:107) creates it for a conf with a plugin, so the state starts `open` or `nil`. The action `Close` (proxy.go:117) closes it at any time, because the proxy manager calls it from another goroutine. `InWorkConn` reads `pxy.proxyPlugin` without a lock, and `handedTo` records the state of the plugin a work connection was handed to.
- **Runs:**
  - `client_work_conn` (pass): `ConnsReleased`. Every early return closes the work connection, or hands it to a plugin.
  - `client_work_conn_pp` (violation): `PPFamilyMatches`. An IPv4 user is announced as TCPv6.
  - `HandedToLivePlugin` (further configuration, section 4): a work connection may be handed to a plugin that `Close` has already closed.

### ClientUdpProxy (`UdpProxy`)

- **Modelled:**
  - `Close` (`CloseBody`);
  - the two critical sections of `InWorkConn` (`CloseOld` and `Install`);
  - the unlocked reads of the fields for the goroutines (`Spawn`);
  - the forwarder's return when its `readCh` closes;
  - the proxy manager's stop.
- **Runs:** `client_udp_proxy_leak` (violation): `ReplacedConnClosed`. Two concurrent `InWorkConn` calls leak a work connection. The passing check `NoDoubleClose` and the stop race are further configurations (section 4).
- **Bounds:** three calls. Two are needed for the leak, and the third brings the pass run past 100 states and exercises a chain of replacements. SYMMETRY over the calls is sound because they are interchangeable model values.

### ServerWorkConn (`GetWorkConnFromPool`, `HandleUserTcpConnection`, `GetRealConn`)

- **Modelled:**
  - the pool as a sequence bounded by `PoolCount`;
  - every work connection's server state and its liveness at frpc;
  - the retry loop's index;
  - frpc answering ReqWorkConn by dialing or failing;
  - pooled connections dying;
  - the two consumers of a work connection. `HandleUserTcpConnection` splices the user and work connections (`JoinStart`) and closes both when the splice ends (`JoinEnd`). An HTTP request (`HttpUsers`) goes through `GetRealConn`, which hands the wrapped connection to the reverse proxy's transport; the transport closes it later (`HttpConnClosed`). The stats marks both paths send are left out;
- **Fairness:** weak fairness per user goroutine only; the transport's close of an HTTP connection gets none. The `GetWorkConn` timer guarantees that its wait ends.
- **Runs:**
  - `server_work_conn` (pass), `WorkConnAccounted`: each connection is pooled, held by exactly one user goroutine, or closed.
  - `server_work_conn` (pass), `UserConnAnswered`: every user connection is joined or closed.
  - `server_work_conn_dead` (violation): `JoinedOnlyStarted`. The shadowed `err` returns a closed connection as success.
- **Bounds:** two users, one TCP and one HTTP, pool of one, three dialed connections. With these bounds both tries of the loop (`poolCount+1 = 2`) can meet dead connections.

### ServerLogin (`dealFn`, `RegisterControl`, control manager)

- **Modelled:**
  - three logins with one run id;
  - for each login, its dealFn's program counter and its control's state (none, new, running, closed);
  - `allShutdown` started;
  - the control it waits for;
  - the manager's entry;
  - the `Del` goroutine;
  - its mux session's shared `err`;
  - one later stream of that session (`WorkConnStream`), opened once the login succeeded, also after the server closed the control. Its `dealFn` reads a `NewWorkConn`, a `NewVisitorConn` or a message of no known kind, or fails. A `NewWorkConn` goes to `RegisterWorkConn`, which looks the run id up in the manager. With no control it returns without closing the stream (`orphan`). The stream is also left open when the control has closed but is not yet deleted. That control has closed its pool channel, so the send panics, and the control's deferred recover swallows the panic.
- **Fairness:** weak fairness on dealFn, on the control's stopper and on the `Del` goroutine, which are all goroutines of frps. Connection loss and other streams get none.
- **Runs:**
  - `server_login` (pass):
    - `OneControlPerRunId`: spec I2/P2.
    - `ManagerTracksLive`: an old control's `Del` never removes its successor.
    - `LiveWorkConnRegistered`: a work connection opened while its control still runs always finds a control, even while that control shuts down or a re-login replaces it.
    - `LoginCompletes`: eviction chains never wait forever, even when a control is evicted before it started.
  - The shared-`err` race and the orphaned work connection are further configurations (section 4).

### HttpRoutes (`HttpProxy.Run` and `Close`)

- **Modelled:**
  - the router's table;
  - each proxy's progress through its routes;
  - `routeConfig`'s last assigned route (`cur`);
  - the routes its close functions unregister.
- **Runs:**
  - `http_routes` (pass), `RoutesOwnedByLive`: rollback leaves no route behind.
  - `http_routes` (pass), `RunningHoldsRoutes`: no proxy loses a route to another proxy's failure. This holds because the close functions capture `tmpDomain` and `tmpLocation`.
  - `http_routes` (pass), `RouteTableRefined`: the refinement. `Served` maps the router to its routes whose proxy's Run has returned nil. Under that mapping, every step of the detailed model is a step of `RouteTable` or a stutter:
    - a Run that returns is one `Acquire`;
    - a Run that fails and rolls back changes nothing served;
    - a `Close` is one `Release`.
- **Bounds:** three proxies whose routes overlap in opposite orders, and one proxy that repeats a route.

### ConfigLoad and ProxyConf (`LoadAllConfFromIni`, `NewProxyConfFromIni`, `ParseRangeSection`)

- **State:**
  - the file, a function from section names to sections;
  - the `startProxy` filter;
  - the sections the outer `range` has not reached;
  - the current section's sub-sections;
  - the proxy and visitor confs;
  - the error;
  - the loop position.
- **Section names:** a name is `[common]`, a plain `[id]` or `[range:id]`.
- **Section values:** a section is a record of the ini keys that the code reads.
- **Abstraction:** values are abstracted to what the checks tell apart:
  - a number, a range or garbage for ports;
  - short character sequences for IPs, domains and locations.
- **Actions:**
  - `NextSection`: skip the section, fail on a bad range, expand a range, or take a plain section as its own single sub-section.
  - `LoadProxy`: `NewProxyConfFromIni` and the store under the prefixed name.
  - `LoadVisitor`.
  - `BadRole`.
  - `SubsDone`.
  - `Finish`.
- **Iteration order:** each loop picks its next key with `\E`, because Go's map iteration order is unspecified.
- **Server side** (`ProxyConf`): `MarshalToMsg` builds the `NewProxy` message of each type, and `NewProxyConfFromMsg` is what frps makes of it: `UnmarshalFromMsg` and `CheckForSvr`. `DomainSvrErr` translates `checkForSvr` of the domain conf. It refuses a custom domain that contains the server's `subdomain_host` (`strings.Contains`) and has more labels, and it refuses a subdomain when no host is set or when it contains `.` or `*`. The server's package settings `subDomainHost`, `vhostHttpPort` and `vhostHttpsPort` are the CONSTANTS `SubDomainHost`, `VhostHttpPort` and `VhostHttpsPort`.
- **`Register`:** once the load is done, each loaded proxy conf is marshalled, sent and rebuilt by the server, in any order. `registered` holds the result.
- **Run** `config_load` (pass), `LoadMatchesFile`: the reference `Selected`/`RefSubs`/`FileValid` is built from the file alone. Whatever the iteration order:
  - the load fails exactly when a selected (sub-)section is invalid;
  - otherwise it yields exactly one conf per server (sub-)section and one visitor per visitor section.
- The same run checks `RegisteredAsLoaded`: the server rebuilds exactly the conf the client loaded, field for field of the message. It refuses the conf exactly when the reference `RefSvrRefuses` says so: a vhost port of 0, a domain under `.subdomain_host`, or a subdomain that is unusable. The files hold an `http` proxy with domain `e.c`, equal to the host, which must be accepted, and one with domain `x.e.c`, under the host, which must be refused; a check that dropped either half of the domain test is caught.
- **Bounds:** four section names and nine section kinds.
  - The names are `common`, `a`, `b` and `range:r`.
  - The kinds are valid tcp, udp, https with no domain, stcp and xtcp, visitor, valid and bad range, and `role = client`.
  - Three `startProxy` filters.
  - Every branch of `NewProxyConfFromIni` and `LoadAllConfFromIni` is reached, and the run has about 1,800,000 states (19 s).

### ProxyReload (the proxy manager's reload, spec-modelled)

The state is the running confs and the confs of the file last loaded. A `Reload` keeps a proxy whose new conf `Compare`s equal, and restarts the others. It is checked only in a further configuration (section 4).

### XtcpClient (`XtcpProxy.InWorkConn`)

- **Client actions:** one per step of the goroutine:
  - `ReadSid`;
  - `DialWrite`: `DialUDP` with its error unchecked, and the `NatHoleClient` write;
  - `RecvResp` and `RespTimeout`: the 5 s read deadline;
  - `Split`: `strings.Split` of the visitor address on ":" and `strconv.ParseInt` of the port, or the index panic when there is no ":";
  - `Listen`;
  - `ReadVSid` and `SidTimeout`: the 8 s deadline;
  - `Kcp`;
  - `Accept` and `AcceptFail`;
  - `Handle`.
- **Returns:** every `return`, and the panic, closes what `defers`, a stack of deferred Closes, holds.
- **Peers:** the server's NAT-hole controller and the visitor, modelled after spec §4.7 with one difference. Step 2 of §4.7 has the server answer the visitor as soon as the client's `NatHoleClient` arrives. `ServerReadDetect` answers only after the client's `NatHoleClientDetectOK` (proxy.go:307), which the spec does not mention. This is the conservative order for the races that `PunchSucceeds` is about: with it, the visitor's datagrams cannot reach the client before the client has sent its detect message. The peers' actions are:
  - `ServerRecvClient`;
  - `ServerReadDetect`: the visitor's `NatHoleResp` is sent only after `NatHoleClientDetectOK` arrives;
  - `VisitorRecvResp`;
  - `VisitorRecvEcho`;
  - `VisitorGone`.
- **Network:** UDP datagrams are a set in flight.
  - `DeliverToPort` queues a datagram on the client's port only while a socket listens there. Otherwise the kernel drops it.
  - `Lose` and `Stray` are faults.
  - The visitor's stream-open is never lost, because KCP retransmits.
- **Faults:** each can be switched on in `Faults`: EOF on the work connection, failed dial, error response, failed listen, failed KCP setup, datagram loss, a stray datagram.
- **Fairness:** weak fairness on the client goroutine, on delivery and on the peers. Loss and strays get none.
- **Deadline assumption:** a deadline fires only when nothing it waits for can still arrive. This assumes the 5 s and 8 s deadlines exceed the network's delay; a deadline that fires early is another path to the same `Return`.
- **Runs:**
  - `xtcp_client` (pass), every fault, an IPv4 and a port-less visitor address:
    - `DefersReleaseAll`: every return, the panic included, closes everything the goroutine opened.
    - `InWorkConnReturns`: the goroutine always returns.
  - `xtcp_sid_race` (violation): `PunchSucceeds`, with no faults at all. The client writes `NatHoleClientDetectOK` before it listens on its port. The server then lets the visitor send its sid, which can arrive while no socket is bound and be dropped. The client then times out, although nothing failed.



### Mutants

Every property of a passing run is paired in `PROJECT.json` with a mutant of a definition it depends on. The mutant is a plausible bug in the code that definition models, and TLC finds it breaks the property under the run's own cfg.

| Run | Property | Mutated definition | Mutant: the bug |
|---|---|---|---|
| client_control | `TypeOK` | `ReaderRead` | `ReaderReadNoDecodeCheck`: a frame that failed to decode is forwarded |
| client_control | `NoSendOnClosedChannel` | `WorkerWaitHandler` | `WorkerCloseSendNoWait`: `sendCh` is closed without waiting for the handler |
| client_control | `TeardownCompletes` | `WorkerWaitHandler` | `WorkerForgetCloseSend`: `close(sendCh)` is missing |
| server_work_conn | `TypeOK` | `StartWorkConnFailed` | `StartWorkConnFailedOffByOne`: the retry loop uses `<=` |
| server_work_conn | `WorkConnAccounted` | `WriteStartWorkConn` | `WriteStartWorkConnNoClose`: no `Close` on a failed write |
| server_work_conn | `UserConnAnswered` | `WaitTimeout` | `WaitNoTimeout`: the wait has no timer |
| client_work_conn | `TypeOK` | `ProxyConfs` | `ProxyConfsUnchecked`: an unknown `proxy_protocol_version` passes `checkForCli` |
| client_work_conn | `ConnsReleased` | `Fail` | `FailNoClose`: an error return does not close |
| server_login | `TypeOK` | `Register` | `RegisterWaitSelf`: the old control is looked up after `Add` |
| server_login | `OneControlPerRunId` | `StartControl` | `StartControlNoWait`: `WaitDone` is dropped |
| server_login | `ManagerTracksLive` | `Del` | `DelAny`: `Del` is unguarded |
| server_login | `LiveWorkConnRegistered` | `Del` | `DelAny`: `Del` is unguarded, so an old control's `Del` removes its successor |
| server_login | `LoginCompletes` | `Register` | `RegisterNoEvictNew`: only started controls are evicted |
| http_routes | `TypeOK` | `StartRun` | `StartRunKeepCloseFuncs`: stale `closeFuncs` are reused |
| http_routes | `RoutesOwnedByLive` | `RegisterRoute` | `RegisterRouteNoRollback`: there is no rollback |
| http_routes | `RunningHoldsRoutes`, `RouteTableRefined` | `CloseFnKeys` | `CloseFnKeysLoopVar`: the close functions capture the loop variable |
| config_load | `TypeOK` | `LoadProxy` | `LoadProxyNoPrefix`: the conf is stored without the user prefix |
| config_load | `LoadMatchesFile` | `Skipped` | `SkippedNoFilter`: `startProxy` is ignored |
| config_load | `RegisteredAsLoaded` | `DomainSvrErr` | `DomainSvrErrNoLabels`: the label count comparison is dropped, so the host itself is refused |
| xtcp_client | `TypeOK` | `Listen` | `ListenErrUnchecked`: a failed `ListenUDP` is used |
| xtcp_client | `DefersReleaseAll` | `Listen` | `ListenNoDefer`: `lConn` is not deferred to close |
| xtcp_client | `InWorkConnReturns` | `RespTimeout` | `RespTimeoutNoDeadline`: the `NatHoleResp` read has no deadline |

## 4. Further configurations

These configurations ask further questions of the models. Each checks one property, is kept in this directory and is run with `tlc -config X.cfg MCModule`. The runs listed in `PROJECT.json` are the main questions; these complete them:

| cfg (module) | Property | TLC | What it shows |
|---|---|---|---|
| ClientUdpProxy.cfg (MCClientUdpProxy) | `NoDoubleClose` | holds, 682 states | `close()` is never applied twice to a channel |
| ClientUdpProxyStop.cfg (MCClientUdpProxy) | `StoppedStaysClosed` | violated | a stop racing `InWorkConn` is undone (proxy.go:428) |
| ServerLoginErrRace.cfg (MCServerLogin) | `ErrorAnswerOnlyIfRejected` | violated | another stream of the mux session overwrites `err`; a registered control is answered with an error (part_000:615) |
| ServerLoginOrphan.cfg (MCServerLogin) | `WorkConnNeverOrphaned` | violated | a work connection that arrives after its control was closed and deleted is neither closed nor registered (part_000:766). frpc reads `StartWorkConn` with no deadline (part_000:125), which breaks spec section 5 ("every blocking read on an untrusted peer uses a deadline") and section 7 ("per-connection errors close only that connection") |
| ConfigLoadCollide.cfg (MCConfigLoad) | `LoadMatchesFile` | violated | `[range:r]` and a plain `[r_0]` both yield the proxy `r_0`; the one stored last silently wins (config proxy.go:951) |
| ConfigLoadHcPlugin.cfg (MCConfigLoad) | `LoadedHealthCheckHasTarget` | violated | a plugin proxy with `health_check_type = tcp` loads with no address to check (config proxy.go:177) |
| ConfigLoadPort.cfg (MCConfigLoad) | `LoadedLocalPortValid` | violated | `local_port = 70000` passes `checkForCli`, which tests only `<= 0` (config proxy.go:393) |
| ProxyReload.cfg (MCProxyReload) | `ReloadApplied` | violated | `HttpProxyConf.Compare` joins locations with spaces; `/a /b` and `/a,/b` compare equal, and the reload keeps the old routes (config proxy.go:576) |
| ConfigLoadNear.cfg (MCConfigLoad) | `RegisteredAsLoaded` | violated | `checkForSvr` tests `strings.Contains`, so the custom domain `a.xe.c` is refused under `subdomain_host = e.c`, although it is not a subdomain of it (config proxy.go:318) |
| ClientWorkConnPluginClose.cfg (MCClientWorkConn) | `HandedToLivePlugin` | violated | `InWorkConn` reads `proxyPlugin` unsynchronized with `Close`; a work connection goes to a closed plugin (proxy.go:124) |
| XtcpClientIPv6.cfg (MCXtcpClient) | `PunchSucceeds` | violated | an IPv6 visitor address `[::1]:5` splits into more than two parts, and `ParseInt` of `:1]` fails (proxy.go:299) |

## 5. Findings

| Run | Source | What |
|---|---|---|
| client_control_stuck | part_000:212 | reader deadlocks after a heartbeat timeout with `readCh` full; no reconnect |
| server_work_conn_dead | part_000:918 | shadowed `err`; a closed work connection is returned with no error |
| client_work_conn_pp | proxy.go:521 | inverted `To16()` test; IPv4 sources are sent as TCPv6 |
| client_udp_proxy_leak | proxy.go:424 | a replaced UDP work connection is never closed |
| xtcp_sid_race | proxy.go:307 | DetectOK is written before the client listens; the visitor's sid can be dropped and the punch times out |

## 6. Not modelled, and why

- **XTCP:** the detect datagrams of `sendDetectMsg` are not delivered, because they only open the NAT. KCP and yamux are abstracted to one stream-open.
- **Configuration:**
  - frps's proxy creation and its ports and routes, beyond `NewProxyConfFromMsg`, are not under `src/`;
  - the full syntax of IP strings is not modelled;
  - the ini reader is not modelled: it is a library, and the model's input is the parsed file.
- **Client proxy construction, the proxy managers:** `NewProxy` only picks a struct per type. The managers are not under `src/`; only the reload decision is modelled, in `ProxyReload`. Of the plugins, `Run` and `Close` are modelled in `ClientWorkConn`; their internals are not under `src/`.
- **Service setup, TLS certificate generation, the frpc command line:** configuration and I/O, with no state a model checker can interleave.
- **Encryption and compression:** modelled only by their error returns. A byte-level model says nothing about connection lifecycles.
- **Byte and stats counters:** the collector is not under `src/`, and it dispatches on the payload, so the marks the server sends it carry no control the model could check. Neither the marks nor the byte counts are modelled: the model has no payload. The `WithEncryption` error of `GetRealConn` (part_000:1246) is not an action either. It happens only when reading a random IV fails.
- **Group HTTP routing:** not modelled, because `HTTPGroupCtl` is not under `src/`.
