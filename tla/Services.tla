------------------------------ MODULE Services ------------------------------
(***************************************************************************)
(* wfb_ng/server.py and services.py: the server prepares the cards, starts *)
(* the services of its profiles, each with a wfb_tx and a wfb_rx process,  *)
(* and lives until one of them fails.                                      *)
(*                                                                         *)
(* A service is a generator that waits for Deferreds: for the sockets that *)
(* wfb_tx announces, for its control port, and for the end of the          *)
(* processes.  A Deferred runs its callbacks at once, so what follows from *)
(* an event - resuming the service, closing its sockets, failing the       *)
(* server, stopping the reactor - is one step.  A service is a record:     *)
(*   pc    where its generator is: "idle", waiting for "sockets", for the  *)
(*         "control_port" or for the processes ("gather"), or its result   *)
(*   told  what wfb_tx announced: ports_df and control_port_df have fired  *)
(*   proc  the processes; "unspawned" if spawnProcess raised               *)
(*   open  the open sockets: "rx" from wfb_rx, "tx" to wfb_tx, and "in",   *)
(*         the user's side (UDP socket, serial port or TUN device)         *)
(***************************************************************************)
EXTENDS Naturals, Sequences, FiniteSets

CONSTANTS
    Names,     \* the services of a profile
    Profiles,  \* for each service: its type, its streams ("tx" if stream_tx is not None,
               \* "rx" if stream_rx is not None) and asks, if control_port = 0
    Wlans,     \* a sequence of cards
    Nodes,     \* the nodes of the cluster
    Modes      \* "primary", "secondary" or "ssh"

ASSUME ServicesAssumption ==
    /\ \A p \in Profiles : \A s \in Names :
          /\ p[s].type \in {"mavlink", "tunnel", "udp_proxy", "udp_direct_tx", "udp_direct_rx"}
          /\ p[s].streams # {} /\ p[s].streams \subseteq {"tx", "rx"}
          /\ p[s].type = "udp_direct_tx" => p[s].streams = {"tx"}
          /\ p[s].type = "udp_direct_rx" => p[s].streams = {"rx"}
          /\ p[s].type \in {"mavlink", "tunnel"} => p[s].streams = {"tx", "rx"}
    /\ Modes \subseteq {"primary", "secondary", "ssh"}
    /\ Len(Wlans) > 0

VARIABLES
    profile,    \* the configured services
    mode,       \* the role of this server
    card,       \* how far each card is prepared
    init,       \* init(): "idle", "reg_set", "init_wlans", "gather" or its result
    service,    \* the services
    ssh,        \* the ssh processes to the nodes
    notify,     \* the message to systemd
    reactor,    \* "running", "stopping" or "stopped"
    __system_failed,
    signalled   \* history: the user stopped the server

vars == <<profile, mode, card, init, service, ssh, notify, reactor, __system_failed, signalled>>

Results == {"ok", "failed"}
Bad == {"failed", "unspawned"}

Init ==
    /\ profile \in Profiles
    /\ mode \in Modes
    /\ card = [w \in 1 .. Len(Wlans) |-> "unknown"]
    /\ init = "idle"
    /\ service = [s \in Names |->
          [pc |-> "idle", told |-> {}, proc |-> [c \in {"tx", "rx"} |-> "none"], open |-> {}]]
    /\ ssh = [n \in Nodes |-> "none"]
    /\ notify = "none"
    /\ reactor = "running"
    /\ __system_failed = FALSE
    /\ signalled = FALSE

-----------------------------------------------------------------------------
(* The services.  bad is the set of things that fail when they are tried:  *)
(* "tx" and "rx", if the process cannot be spawned, "in", if the user's    *)
(* side cannot be opened, "port", if mavlink_tcp_port is taken, and        *)
(* "peer", if the service does not support what is configured.             *)

Spawned(r, c, bad) ==
    [r EXCEPT !.proc[c] = IF c \in bad THEN "unspawned" ELSE "running"]

(* Which sockets are in the list that _cleanup closes.  The list of        *)
(* init_udp_proxy is assigned again when there is a stream_rx.             *)
Listed(s) ==
    IF profile[s].type = "udp_proxy" /\ "rx" \in profile[s].streams THEN {"rx", "tx"} ELSE {"rx", "tx", "in"}

(* gatherResults(dl).addBoth(_cleanup): fails with the first failure.      *)
Gathered(s, r) ==
    LET used == {r.proc[c] : c \in profile[s].streams}
    IN  IF r.pc # "gather" THEN r
        ELSE IF used \cap Bad # {} THEN [r EXCEPT !.pc = "failed", !.open = @ \ Listed(s)]
        ELSE IF used = {"ok"} THEN [r EXCEPT !.pc = "ok", !.open = @ \ Listed(s)]
        ELSE r

(* The rest of init_mavlink and init_tunnel: the user's side is opened,    *)
(* then the sockets to wfb_tx, and wfb_rx is started.                      *)
Connect(r, bad) ==
    IF "in" \in bad THEN [r EXCEPT !.pc = "failed"]
    ELSE Spawned([r EXCEPT !.pc = "gather", !.open = @ \cup {"in", "tx"}], "rx", bad)

(* Mutant: a control port that comes before the sockets is missed. *)
Ready_missed(s, r) ==
    \/ r.pc = "sockets" /\ "sockets" \in r.told /\ ~profile[s].asks
    \/ r.pc = "control_port" /\ "control_port" \in r.told

(* The Deferreds that the service has yet to wait for have fired. *)
Ready(s, r) ==
    \/ r.pc = "sockets" /\ "sockets" \in r.told /\ (profile[s].asks => "control_port" \in r.told)
    \/ r.pc = "control_port" /\ "control_port" \in r.told

(* The generator resumes when the Deferred it waits for has fired. *)
Resumed(s, r, bad) ==
    IF Ready(s, r)
    THEN CASE profile[s].type \in {"mavlink", "tunnel"} -> Gathered(s, Connect(r, bad))
           [] profile[s].type = "udp_proxy" -> Gathered(s, [r EXCEPT !.pc = "gather", !.open = @ \cup {"tx"}])
           [] profile[s].type = "udp_direct_tx" -> Gathered(s, [r EXCEPT !.pc = "gather"])
    ELSE IF r.pc = "sockets" /\ "sockets" \in r.told THEN [r EXCEPT !.pc = "control_port"]
    ELSE r

(* Mutant: the tunnel starts wfb_rx first. *)
init_tunnel_rx_first(s, r, bad) ==
    Spawned(Spawned([r EXCEPT !.pc = "sockets", !.open = {"rx"}], "tx", bad), "rx", bad)

init_tunnel(s, r, bad) ==
    Spawned([r EXCEPT !.pc = "sockets", !.open = {"rx"}], "tx", bad)

init_mavlink(s, r, bad) ==
    IF "port" \in bad THEN [r EXCEPT !.pc = "failed", !.open = {"rx"}]
    ELSE Spawned([r EXCEPT !.pc = "sockets", !.open = {"rx"}], "tx", bad)

init_udp_proxy(s, r, bad) ==
    LET listening == [r EXCEPT !.open = {"in"} \cup (profile[s].streams \cap {"rx"})]
        receiving == IF "rx" \in profile[s].streams THEN Spawned(listening, "rx", bad) ELSE listening
    IN  IF "in" \in bad THEN [r EXCEPT !.pc = "failed"]
        ELSE IF "tx" \in profile[s].streams THEN Spawned([receiving EXCEPT !.pc = "sockets"], "tx", bad)
        ELSE Gathered(s, [receiving EXCEPT !.pc = "gather"])

init_udp_direct_tx(s, r, bad) ==
    Gathered(s, Spawned([r EXCEPT !.pc = IF profile[s].asks THEN "control_port" ELSE "gather"], "tx", bad))

init_udp_direct_rx(s, r, bad) ==
    Gathered(s, Spawned([r EXCEPT !.pc = "gather"], "rx", bad))

(* The peer address matches no pattern, or udp_direct_tx is to use several *)
(* cards: an exception before anything is opened.  A tunnel has no peer.   *)
Refused(s, bad) == "peer" \in bad /\ profile[s].type # "tunnel"

Started(s, r, bad) ==
    IF Refused(s, bad) THEN [r EXCEPT !.pc = "failed"]
    ELSE CASE profile[s].type = "mavlink" -> init_mavlink(s, r, bad)
           [] profile[s].type = "tunnel" -> init_tunnel(s, r, bad)
           [] profile[s].type = "udp_proxy" -> init_udp_proxy(s, r, bad)
           [] profile[s].type = "udp_direct_tx" -> init_udp_direct_tx(s, r, bad)
           [] profile[s].type = "udp_direct_rx" -> init_udp_direct_rx(s, r, bad)

(* Mutant: TXProtocol leaves the Deferreds alone. *)
Ended_waits(s, r, c, rc) == Gathered(s, [r EXCEPT !.proc[c] = rc])

(* processEnded of RXProtocol and of TXProtocol.  The latter cancels       *)
(* ports_df and control_port_df: a service that waits for one fails, and   *)
(* its sockets stay open.                                                  *)
Ended(s, r, c, rc) ==
    LET ended == [r EXCEPT !.proc[c] = rc]
    IN  IF c = "tx" /\ r.pc \in {"sockets", "control_port"} THEN [ended EXCEPT !.pc = "failed"]
        ELSE Gathered(s, ended)

-----------------------------------------------------------------------------
(* The server *)

(* Mutant: the failure is not recorded when the reactor stops already. *)
fatal_error_once ==
    /\ __system_failed' = (reactor = "running")
    /\ reactor' = "stopping"

(* fatal_error: reactor.stop() may find the reactor stopping. *)
fatal_error ==
    /\ __system_failed' = TRUE
    /\ reactor' = "stopping"

(* The gatherResults of init(), with _cleanup, and abort_on_crash: the     *)
(* first failure counts, later ones are consumed.                          *)
Concluded(failure, done) ==
    IF init = "failed" THEN UNCHANGED <<init, reactor, __system_failed>>
    ELSE IF failure THEN init' = "failed" /\ fatal_error
    ELSE /\ init' = IF done THEN "ok" ELSE "gather"
         /\ UNCHANGED <<reactor, __system_failed>>

ServicesConclude ==
    Concluded(\E s \in Names : service'[s].pc = "failed",
              mode # "ssh" /\ \A s \in Names : service'[s].pc = "ok")

(* All services are started in one step, and systemd is told. *)
StartServices ==
    /\ \E bad \in [Names -> {{}, {"tx"}, {"rx"}, {"in"}, {"port"}, {"peer"}}] :
          service' = [s \in Names |-> Started(s, service[s], bad[s])]
    /\ notify' = "sent"
    /\ ServicesConclude

(* The reactor runs, and calls init().  In cluster mode ssh prepares the   *)
(* cards of the nodes, a secondary server prepares none.                   *)
Main ==
    /\ init = "idle" /\ reactor # "stopped"
    /\ \/ /\ mode = "primary"
          /\ init' = "reg_set"
          /\ UNCHANGED <<service, ssh, notify, reactor, __system_failed>>
       \/ /\ mode # "primary"
          /\ ssh' = [n \in Nodes |-> IF mode = "ssh" THEN "running" ELSE "none"]
          /\ StartServices
    /\ UNCHANGED <<profile, mode, card, signalled>>

(* The commands of init_wlans bring a card from one state to the next.     *)
(* Without nmcli the first two are skipped, and without a txpower the last.*)
After == [unknown |-> {"managed", "unmanaged", "down"}, managed |-> {"unmanaged"},
          unmanaged |-> {"down"}, down |-> {"monitor"}, monitor |-> {"up"},
          up |-> {"channel", "ready"}, channel |-> {"ready"}]

(* Mutant: the services are started when the first card is ready. *)
LastReady_first(w) == card'[w] = "ready"

LastReady(w) == w = Len(Wlans) /\ card'[w] = "ready"

(* A command of init_wlans ends: iw reg set, then card after card; init()  *)
(* fails with the first that fails.  With the last card ready the services *)
(* start.                                                                  *)
init_wlans ==
    /\ init \in {"reg_set", "init_wlans"} /\ reactor # "stopped"
    /\ \/ /\ init = "reg_set" /\ init' = "init_wlans"
          /\ UNCHANGED <<card, service, notify, reactor, __system_failed>>
       \/ /\ init = "init_wlans"
          /\ \E w \in 1 .. Len(Wlans) :
                /\ card[w] # "ready" /\ \A v \in 1 .. (w - 1) : card[v] = "ready"
                /\ \E next \in After[card[w]] : card' = [card EXCEPT ![w] = next]
                /\ IF LastReady(w) THEN StartServices
                   ELSE UNCHANGED <<init, service, notify, reactor, __system_failed>>
       \/ /\ init' = "failed" /\ fatal_error
          /\ UNCHANGED <<card, service, notify>>
    /\ UNCHANGED <<profile, mode, ssh, signalled>>

(* SDNotifier cannot reach systemd. *)
connectionFailed ==
    /\ notify = "sent" /\ reactor # "stopped"
    /\ notify' = "failed"
    /\ fatal_error
    /\ UNCHANGED <<profile, mode, card, init, service, ssh, signalled>>

(* TXAntennaProtocol.lineReceived: wfb_tx announces its sockets or its     *)
(* control port.                                                           *)
Announce(s, what) ==
    /\ reactor # "stopped"
    /\ service[s].proc["tx"] = "running" /\ what \notin service[s].told
    /\ what = "sockets" => profile[s].type # "udp_direct_tx"
    /\ what = "control_port" => profile[s].asks
    /\ \E bad \in {{}, {"rx"}, {"in"}} :
          service' = [service EXCEPT ![s] = Resumed(s, [service[s] EXCEPT !.told = @ \cup {what}], bad)]
    /\ ServicesConclude
    /\ UNCHANGED <<profile, mode, card, ssh, notify, signalled>>

(* A process of a service ends. *)
ProcessEnds(s, c) ==
    /\ reactor # "stopped"
    /\ service[s].proc[c] = "running"
    /\ \E rc \in Results : service' = [service EXCEPT ![s] = Ended(s, @, c, rc)]
    /\ ServicesConclude
    /\ UNCHANGED <<profile, mode, card, ssh, notify, signalled>>

(* The ssh to a node ends, with whatever code: _ssh_exited raises. *)
_ssh_exited(n) ==
    /\ reactor # "stopped"
    /\ ssh[n] = "running"
    /\ ssh' = [ssh EXCEPT ![n] = "exited"]
    /\ Concluded(TRUE, FALSE)
    /\ UNCHANGED <<profile, mode, card, service, notify, signalled>>

(* The user stops the server: SIGINT or SIGTERM. *)
Signal ==
    /\ reactor = "running"
    /\ reactor' = "stopping"
    /\ signalled' = TRUE
    /\ UNCHANGED <<profile, mode, card, init, service, ssh, notify, __system_failed>>

(* reactor.run() returns, and main() exits with exit_status(). *)
ReactorEnds ==
    /\ reactor = "stopping"
    /\ reactor' = "stopped"
    /\ UNCHANGED <<profile, mode, card, init, service, ssh, notify, __system_failed, signalled>>

exit_status == IF __system_failed THEN 1 ELSE 0

Next ==
    \/ Main \/ init_wlans \/ connectionFailed \/ Signal \/ ReactorEnds
    \/ \E s \in Names : \E what \in {"sockets", "control_port"} : Announce(s, what)
    \/ \E s \in Names : \E c \in {"tx", "rx"} : ProcessEnds(s, c)
    \/ \E n \in Nodes : _ssh_exited(n)

(* Commands end, wfb_tx announces what it is asked for or ends, and the    *)
(* reactor stops when told.                                                *)
Fairness ==
    /\ WF_init(Main) /\ WF_vars(ReactorEnds)
    /\ WF_<<card, init>>(init_wlans)
    /\ \A s \in Names : \A what \in {"sockets", "control_port"} : WF_vars(Announce(s, what))

Spec == Init /\ [][Next]_vars /\ Fairness

-----------------------------------------------------------------------------
(* A primary server starts no wfb_tx and no wfb_rx before every card is    *)
(* tuned (init waits for init_wlans).                                      *)
CardsPreparedFirst ==
    mode = "primary" /\ (\E s \in Names : \E c \in {"tx", "rx"} : service[s].proc[c] # "none")
        => \A w \in DOMAIN card : card[w] = "ready"

(* While a service is being started or runs, its wfb_rx has where to send  *)
(* to and what it sends has where to go: the socket and the user's side    *)
(* are open (the order of the steps in services.py).                       *)
ReceiverHasOutlet ==
    \A s \in Names :
        /\ profile[s].type # "udp_direct_rx"
        /\ service[s].proc["rx"] = "running" /\ service[s].pc \notin Results
        => {"rx", "in"} \subseteq service[s].open

(* The exit status tells of every failure that reached the server, also    *)
(* when the server was being stopped already (fatal_error, exit_status).   *)
ExitStatusTells ==
    reactor = "stopped" /\ exit_status = 0 =>
        /\ init # "failed" /\ notify # "failed"
        /\ \A s \in Names : service[s].pc # "failed"
        /\ \A n \in Nodes : ssh[n] # "exited"

(* When a process or a service fails the server stops in the end, with     *)
(* exit status 1 unless the user stopped it.  The exception is a service   *)
(* whose wfb_tx could not even be spawned: it waits for the announcement   *)
(* forever (processEnded, gatherResults, abort_on_crash).                  *)
Hung(s) == service[s].proc["tx"] = "unspawned" /\ service[s].pc \in {"sockets", "control_port"}
FailureStopsServer ==
    \A s \in Names :
        (\E c \in {"tx", "rx"} : service[s].proc[c] \in Bad \/ service[s].pc = "failed") /\ ~Hung(s)
            ~> reactor = "stopped" /\ (exit_status = 1 \/ signalled)

(* If no process ends and nothing fails to open or to start, every service *)
(* comes up in the end (init, the init_... generators).                    *)
Undisturbed ==
    /\ reactor = "running"
    /\ \A s \in Names : \A c \in {"tx", "rx"} : service[s].proc[c] \in {"none", "running"}
ServicesComeUp ==
    []Undisturbed => <>(\A s \in Names : service[s].pc = "gather")

=============================================================================
