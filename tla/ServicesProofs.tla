------------------------------ MODULE ServicesProofs ------------------------------
(***************************************************************************)
(* Three properties of the server, for any number of services, cards and   *)
(* nodes: it prepares all cards before it starts a process, its exit       *)
(* status tells of every failure that reached it, and a receiver is not    *)
(* started before what it sends has somewhere to go.                       *)
(***************************************************************************)
EXTENDS Services, TLAPS

(* The server has met a failure. *)
Trouble ==
    \/ init = "failed" \/ notify = "failed"
    \/ \E s \in Names : service[s].pc = "failed"
    \/ \E n \in Nodes : ssh[n] = "exited"

NoProcess == \A s \in Names : \A c \in {"tx", "rx"} : service[s].proc[c] = "none"

CardStates == {"unknown", "managed", "unmanaged", "down", "monitor", "up", "channel", "ready"}

(* Only a primary server runs init_wlans, and nothing is started before    *)
(* init() is past it.                                                      *)
CardsInvariant ==
    /\ card \in [1 .. Len(Wlans) -> CardStates]
    /\ init \in {"reg_set", "init_wlans"} => mode = "primary"
    /\ init \in {"idle", "reg_set", "init_wlans"} => NoProcess
    /\ CardsPreparedFirst

(* A failure is recorded with the step in which the server meets it. *)
StatusInvariant == Trouble => __system_failed

IsService(r) ==
    /\ r = [pc |-> r.pc, told |-> r.told, proc |-> r.proc, open |-> r.open]
    /\ r.proc = [c \in {"tx", "rx"} |-> r.proc[c]]

Waiting == {"sockets", "control_port"}

(* Where the generator of service s must be for wfb_rx to have been started *)
(* and for the sockets to be open.                                          *)
Outlet(s, r) ==
    /\ IsService(r)
    /\ profile[s].type \in {"mavlink", "tunnel"} =>
          /\ r.pc \in {"idle"} \cup Waiting => r.proc["rx"] = "none"
          /\ r.pc \in Waiting => "rx" \in r.open
          /\ r.pc = "gather" => {"rx", "in"} \subseteq r.open
    /\ profile[s].type = "udp_proxy" =>
          /\ r.pc = "idle" \/ "rx" \notin profile[s].streams => r.proc["rx"] = "none"
          /\ r.pc \in {"gather"} \cup Waiting /\ "rx" \in profile[s].streams => {"rx", "in"} \subseteq r.open
    /\ profile[s].type = "udp_direct_tx" => r.proc["rx"] = "none"
    /\ profile[s].type = "udp_direct_rx" => r.pc \notin Waiting
    /\ r.pc \in {"idle", "gather"} \cup Waiting \cup Results

OutletInvariant ==
    /\ profile \in Profiles
    /\ service = [s \in Names |-> service[s]]
    /\ \A s \in Names : Outlet(s, service[s])

-----------------------------------------------------------------------------
(* What the end of a Deferred of init() does to init() itself. *)
LEMMA ConcludedPast ==
    ASSUME NEW failure \in BOOLEAN, NEW done \in BOOLEAN, Concluded(failure, done)
    PROVE  init' \in {"failed", "ok", "gather"}
BY Zenon DEF Concluded

(* The cards are prepared before anything is started. *)
LEMMA CardsKept ==
    ASSUME CardsInvariant, [Next]_vars
    PROVE  CardsInvariant'
<1> USE DEF CardsInvariant, CardsPreparedFirst, NoProcess
<1>1. CASE Main
  <2>1. CASE mode = "primary"
    BY <1>1, <2>1, Zenon DEF Main
  <2>2. CASE mode # "primary"
    <3>1. init' \in {"failed", "ok", "gather"} /\ mode' = mode /\ card' = card
      BY <1>1, <2>2, ConcludedPast, Zenon DEF Main, StartServices, ServicesConclude
    <3>2. QED
      BY <2>2, <3>1, Zenon
  <2>3. QED
    BY <2>1, <2>2, Zenon
<1>2. CASE init_wlans
  <2>1. mode' = mode /\ mode = "primary" /\ NoProcess
    BY <1>2, Zenon DEF init_wlans
  <2>2. CASE init = "reg_set" /\ init' = "init_wlans" /\ UNCHANGED <<card, service>>
    BY <2>1, <2>2, Zenon
  <2>3. CASE init' = "failed" /\ UNCHANGED <<card, service>>
    BY <2>1, <2>3, Zenon
  <2>4. CASE init = "init_wlans" /\ \E w \in 1 .. Len(Wlans) :
                /\ card[w] # "ready" /\ \A v \in 1 .. (w - 1) : card[v] = "ready"
                /\ \E next \in After[card[w]] : card' = [card EXCEPT ![w] = next]
                /\ IF LastReady(w) THEN StartServices
                   ELSE UNCHANGED <<init, service, notify, reactor, __system_failed>>
    <3>1. PICK w \in 1 .. Len(Wlans) :
             /\ card[w] # "ready" /\ \A v \in 1 .. (w - 1) : card[v] = "ready"
             /\ \E next \in After[card[w]] : card' = [card EXCEPT ![w] = next]
             /\ IF LastReady(w) THEN StartServices
                ELSE UNCHANGED <<init, service, notify, reactor, __system_failed>>
      BY <2>4, Zenon
    <3>2. PICK next : card' = [card EXCEPT ![w] = next]
      BY <3>1, Zenon
    <3>3. DOMAIN card' = 1 .. Len(Wlans) /\ card'[w] = next
      BY <3>2, Zenon
    <3>4. CASE LastReady(w)
      <4>1. w = Len(Wlans) /\ next = "ready"
        BY <3>3, <3>4, Zenon DEF LastReady
      <4>2. card' \in [1 .. Len(Wlans) -> CardStates]
        BY <3>2, <4>1, Zenon DEF CardStates
      <4>3. Len(Wlans) \in Nat
        BY <3>1
      <4>4. \A v \in 1 .. Len(Wlans) : card'[v] = "ready"
        BY <3>1, <3>2, <3>3, <4>1, <4>3
      <4>5. init' \in {"failed", "ok", "gather"}
        BY <3>1, <3>4, ConcludedPast, Zenon DEF StartServices, ServicesConclude
      <4>6. QED
        BY <2>1, <3>3, <4>2, <4>4, <4>5, Zenon
    <3>5. CASE ~LastReady(w)
      <4>1. UNCHANGED <<init, service>>
        BY <3>1, <3>5, Zenon
      <4>2. card' \in [1 .. Len(Wlans) -> CardStates]
        BY <3>1 DEF After, CardStates
      <4>3. QED
        BY <2>1, <2>4, <4>1, <4>2
    <3>6. QED
      BY <3>4, <3>5, Zenon
  <2>5. QED
    BY <1>2, <2>2, <2>3, <2>4, Zenon DEF init_wlans
<1>3. CASE \E s \in Names : \E what \in {"sockets", "control_port"} : Announce(s, what)
  <2>1. PICK s \in Names, what \in {"sockets", "control_port"} : Announce(s, what)
    BY <1>3, Zenon
  <2>2. service[s].proc["tx"] # "none" /\ UNCHANGED <<mode, card>>
    BY <2>1, Zenon DEF Announce
  <2>3. init' \in {"failed", "ok", "gather"}
    BY <2>1, ConcludedPast, Zenon DEF Announce, ServicesConclude
  <2>4. QED
    BY <2>2, <2>3, Zenon
<1>4. CASE \E s \in Names : \E c \in {"tx", "rx"} : ProcessEnds(s, c)
  <2>1. PICK s \in Names, c \in {"tx", "rx"} : ProcessEnds(s, c)
    BY <1>4, Zenon
  <2>2. service[s].proc[c] # "none" /\ UNCHANGED <<mode, card>>
    BY <2>1, Zenon DEF ProcessEnds
  <2>3. init' \in {"failed", "ok", "gather"}
    BY <2>1, ConcludedPast, Zenon DEF ProcessEnds, ServicesConclude
  <2>4. QED
    BY <2>2, <2>3, Zenon
<1>5. CASE \E n \in Nodes : _ssh_exited(n)
  <2>1. init' \in {"failed", "ok", "gather"} /\ UNCHANGED <<mode, card, service>>
    BY <1>5, ConcludedPast, Zenon DEF _ssh_exited
  <2>2. QED
    BY <2>1, Zenon
<1>6. CASE connectionFailed \/ Signal \/ ReactorEnds \/ UNCHANGED vars
  BY <1>6, Zenon DEF connectionFailed, Signal, ReactorEnds, vars
<1>7. QED
  BY <1>1, <1>2, <1>3, <1>4, <1>5, <1>6, Zenon DEF Next

(* A failure is recorded. *)
LEMMA StatusKept ==
    ASSUME StatusInvariant, [Next]_vars
    PROVE  StatusInvariant'
<1> USE DEF StatusInvariant, Trouble
<1>1. CASE Main
  BY <1>1, Zenon DEF Main, StartServices, ServicesConclude, Concluded, fatal_error
<1>2. CASE init_wlans
  BY <1>2, Zenon DEF init_wlans, StartServices, ServicesConclude, Concluded, fatal_error
<1>3. CASE \E s \in Names : \E what \in {"sockets", "control_port"} : Announce(s, what)
  BY <1>3, Zenon DEF Announce, ServicesConclude, Concluded, fatal_error
<1>4. CASE \E s \in Names : \E c \in {"tx", "rx"} : ProcessEnds(s, c)
  BY <1>4, Zenon DEF ProcessEnds, ServicesConclude, Concluded, fatal_error
<1>5. CASE \E n \in Nodes : _ssh_exited(n)
  BY <1>5, Zenon DEF _ssh_exited, Concluded, fatal_error
<1>6. CASE connectionFailed \/ Signal \/ ReactorEnds \/ UNCHANGED vars
  BY <1>6, Zenon DEF connectionFailed, Signal, ReactorEnds, vars, fatal_error
<1>7. QED
  BY <1>1, <1>2, <1>3, <1>4, <1>5, <1>6, Zenon DEF Next

-----------------------------------------------------------------------------
(* A primary server starts no wfb_tx and no wfb_rx before every card is    *)
(* tuned, however many cards and services there are (init, init_wlans).    *)
THEOREM CardsAlwaysPrepared == Spec => []CardsPreparedFirst
<1>1. Init => CardsInvariant
  BY DEF Init, CardsInvariant, CardsPreparedFirst, NoProcess, CardStates
<1>2. CardsInvariant /\ [Next]_vars => CardsInvariant'
  BY CardsKept, Zenon
<1>3. CardsInvariant => CardsPreparedFirst
  BY Zenon DEF CardsInvariant
<1>4. QED
  BY <1>1, <1>2, <1>3, PTL DEF Spec

(* The exit status tells of every failure that reached the server, in any  *)
(* order of failures, signals and ends (fatal_error, exit_status).         *)
THEOREM StatusAlwaysTells == Spec => []ExitStatusTells
<1>1. Init => StatusInvariant
  BY DEF Init, StatusInvariant, Trouble
<1>2. StatusInvariant /\ [Next]_vars => StatusInvariant'
  BY StatusKept, Zenon
<1>3. StatusInvariant => ExitStatusTells
  BY DEF StatusInvariant, Trouble, ExitStatusTells, exit_status
<1>4. QED
  BY <1>1, <1>2, <1>3, PTL DEF Spec

-----------------------------------------------------------------------------
(* Starting a process changes the state of that process only. *)
LEMMA SpawnedFacts ==
    ASSUME NEW r, IsService(r), NEW c \in {"tx", "rx"}, NEW bad
    PROVE  LET q == Spawned(r, c, bad)
           IN  /\ IsService(q) /\ q.pc = r.pc /\ q.told = r.told /\ q.open = r.open
               /\ \A d \in {"tx", "rx"} \ {c} : q.proc[d] = r.proc[d]
  BY DEF IsService, Spawned

(* The generator goes on to v, *)
LEMMA PcFacts ==
    ASSUME NEW r, IsService(r), NEW v
    PROVE  LET q == [r EXCEPT !.pc = v]
           IN  IsService(q) /\ q.pc = v /\ q.told = r.told /\ q.open = r.open /\ q.proc = r.proc
  BY DEF IsService

(* wfb_tx announces something, *)
LEMMA ToldFacts ==
    ASSUME NEW r, IsService(r), NEW v
    PROVE  LET q == [r EXCEPT !.told = v]
           IN  IsService(q) /\ q.pc = r.pc /\ q.told = v /\ q.open = r.open /\ q.proc = r.proc
  BY DEF IsService

(* and a process ends. *)
WithProc(r, c, v) == [r EXCEPT !.proc[c] = v]

(* The end of one process changes nothing else of the service. *)
LEMMA ProcFacts ==
    ASSUME NEW r, IsService(r), NEW v, NEW c \in {"tx", "rx"}
    PROVE  LET q == WithProc(r, c, v)
           IN  /\ IsService(q) /\ q.pc = r.pc /\ q.told = r.told /\ q.open = r.open
               /\ \A d \in {"tx", "rx"} \ {c} : q.proc[d] = r.proc[d]
  BY DEF IsService, WithProc

(* A generator that opens or closes sockets on its way *)
AtWith(r, v, o) == [r EXCEPT !.pc = v, !.open = o]

(* Opening sockets leaves the processes alone. *)
LEMMA OpenFacts ==
    ASSUME NEW r, IsService(r), NEW v, NEW o
    PROVE  LET q == AtWith(r, v, o)
           IN  IsService(q) /\ q.pc = v /\ q.told = r.told /\ q.open = o /\ q.proc = r.proc
<1> DEFINE m == [r EXCEPT !.pc = v]
<1>1. IsService(m) /\ m.pc = v /\ m.told = r.told /\ m.open = r.open /\ m.proc = r.proc
  BY PcFacts, Zenon
<1>2. AtWith(r, v, o) = [m EXCEPT !.open = o]
  BY Zenon DEF AtWith
<1> HIDE DEF m
<1>3. LET q == [m EXCEPT !.open = o]
      IN  IsService(q) /\ q.pc = m.pc /\ q.told = m.told /\ q.open = o /\ q.proc = m.proc
  <2>1. PICK a, b, c, d : m = [pc |-> a, told |-> b, proc |-> c, open |-> d]
    BY <1>1, Zenon DEF IsService
  <2>2. [m EXCEPT !.open = o] = [pc |-> a, told |-> b, proc |-> c, open |-> o]
    BY <2>1
  <2>3. m.pc = a /\ m.told = b /\ m.proc = c
    BY <2>1, Zenon
  <2>. QED  BY <1>1, <2>2, <2>3, Zenon DEF IsService
<1>. QED  BY <1>1, <1>2, <1>3, Zenon

(* A service that ends may close its sockets. *)
LEMMA GatheredOutlet ==
    ASSUME NEW s \in Names, NEW r, Outlet(s, r)
    PROVE  Outlet(s, Gathered(s, r))
<1> DEFINE e(v) == AtWith(r, v, r.open \ Listed(s))
<1>1. IsService(r)
  BY Zenon DEF Outlet
<1>2. ASSUME NEW v PROVE IsService(e(v)) /\ e(v).pc = v /\ e(v).proc = r.proc
  BY <1>1, OpenFacts
<1>3. r.pc # "gather" => Gathered(s, r) = r
  BY Zenon DEF Gathered
<1>4. Gathered(s, r) = r \/ (r.pc = "gather" /\ \E v \in Results : Gathered(s, r) = e(v))
  BY Zenon DEF Gathered, Results, AtWith
<1>5. ASSUME NEW v \in Results, r.pc = "gather" PROVE Outlet(s, e(v))
  <2>1. v \notin {"idle", "gather"} \cup Waiting
    BY Zenon DEF Results, Waiting
  <2> HIDE DEF e
  <2>. QED  BY <1>2, <1>5, <2>1, Zenon DEF Outlet
<1>. QED  BY <1>4, <1>5, Zenon

(* The generators open the socket and the user's side before wfb_rx. *)
LEMMA StartedOutlet ==
    ASSUME profile \in Profiles, NEW s \in Names, NEW r, IsService(r), r.proc["rx"] = "none", NEW bad
    PROVE  Outlet(s, Started(s, r, bad))
<1> USE DEF Waiting, Results
<1>t. /\ profile[s].type \in {"mavlink", "tunnel", "udp_proxy", "udp_direct_tx", "udp_direct_rx"}
      /\ profile[s].type = "udp_direct_tx" => profile[s].streams = {"tx"}
  BY ServicesAssumption, Zenon
<1>0. ASSUME NEW q, IsService(q), q.pc = "failed", q.proc["rx"] = "none"
      PROVE  Outlet(s, q)
  <2>1. q.pc \notin {"idle", "gather"} \cup Waiting /\ q.pc \in Results
    BY <1>0, Zenon
  <2> HIDE DEF Waiting, Results
  <2>. QED  BY <1>0, <2>1, Zenon DEF Outlet
<1>r. CASE Refused(s, bad)
  <2>1. Started(s, r, bad) = [r EXCEPT !.pc = "failed"]
    BY <1>r, Zenon DEF Started
  <2> DEFINE q == [r EXCEPT !.pc = "failed"]
  <2>2. IsService(q) /\ q.pc = "failed" /\ q.proc = r.proc
    BY PcFacts, Zenon
  <2> HIDE DEF q
  <2>3. Outlet(s, q)
    BY <1>0, <2>2, Zenon
  <2>. QED  BY <2>1, <2>3, Zenon DEF q
<1>p. CASE ~Refused(s, bad) /\ profile[s].type = "mavlink" /\ "port" \in bad
  <2>1. Started(s, r, bad) = AtWith(r, "failed", {"rx"})
    BY <1>p, Zenon DEF Started, init_mavlink, AtWith
  <2> DEFINE q == AtWith(r, "failed", {"rx"})
  <2>2. IsService(q) /\ q.pc = "failed" /\ q.proc = r.proc
    BY OpenFacts
  <2> HIDE DEF q
  <2>3. Outlet(s, q)
    BY <1>0, <2>2, Zenon
  <2>. QED  BY <2>1, <2>3, Zenon DEF q
<1>1. CASE /\ ~Refused(s, bad) /\ profile[s].type \in {"mavlink", "tunnel"}
           /\ ~(profile[s].type = "mavlink" /\ "port" \in bad)
  <2> DEFINE q == AtWith(r, "sockets", {"rx"})
  <2>1. IsService(q) /\ q.pc = "sockets" /\ q.open = {"rx"} /\ q.proc["rx"] = "none"
    BY OpenFacts
  <2>2. Started(s, r, bad) = Spawned(q, "tx", bad)
    BY <1>1, Zenon DEF Started, init_mavlink, init_tunnel, AtWith
  <2> HIDE DEF q
  <2>3. LET z == Spawned(q, "tx", bad)
        IN  IsService(z) /\ z.pc = "sockets" /\ z.open = {"rx"} /\ z.proc["rx"] = "none"
    BY <2>1, SpawnedFacts
  <2>. QED  BY <1>1, <2>2, <2>3, Zenon DEF Outlet
<1>2. CASE ~Refused(s, bad) /\ profile[s].type = "udp_proxy"
  <2> DEFINE open == {"in"} \cup (profile[s].streams \cap {"rx"})
             l == [r EXCEPT !.open = open]
             w == IF "rx" \in profile[s].streams THEN Spawned(l, "rx", bad) ELSE l
  <2>1. IsService(l) /\ l.open = open /\ l.proc["rx"] = "none"
    BY DEF IsService
  <2>2. "rx" \in profile[s].streams => {"rx", "in"} \subseteq open
    BY Zenon
  <2> HIDE DEF l, open
  <2>3. IsService(w) /\ w.open = open /\ ("rx" \notin profile[s].streams => w.proc["rx"] = "none")
    BY <2>1, SpawnedFacts, Zenon
  <2>4. Started(s, r, bad) = init_udp_proxy(s, r, bad)
    BY <1>2, Zenon DEF Started
  <2>5. init_udp_proxy(s, r, bad) =
          IF "in" \in bad THEN [r EXCEPT !.pc = "failed"]
          ELSE IF "tx" \in profile[s].streams THEN Spawned([w EXCEPT !.pc = "sockets"], "tx", bad)
          ELSE Gathered(s, [w EXCEPT !.pc = "gather"])
    BY Zenon DEF init_udp_proxy, l, open
  <2> HIDE DEF w
  <2>6. Outlet(s, [r EXCEPT !.pc = "failed"])
    BY <1>0, PcFacts, Zenon
  <2>7. ASSUME NEW v \in {"sockets", "gather"}
        PROVE  LET q == [w EXCEPT !.pc = v]
               IN  Outlet(s, q) /\ IsService(q) /\ q.pc = v /\ q.open = open /\ q.proc = w.proc
    <3> DEFINE q == [w EXCEPT !.pc = v]
    <3>1. IsService(q) /\ q.pc = v /\ q.proc = w.proc /\ q.open = open
      BY <2>3, PcFacts
    <3> HIDE DEF q
    <3>2. Outlet(s, q)
      BY <1>2, <2>2, <2>3, <3>1, Zenon DEF Outlet
    <3>. QED  BY <3>1, <3>2, Zenon DEF q
  <2>8. Outlet(s, Spawned([w EXCEPT !.pc = "sockets"], "tx", bad))
    <3> DEFINE q == [w EXCEPT !.pc = "sockets"]
               z == Spawned(q, "tx", bad)
    <3>1. IsService(q) /\ q.pc = "sockets" /\ q.open = open /\ q.proc = w.proc
      BY <2>7, Zenon
    <3> HIDE DEF q
    <3>2. IsService(z) /\ z.pc = "sockets" /\ z.open = open /\ z.proc["rx"] = w.proc["rx"]
      BY <3>1, SpawnedFacts
    <3> HIDE DEF z
    <3>3. Outlet(s, z)
      BY <1>2, <2>2, <2>3, <3>2, Zenon DEF Outlet
    <3>. QED  BY <3>3, Zenon DEF z, q
  <2>9. Outlet(s, Gathered(s, [w EXCEPT !.pc = "gather"]))
    BY <2>7, GatheredOutlet, Zenon
  <2>. QED  BY <2>4, <2>5, <2>6, <2>8, <2>9, Zenon
<1>3. CASE ~Refused(s, bad) /\ profile[s].type \in {"udp_direct_tx", "udp_direct_rx"}
  <2>1. PICK c \in {"tx", "rx"}, v \in {"control_port", "gather"} :
           /\ Started(s, r, bad) = Gathered(s, Spawned([r EXCEPT !.pc = v], c, bad))
           /\ profile[s].type = "udp_direct_tx" => c = "tx"
           /\ profile[s].type = "udp_direct_rx" => v = "gather"
    BY <1>3, Zenon DEF Started, init_udp_direct_tx, init_udp_direct_rx
  <2> DEFINE q == [r EXCEPT !.pc = v]
             z == Spawned(q, c, bad)
  <2>2. IsService(q) /\ q.pc = v /\ q.proc = r.proc
    BY PcFacts, Zenon
  <2> HIDE DEF q
  <2>3. IsService(z) /\ z.pc = v /\ (c = "tx" => z.proc["rx"] = "none")
    BY <2>2, SpawnedFacts
  <2> HIDE DEF z
  <2>4. Outlet(s, z)
    BY <1>3, <2>1, <2>3, Zenon DEF Outlet
  <2>. QED  BY <2>1, <2>4, GatheredOutlet, Zenon DEF z, q
<1>. QED  BY <1>t, <1>r, <1>p, <1>1, <1>2, <1>3, Zenon

(* A service that resumes opens the user's side before it starts wfb_rx. *)
LEMMA ResumedOutlet ==
    ASSUME profile \in Profiles, NEW s \in Names, NEW r, Outlet(s, r), NEW bad
    PROVE  Outlet(s, Resumed(s, r, bad))
<1> USE DEF Waiting, Results
<1>r. IsService(r)
  BY Zenon DEF Outlet
<1>1. CASE ~Ready(s, r)
  <2>1. Resumed(s, r, bad) = r \/ (r.pc = "sockets" /\ Resumed(s, r, bad) = [r EXCEPT !.pc = "control_port"])
    BY <1>1, Zenon DEF Resumed
  <2>2. CASE r.pc = "sockets"
    <3> DEFINE q == [r EXCEPT !.pc = "control_port"]
    <3>1. IsService(q) /\ q.pc = "control_port" /\ q.open = r.open /\ q.proc = r.proc
      BY <1>r, PcFacts
    <3> HIDE DEF q
    <3>2. Outlet(s, q)
      BY <2>2, <3>1, Zenon DEF Outlet
    <3>. QED  BY <2>1, <3>2, Zenon DEF q
  <2>. QED  BY <2>1, <2>2, Zenon
<1>2. CASE Ready(s, r)
  <2>p. r.pc \in Waiting
    BY <1>2, Zenon DEF Ready
  <2>t. profile[s].type \in {"mavlink", "tunnel", "udp_proxy", "udp_direct_tx"}
    BY <2>p, ServicesAssumption, Zenon DEF Outlet
  <2>1. CASE profile[s].type \in {"mavlink", "tunnel"}
    <3>1. Resumed(s, r, bad) = Gathered(s, Connect(r, bad))
      BY <1>2, <2>1, Zenon DEF Resumed
    <3>2. CASE "in" \in bad
      <4> DEFINE q == [r EXCEPT !.pc = "failed"]
      <4>1. IsService(q) /\ q.pc = "failed" /\ q.proc = r.proc
        BY <1>r, PcFacts
      <4>2. Connect(r, bad) = q
        BY <3>2, Zenon DEF Connect
      <4> HIDE DEF q
      <4>3. Outlet(s, q)
        BY <2>1, <4>1, Zenon DEF Outlet
      <4>. QED  BY <3>1, <4>2, <4>3, GatheredOutlet, Zenon
    <3>3. CASE "in" \notin bad
      <4> DEFINE q == AtWith(r, "gather", r.open \cup {"in", "tx"})
                 z == Spawned(q, "rx", bad)
      <4>1. IsService(q) /\ q.pc = "gather" /\ q.open = r.open \cup {"in", "tx"}
        BY <1>r, OpenFacts
      <4>2. Connect(r, bad) = z
        BY <3>3, Zenon DEF Connect, AtWith
      <4> HIDE DEF q
      <4>3. IsService(z) /\ z.pc = "gather" /\ z.open = r.open \cup {"in", "tx"}
        BY <4>1, SpawnedFacts, Zenon
      <4> HIDE DEF z
      <4>4. "rx" \in r.open
        BY <2>1, <2>p, Zenon DEF Outlet
      <4>5. Outlet(s, z)
        BY <2>1, <4>3, <4>4, Zenon DEF Outlet
      <4>. QED  BY <3>1, <4>2, <4>5, GatheredOutlet, Zenon
    <3>. QED  BY <3>2, <3>3, Zenon
  <2>2. CASE profile[s].type \in {"udp_proxy", "udp_direct_tx"}
    <3>1. PICK o : /\ Resumed(s, r, bad) = Gathered(s, AtWith(r, "gather", o)) /\ r.open \subseteq o
      <4>1. CASE profile[s].type = "udp_proxy"
        <5>1. Resumed(s, r, bad) = Gathered(s, AtWith(r, "gather", r.open \cup {"tx"}))
          BY <1>2, <4>1, Zenon DEF Resumed, AtWith
        <5>. QED  BY <5>1, Zenon
      <4>2. CASE profile[s].type = "udp_direct_tx"
        <5>1. Resumed(s, r, bad) = Gathered(s, [r EXCEPT !.pc = "gather"])
          BY <1>2, <4>2, Zenon DEF Resumed
        <5>2. AtWith(r, "gather", r.open) = [r EXCEPT !.pc = "gather"]
          BY <1>r, Zenon DEF AtWith, IsService
        <5>. QED  BY <5>1, <5>2, Zenon
      <4>. QED  BY <2>2, <4>1, <4>2, Zenon
    <3> DEFINE q == AtWith(r, "gather", o)
    <3>2. IsService(q) /\ q.pc = "gather" /\ q.open = o /\ q.proc = r.proc
      BY <1>r, OpenFacts
    <3> HIDE DEF q
    <3>3. Outlet(s, q)
      BY <2>2, <2>p, <3>1, <3>2, Zenon DEF Outlet
    <3>. QED  BY <3>1, <3>3, GatheredOutlet, Zenon DEF q
  <2>. QED  BY <2>t, <2>1, <2>2, Zenon
<1>. QED  BY <1>1, <1>2, Zenon

(* A process that ends opens nothing and starts nothing. *)
LEMMA EndedOutlet ==
    ASSUME NEW s \in Names, NEW r, Outlet(s, r), NEW c \in {"tx", "rx"}, NEW rc, r.proc[c] = "running"
    PROVE  Outlet(s, Ended(s, r, c, rc))
<1> USE DEF Waiting, Results
<1> DEFINE q == WithProc(r, c, rc)
           z == [q EXCEPT !.pc = "failed"]
<1>1. IsService(q) /\ q.pc = r.pc /\ q.open = r.open /\ (c # "rx" => q.proc["rx"] = r.proc["rx"])
  <2>1. IsService(r)
    BY Zenon DEF Outlet
  <2>. QED  BY <2>1, ProcFacts
<1>2. Ended(s, r, c, rc) = IF c = "tx" /\ r.pc \in {"sockets", "control_port"} THEN z ELSE Gathered(s, q)
  BY Zenon DEF Ended, WithProc
<1> HIDE DEF q
<1>3. IsService(z) /\ z.pc = "failed" /\ z.proc = q.proc
  BY <1>1, PcFacts
<1> HIDE DEF z
<1>4. r.proc["rx"] = "none" => c # "rx"
  BY Zenon
<1>5. Outlet(s, q)
  BY <1>1, <1>4, Zenon DEF Outlet
<1>6. Outlet(s, z)
  BY <1>1, <1>3, <1>4, Zenon DEF Outlet
<1>. QED  BY <1>2, <1>5, <1>6, GatheredOutlet, Zenon

(* One service changes, or all are started. *)
LEMMA OutletKept ==
    ASSUME OutletInvariant, CardsInvariant, [Next]_vars
    PROVE  OutletInvariant'
<1>u. profile' = profile
  BY Zenon DEF Next, Main, init_wlans, connectionFailed, Signal, ReactorEnds, Announce, ProcessEnds, _ssh_exited, vars
<1>k. ASSUME service' = service PROVE OutletInvariant'
  BY <1>u, <1>k, Zenon DEF OutletInvariant, Outlet
<1>n. ASSUME NEW s \in Names, NEW q, Outlet(s, q), service' = [service EXCEPT ![s] = q]
      PROVE  OutletInvariant'
  <2>1. \A t \in Names : service'[t] = IF t = s THEN q ELSE service[t]
    BY <1>n, Zenon DEF OutletInvariant
  <2>2. service' = [t \in Names |-> service'[t]]
    BY <1>n, Zenon DEF OutletInvariant
  <2>3. \A t \in Names : Outlet(t, service'[t])
    BY <1>n, <2>1, Zenon DEF OutletInvariant
  <2>. QED  BY <1>u, <2>2, <2>3, Zenon DEF OutletInvariant, Outlet
<1>s. ASSUME StartServices, NoProcess PROVE OutletInvariant'
  <2>1. PICK bad : service' = [s \in Names |-> Started(s, service[s], bad[s])]
    BY <1>s, Zenon DEF StartServices
  <2>2. \A s \in Names : IsService(service[s]) /\ service[s].proc["rx"] = "none"
    BY <1>s, Zenon DEF OutletInvariant, Outlet, NoProcess
  <2>3. \A s \in Names : Outlet(s, Started(s, service[s], bad[s]))
    BY <2>2, StartedOutlet, Zenon DEF OutletInvariant
  <2>4. \A s \in Names : Outlet(s, service'[s])
    BY <2>1, <2>3, Zenon
  <2>5. service' = [s \in Names |-> service'[s]]
    BY <2>1, Zenon
  <2>. QED  BY <1>u, <2>4, <2>5, Zenon DEF OutletInvariant, Outlet
<1>1. CASE Main
  <2>1. CASE service' = service
    BY <1>k, <2>1, Zenon
  <2>2. CASE StartServices
    BY <1>1, <1>s, <2>2, Zenon DEF Main, CardsInvariant
  <2>. QED  BY <1>1, <2>1, <2>2, Zenon DEF Main
<1>2. CASE init_wlans
  <2>1. service' = service \/ (StartServices /\ init \in {"reg_set", "init_wlans"})
    BY <1>2, Zenon DEF init_wlans
  <2>. QED  BY <1>k, <1>s, <2>1, Zenon DEF CardsInvariant
<1>3. ASSUME NEW s \in Names, NEW what \in {"sockets", "control_port"}, Announce(s, what)
      PROVE  OutletInvariant'
  <2> DEFINE q == [service[s] EXCEPT !.told = @ \cup {what}]
  <2>1. PICK bad : service' = [service EXCEPT ![s] = Resumed(s, q, bad)]
    BY <1>3, Zenon DEF Announce
  <2>2. /\ IsService(q) /\ q.pc = service[s].pc /\ q.open = service[s].open /\ q.proc = service[s].proc
    <3>1. IsService(service[s])
      BY Zenon DEF OutletInvariant, Outlet
    <3>. QED  BY <3>1, ToldFacts, Zenon
  <2> HIDE DEF q
  <2>3. Outlet(s, q)
    BY <2>2, Zenon DEF OutletInvariant, Outlet
  <2>. QED  BY <1>n, <2>1, <2>3, ResumedOutlet, Zenon DEF OutletInvariant
<1>4. ASSUME NEW s \in Names, NEW c \in {"tx", "rx"}, ProcessEnds(s, c)
      PROVE  OutletInvariant'
  <2>1. PICK rc : service' = [service EXCEPT ![s] = Ended(s, service[s], c, rc)]
    BY <1>4, Zenon DEF ProcessEnds
  <2>2. Outlet(s, Ended(s, service[s], c, rc))
    BY <1>4, EndedOutlet, Zenon DEF ProcessEnds, OutletInvariant
  <2>. QED  BY <1>n, <2>1, <2>2, Zenon
<1>5. CASE (\E n \in Nodes : _ssh_exited(n)) \/ connectionFailed \/ Signal \/ ReactorEnds \/ UNCHANGED vars
  BY <1>5, <1>k, Zenon DEF _ssh_exited, connectionFailed, Signal, ReactorEnds, vars
<1>. QED  BY <1>1, <1>2, <1>3, <1>4, <1>5, Zenon DEF Next

(* In every service, of whatever type, wfb_rx is started only with its       *)
(* socket and the user's side open, and they stay open while the service is  *)
(* being started or runs (the init_... generators, _cleanup).                *)
THEOREM ReceiverAlwaysHasOutlet == Spec => []ReceiverHasOutlet
<1>1. Init => OutletInvariant /\ CardsInvariant
  <2>. SUFFICES ASSUME Init PROVE OutletInvariant /\ CardsInvariant
    BY Zenon
  <2>1. CardsInvariant
    BY Zenon DEF Init, CardsInvariant, CardsPreparedFirst, NoProcess, CardStates
  <2>2. service = [s \in Names |-> service[s]] /\ profile \in Profiles
    BY Zenon DEF Init
  <2>3. ASSUME NEW s \in Names PROVE Outlet(s, service[s])
    <3>1. service[s] = [pc |-> "idle", told |-> {}, proc |-> [c \in {"tx", "rx"} |-> "none"], open |-> {}]
      BY Zenon DEF Init
    <3>. QED  BY <3>1 DEF Outlet, IsService, Waiting
  <2>. QED  BY <2>1, <2>2, <2>3, Zenon DEF OutletInvariant
<1>2. (OutletInvariant /\ CardsInvariant) /\ [Next]_vars => (OutletInvariant /\ CardsInvariant)'
  BY OutletKept, CardsKept, Zenon
<1>3. OutletInvariant => ReceiverHasOutlet
  <2>. SUFFICES ASSUME OutletInvariant, NEW s \in Names, profile[s].type # "udp_direct_rx",
                       service[s].proc["rx"] = "running", service[s].pc \notin Results
                PROVE  {"rx", "in"} \subseteq service[s].open
    BY Zenon DEF ReceiverHasOutlet
  <2>1. /\ Outlet(s, service[s])
        /\ profile[s].type \in {"mavlink", "tunnel", "udp_proxy", "udp_direct_tx"}
    BY ServicesAssumption, Zenon DEF OutletInvariant
  <2>. QED  BY <2>1, Zenon DEF Outlet, Waiting, Results
<1>. QED  BY <1>1, <1>2, <1>3, PTL DEF Spec

=============================================================================
