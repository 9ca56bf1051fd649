------------------------------ MODULE Discovery ------------------------------
(***************************************************************************)
(* Finding exporters on the LAN: the mDNS responder an exporter runs       *)
(* (mdns.rs Responder, start_mdns in the server's lib.rs), the one-shot    *)
(* browse() of the attach daemon, and the list of servers it makes of the  *)
(* result (endpoints() in the daemon's main.rs).                           *)
(*                                                                         *)
(* UDP keeps no promise: a datagram stays in `net` once it was sent, and   *)
(* is received once, again, late or never.  A datagram is its header, its  *)
(* questions and its records; a name is <<kind, name>> with Wired for what *)
(* encode_name leaves of it (labels of 63 bytes at most).                  *)
(***************************************************************************)
EXTENDS Naturals, Sequences, Functions, FiniteSets

CONSTANTS
  Responders,  \* exporters that advertise themselves
  Advert,      \* [instance, host, addrs, txt] of each
  Ports,       \* the TCP ports an exporter may listen on; another one per start
  Wired,       \* a name as it comes back from the wire
  Lower,       \* to_ascii_lowercase, of names and addresses
  Configured,  \* cfg.servers: [host, port] of each, in order
  Asked,       \* external: sets of questions other programs ask
  MaxRecords,  \* MAX_PACKET: records that fit into the receive buffer
  MaxBrowses,  \* bound: ticks of the daemon
  MaxReads,    \* bound: datagrams read in one browse
  MaxStarts,   \* bound: starts of an exporter
  MaxSent      \* bound: datagrams

ASSUME AdvertAssumption ==
  \A r \in Responders :
    {Advert[r].instance, Advert[r].host} \subseteq DOMAIN Wired /\ Advert[r].addrs \in Seq(DOMAIN Lower)
ASSUME NamesAssumption ==
  \A n \in DOMAIN Wired : Wired[n] \in DOMAIN Lower /\ n \in DOMAIN Lower
ASSUME ConfiguredAssumption == Configured \in Seq([host : DOMAIN Lower, port : Nat])
\* 9000 bytes hold the PTR, the SRV and the TXT record: labels of 63 bytes, and
\* one string of 255.
ASSUME RecordsAssumption == MaxRecords >= 3
ASSUME BoundsAssumption == {MaxRecords, MaxBrowses, MaxReads, MaxStarts, MaxSent} \subseteq Nat

VARIABLES
  pc,        \* the mDNS thread of each exporter
  port,      \* Responder.port
  starts,    \* bound: how often it was started
  net,       \* the datagrams sent so far
  browsing,  \* the daemon is inside browse()
  round,     \* browse() has been called so often; its socket is named for it
  reads,     \* bound: datagrams this browse has read
  col,       \* what collect() has gathered
  servers,   \* the result of endpoints()
  offered,   \* history: the adverts that were on offer since the browse began
  heard      \* history: the instances this browse has heard of

exporters == <<pc, port, starts>>
browser == <<browsing, round, reads, col, servers, heard>>
vars == <<exporters, net, browser, offered>>

SERVICE == <<"service", "_usbip._tcp.local">>
InstanceFqdn(n) == <<"instance", n>>
HostFqdn(n) == <<"host", n>>
SameName(a, b) == a[1] = b[1] /\ Lower[a[2]] = Lower[b[2]]

\* Addresses: the multicast group, and programs other than the daemon.
GROUP == <<"group", 0>>
STRANGER == <<"other", 0>>

TTL_HOST == 120
TTL_PTR == 4500

-----------------------------------------------------------------------------
(* The responder.                                                          *)

Rec(name, rtype, ttl, rdata) == [name |-> name, rtype |-> rtype, ttl |-> ttl, rdata |-> rdata]

\* encode_name and read_name: a label as it comes out of a datagram.
OnWire(n) == Wired[n]

\* srv_rdata; collect() reads both back.
SrvRdata(p, target) == [port |-> p, target |-> target]

\* Responder::answer: the PTR if it was asked for, then SRV and TXT, and the
\* addresses as additional records.
Answer(r, p, includePtr, ttlHost, ttlPtr) ==
  LET a == Advert[r]
      instance == InstanceFqdn(OnWire(a.instance))
      host == HostFqdn(OnWire(a.host))
  IN  (IF includePtr THEN <<Rec(SERVICE, "PTR", ttlPtr, instance)>> ELSE <<>>)
        \o <<Rec(instance, "SRV", ttlHost, SrvRdata(p, host)),
             Rec(instance, "TXT", ttlHost, a.txt)>>
        \o [k \in DOMAIN a.addrs |-> Rec(host, "A", ttlHost, a.addrs[k])]

Query(questions, from, to) ==
  [response |-> FALSE, questions |-> questions, records |-> <<>>, from |-> from, to |-> to]
Response(records, to) ==
  [response |-> TRUE, questions |-> {}, records |-> records, from |-> GROUP, to |-> to]

Announcement(r) == Response(Answer(r, port[r], TRUE, TTL_HOST, TTL_PTR), GROUP)
Goodbye(r) == Response(Answer(r, port[r], TRUE, 0, 0), GROUP)

\* match_questions.  The names asked for came over the wire; the responder
\* compares them with its own, which did not.
Wants(r, q) ==
  LET own == {InstanceFqdn(Advert[r].instance)}
      host == {HostFqdn(Advert[r].host)}
  IN  [ptr |-> \E x \in q.questions : x.name = SERVICE /\ x.qtype \in {"PTR", "ANY"},
       service |-> \E x \in q.questions :
         \/ x.qtype \in {"SRV", "TXT", "ANY"} /\ \E n \in own : SameName(x.name, n)
         \/ x.qtype \in {"A", "ANY"} /\ \E n \in host : SameName(x.name, n),
       unicast |-> \E x \in q.questions : x.unicast]

\* A datagram goes out; it has the room the bound leaves, and an equal one is
\* the same to whoever receives it.
Send(d) == net' = net \cup {d} /\ Cardinality(net') <= MaxSent

\* What is on offer at an exporter, as far as a browser can tell.
Offer(r, p) ==
  [instance |-> OnWire(Advert[r].instance), host |-> OnWire(Advert[r].host), port |-> p,
   addrs |-> Range(Advert[r].addrs), txt |-> Advert[r].txt]
Offers == {Offer(r, port[r]) : r \in {s \in Responders : pc[s] = "poll"}}

\* start_mdns, and the first announce(), whose failure is ignored.
Start(r) ==
  /\ pc[r] = "off" /\ starts[r] < MaxStarts
  /\ starts' = [starts EXCEPT ![r] = @ + 1]
  /\ \E p \in Ports : port' = [port EXCEPT ![r] = p]
  /\ pc' = [pc EXCEPT ![r] = "poll"]
  /\ offered' = offered \cup {Offer(r, port'[r])}
  /\ UNCHANGED <<net, browser>>

\* announce(), at once and then every minute.
Announce(r) ==
  /\ pc[r] = "poll"
  /\ Send(Announcement(r))
  /\ UNCHANGED <<exporters, browser, offered>>

\* poll_once: a query for the service, this instance or this host is answered,
\* to its sender if it asks for that.
PollOnce(r) ==
  /\ pc[r] = "poll"
  /\ \E q \in net :
       /\ q.to = GROUP /\ ~ q.response
       /\ LET w == Wants(r, q)
              to == IF w.unicast THEN q.from ELSE GROUP
          IN  /\ w.ptr \/ w.service
              /\ Send(Response(Answer(r, port[r], w.ptr, TTL_HOST, TTL_PTR), to))
  /\ UNCHANGED <<exporters, browser, offered>>

\* A signal, or an error of the socket, ends the loop; goodbye() follows.
Leave(r) ==
  /\ pc[r] = "poll"
  /\ pc' = [pc EXCEPT ![r] = "off"]
  /\ Send(Goodbye(r))
  /\ UNCHANGED <<port, starts, browser, offered>>

\* The process may end before its thread gets there: run() does not join it.
Exit(r) ==
  /\ pc[r] = "poll"
  /\ pc' = [pc EXCEPT ![r] = "off"]
  /\ UNCHANGED <<port, starts, net, browser, offered>>

\* External: some other program on the LAN asks.
Ask ==
  /\ \E questions \in Asked : Send(Query(questions, STRANGER, GROUP))
  /\ UNCHANGED <<exporters, browser, offered>>

-----------------------------------------------------------------------------
(* The browser.                                                            *)

NothingYet == [instances |-> <<>>, srv |-> <<>>, txts |-> <<>>, addrs |-> <<>>]

Init ==
  /\ pc = [r \in Responders |-> "off"] /\ port = [r \in Responders |-> 0]
  /\ starts = [r \in Responders |-> 0]
  /\ net = {}
  /\ browsing = FALSE /\ round = 0 /\ reads = 0 /\ col = NothingYet /\ servers = <<>>
  /\ offered = {} /\ heard = {}

\* Fault: one socket, and so one source port, for every browse.
OneSocket(n) == <<"browser", 1>>

\* bind_udp(0): a port of its own for every browse.
Socket(n) == <<"browser", n>>

BrowseQuestions == {[name |-> SERVICE, qtype |-> "PTR", unicast |-> TRUE]}

\* browse() up to its loop.
Browse ==
  /\ ~ browsing /\ round < MaxBrowses
  /\ browsing' = TRUE /\ round' = round + 1 /\ reads' = 0
  /\ col' = NothingYet /\ heard' = {}
  /\ offered' = Offers
  /\ Send(Query(BrowseQuestions, Socket(round'), GROUP))
  /\ UNCHANGED <<exporters, servers>>

\* Fault: an instance that answers twice is listed twice.
CollectTwice(c, rec) ==
  CASE rec.rtype = "PTR" -> IF rec.name = SERVICE
                            THEN [c EXCEPT !.instances = Append(@, rec.rdata)] ELSE c
    [] rec.rtype = "SRV" -> [c EXCEPT !.srv = Append(@, [name |-> rec.name, rdata |-> rec.rdata])]
    [] rec.rtype = "TXT" -> [c EXCEPT !.txts = Append(@, [name |-> rec.name, rdata |-> rec.rdata])]
    [] rec.rtype = "A" -> [c EXCEPT !.addrs = Append(@, [name |-> rec.name, rdata |-> rec.rdata])]

\* collect, of one record.  The TTL is not looked at.
Collect(c, rec) ==
  LET entry == [name |-> rec.name, rdata |-> rec.rdata]
      known == \E k \in DOMAIN c.instances : SameName(c.instances[k], rec.rdata)
  IN  CASE rec.rtype = "PTR" -> IF rec.name = SERVICE /\ ~ known
                                THEN [c EXCEPT !.instances = Append(@, rec.rdata)] ELSE c
        [] rec.rtype = "SRV" -> [c EXCEPT !.srv = Append(@, entry)]
        [] rec.rtype = "TXT" -> [c EXCEPT !.txts = Append(@, entry)]
        [] rec.rtype = "A" -> [c EXCEPT !.addrs = Append(@, entry)]

\* The records collect() can read: it stops where the buffer cut one off, and
\* what came before is kept.
Readable(d) == SubSeq(d.records, 1, IF Len(d.records) < MaxRecords THEN Len(d.records) ELSE MaxRecords)

\* collect: the records one after the other.
Collected(c, records) ==
  LET after[k \in 0..Len(records)] ==
        IF k = 0 THEN c ELSE Collect(after[k - 1], records[k])
  IN  after[Len(records)]

Receive ==
  /\ browsing /\ reads < MaxReads
  /\ \E d \in net :
       /\ d.to = Socket(round)
       /\ col' = Collected(col, Readable(d))
       /\ heard' = heard \cup {d.records[k].rdata[2] :
                                 k \in {i \in DOMAIN Readable(d) : d.records[i].rtype = "PTR"}}
  /\ reads' = reads + 1
  /\ UNCHANGED <<exporters, net, browsing, round, servers, offered>>

Named(entries, name) == \E k \in DOMAIN entries : entries[k].name = name

\* iter().find(): the data of the first entry of that name.
First(entries, name) ==
  entries[CHOOSE k \in DOMAIN entries :
            entries[k].name = name /\ \A j \in 1..(k - 1) : entries[j].name # name].rdata

\* What is left of s, in order, when only the positions in I stay.
Kept(s, I) ==
  LET kept[k \in 0..Len(s)] ==
        IF k = 0 THEN <<>> ELSE IF k \in I THEN Append(kept[k - 1], s[k]) ELSE kept[k - 1]
  IN  kept[Len(s)]

\* One entry of browse()'s result for each instance that has an SRV record.
Discovered(c, instance) ==
  LET srv == First(c.srv, instance)
      ips == Kept(c.addrs, {k \in DOMAIN c.addrs : SameName(c.addrs[k].name, srv.target)})
  IN  [instance |-> instance[2], host |-> srv.target[2], port |-> srv.port,
       addrs |-> [k \in DOMAIN ips |-> ips[k].rdata],
       txt |-> IF Named(c.txts, instance) THEN First(c.txts, instance) ELSE <<>>]

\* dedup_by: of neighbours with the same name the first stays.
Dedup(found) ==
  Kept(found, {k \in DOMAIN found : k = 1 \/ found[k - 1].instance # found[k].instance})

Found(c) ==
  LET located == Kept(c.instances, {k \in DOMAIN c.instances : Named(c.srv, c.instances[k])})
  IN  Dedup([k \in DOMAIN located |-> Discovered(c, located[k])])

\* Discovered::endpoint
Endpoint(d) == IF d.addrs = <<>> THEN d.host ELSE Head(d.addrs)

\* endpoints(): the configured servers, then those found that are not there.
Endpoints(found) ==
  LET list[k \in 0..Len(found)] ==
        IF k = 0 THEN Configured
        ELSE IF \E j \in DOMAIN list[k - 1] : Lower[list[k - 1][j].host] = Lower[Endpoint(found[k])]
             THEN list[k - 1]
             ELSE Append(list[k - 1], [host |-> Endpoint(found[k]), port |-> found[k].port])
  IN  list[Len(found)]

\* The deadline passes, or recv_from fails and the browse is for nothing.
Deadline ==
  /\ browsing
  /\ browsing' = FALSE
  /\ servers' = Endpoints(Found(col))
  /\ UNCHANGED <<exporters, net, round, reads, col, offered, heard>>

BrowseFails ==
  /\ browsing
  /\ browsing' = FALSE /\ col' = NothingYet /\ heard' = {}
  /\ servers' = Configured
  /\ UNCHANGED <<exporters, net, round, reads, offered>>

Next ==
  \/ \E r \in Responders : Start(r) \/ Announce(r) \/ PollOnce(r) \/ Leave(r) \/ Exit(r)
  \/ Ask \/ Browse \/ Receive \/ Deadline \/ BrowseFails

Spec == Init /\ [][Next]_vars

-----------------------------------------------------------------------------
\* The values of the state (mdns.rs Responder, browse).
TypeOK ==
  /\ pc \in [Responders -> {"off", "poll"}] /\ port \in [Responders -> Ports \cup {0}]
  /\ starts \in [Responders -> 0..MaxStarts]
  /\ browsing \in BOOLEAN /\ round \in 0..MaxBrowses /\ reads \in 0..MaxReads

\* Whatever was lost, repeated, reordered or late, browse() puts together only
\* what belongs together: an instance, its host, port and text, and addresses of
\* that host, as some exporter offered them since this browse began.  The
\* servers tried beyond the configured ones are those, at those ports.
FoundIsOffered ==
  LET found == Found(col)
  IN  /\ \A k \in DOMAIN found :
           /\ \E o \in offered :
                /\ o.instance = found[k].instance /\ o.host = found[k].host
                /\ o.port = found[k].port /\ o.txt = found[k].txt
           /\ \A i \in DOMAIN found[k].addrs : \E o \in offered :
                Lower[o.host] = Lower[found[k].host] /\ found[k].addrs[i] \in o.addrs
      /\ \A k \in (Len(Configured) + 1)..Len(servers) :
           ~ browsing => \E d \in Range(found) : servers[k] = [host |-> Endpoint(d), port |-> d.port]

\* Every exporter whose answer reached the browse is found, once however often
\* it answered, and is a server to try (or one with its address already is).
HeardIsFound ==
  LET found == Found(col)
  IN  \A n \in heard :
        /\ Cardinality({k \in DOMAIN found : Lower[found[k].instance] = Lower[n]}) = 1
        /\ ~ browsing =>
             \A k \in DOMAIN found : Lower[found[k].instance] = Lower[n] =>
               \E j \in DOMAIN servers : Lower[servers[j].host] = Lower[Endpoint(found[k])]
=============================================================================
