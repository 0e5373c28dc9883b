-------------------------------- MODULE Wifi --------------------------------
(***************************************************************************)
(* The Wi-Fi link (tiku_kits_net_wifi.c): a small ARP cache, one packet    *)
(* held back while its next hop is asked for, and the process that clears  *)
(* everything when the radio loses its network and starts DHCP on the      *)
(* next one.  Networks are numbered in the order they are joined.          *)
(***************************************************************************)
EXTENDS Integers, FiniteSets

CONSTANTS
  NULL,
  Hosts, Local, Gateway,     \* addresses; those of the subnet; the router, one of them
  Macs,
  Radios,                    \* whether access point and station work at once
  ARP_CACHE_SIZE,
  LEASE_TICKS,
  MaxPackets, MaxNetworks, MaxTime   \* bounds

VARIABLES
  w,       \* arp_cache, arp_wait_pkt, wifi_reconnect, the lease and the address
  radio,   \* the driver: joined, access point on, both at once, LINK_DOWN events posted
  air,     \* the frame sent last
  heard,   \* the station each address was heard from last, on this network
  n        \* counters: packets, networks, time

vars == <<w, radio, air, heard, n>>

(***************************************************************************)
(* State.                                                                  *)
(***************************************************************************)
Slots == 0..(ARP_CACHE_SIZE - 1)
Unused == [ip |-> NULL, mac |-> NULL, net |-> 0]
Clear == [i \in Slots |-> Unused]
Silent == [dst |-> NULL, mac |-> NULL, id |-> 0, hop |-> NULL]
Init ==
  /\ w = [cache |-> Clear, next |-> 0, wait |-> NULL, reconnect |-> TRUE, lease |-> NULL,
          addr |-> NULL, dhcp |-> "idle", tcp |-> NULL, until |-> NULL]
  /\ \E dual \in Radios : radio = [joined |-> FALSE, ap |-> FALSE, dual |-> dual, down |-> 0, active |-> TRUE,
                                    missed |-> FALSE]
  /\ air = Silent
  /\ heard = [h \in Hosts |-> NULL]
  /\ n = [packets |-> 0, nets |-> 0, now |-> 0]

(***************************************************************************)
(* The cache: the place of an address is kept, a new one takes the place   *)
(* after the last taken.                                                   *)
(***************************************************************************)
Known(k, ip) == {i \in Slots : k.cache[i].ip = ip}
Learn(k, ip, mac) ==
  LET entry == [ip |-> ip, mac |-> mac, net |-> n.nets]
  IN IF Known(k, ip) # {} THEN [k EXCEPT !.cache[CHOOSE i \in Known(k, ip) : TRUE] = entry]
     ELSE [k EXCEPT !.cache[k.next] = entry, !.next = (@ + 1) % ARP_CACHE_SIZE]
Lookup(k, ip) == LET i == CHOOSE i \in Known(k, ip) : \A j \in Known(k, ip) : i <= j IN k.cache[i].mac

\* wifi_send: the next hop is the destination, or the router for one beyond the
\* subnet once there is a lease; an unknown one is asked for and the packet held,
\* in the place of the one held before.
Hop(k, dst) == IF k.lease # NULL /\ dst \notin Local THEN Gateway ELSE dst
Send(k, p) ==
  LET hop == Hop(k, p.dst)
  IN /\ p.id # 0
     /\ IF ~radio.joined THEN w' = k /\ UNCHANGED air
        ELSE IF Known(k, hop) # {}
        THEN w' = k /\ air' = [dst |-> p.dst, mac |-> Lookup(k, hop), id |-> p.id, hop |-> hop]
        ELSE w' = [k EXCEPT !.wait = [dst |-> p.dst, id |-> p.id, hop |-> hop]] /\ UNCHANGED air

SendIp(dst) ==
  /\ n.packets < MaxPackets
  /\ n' = [n EXCEPT !.packets = @ + 1]
  /\ Send(w, [dst |-> dst, id |-> n.packets + 1])
  /\ UNCHANGED <<radio, heard>>

\* wifi_rx_cb on an ARP packet: learnt from, and the packet held for it goes.  An
\* answer to a question about our address changes nothing here.
ReceiveArp(ip, mac) ==
  /\ radio.joined
  /\ heard' = [heard EXCEPT ![ip] = mac]
  /\ LET k == Learn(w, ip, mac)
     IN IF k.wait # NULL /\ k.wait.hop = ip THEN Send([k EXCEPT !.wait = NULL], k.wait)
        ELSE w' = k /\ UNCHANGED air
  /\ UNCHANGED <<radio, n>>

\* On an IPv4 frame: the sender is learnt; a packet held for it stays.
ReceiveIp(ip, mac) ==
  /\ radio.joined
  /\ heard' = [heard EXCEPT ![ip] = mac]
  /\ w' = Learn(w, ip, mac)
  /\ UNCHANGED <<radio, air, n>>

(***************************************************************************)
(* wifi_link_process, on its timer or on an event.                         *)
(***************************************************************************)
\* tiku_kits_net_wifi_reset.  The mutant keeps the neighbours.
Reset_keeps(k) == [k EXCEPT !.wait = NULL, !.lease = NULL, !.addr = NULL, !.dhcp = "idle", !.tcp = NULL, !.until = NULL]
Reset(k) ==
  [k EXCEPT !.cache = Clear, !.next = 0, !.wait = NULL, !.lease = NULL, !.addr = NULL, !.dhcp = "idle",
            !.tcp = NULL, !.until = NULL]

\* The start of a lease is noted when both radios run, and its end clears all.
Leased(k) ==
  IF ~radio.dual \/ k.lease = NULL \/ ~radio.joined THEN [k EXCEPT !.until = NULL]
  ELSE LET l == [k EXCEPT !.until = IF @ = NULL THEN n.now + LEASE_TICKS ELSE @]
       IN IF n.now < l.until THEN l ELSE [Reset(l) EXCEPT !.reconnect = TRUE]
Starts(k, ok) ==
  IF k.reconnect /\ radio.joined /\ ok THEN [k EXCEPT !.reconnect = FALSE, !.dhcp = "trying", !.lease = NULL] ELSE k

\* With another link in use, or with the access point alone, the process looks no
\* further, and a LINK_DOWN is gone.
Process(event, started) ==
  LET k == Leased(w)
      ends == event /\ radio.down > 0
      early == ~radio.active \/ (radio.ap /\ ~radio.dual)
  IN /\ event => radio.down > 0
     /\ radio' = [radio EXCEPT !.down = IF ends THEN @ - 1 ELSE @, !.missed = @ \/ (ends /\ early)]
     /\ w' = IF ~radio.active THEN [w EXCEPT !.reconnect = FALSE]
             ELSE IF early THEN [k EXCEPT !.reconnect = FALSE]
             ELSE Starts(IF ends THEN [Reset(k) EXCEPT !.reconnect = TRUE] ELSE k, started)
  /\ UNCHANGED <<air, heard, n>>

\* The exchange ends: the address is that of the network it was made on.
DhcpEnds(ok) ==
  /\ w.dhcp = "trying"
  /\ ok => radio.joined
  /\ w' = IF ok THEN [w EXCEPT !.dhcp = "bound", !.lease = n.nets, !.addr = n.nets]
          ELSE [w EXCEPT !.dhcp = "failed", !.addr = NULL]
  /\ UNCHANGED <<radio, air, heard, n>>
TcpOpens == w.addr # NULL /\ w' = [w EXCEPT !.tcp = n.nets] /\ UNCHANGED <<radio, air, heard, n>>

(***************************************************************************)
(* The radio and the user.                                                 *)
(***************************************************************************)
Joins ==
  /\ ~radio.joined /\ n.nets < MaxNetworks /\ (radio.ap => radio.dual)
  /\ radio' = [radio EXCEPT !.joined = TRUE]
  /\ n' = [n EXCEPT !.nets = @ + 1]
  /\ heard' = [h \in Hosts |-> NULL]
  /\ UNCHANGED <<w, air>>
Loses ==
  /\ radio.joined
  /\ radio' = [radio EXCEPT !.joined = FALSE, !.down = @ + 1]
  /\ UNCHANGED <<w, air, heard, n>>
SwitchAp ==
  /\ radio.joined => radio.dual
  /\ radio' = [radio EXCEPT !.ap = ~@]
  /\ UNCHANGED <<w, air, heard, n>>
SwitchLink == radio' = [radio EXCEPT !.active = ~@] /\ UNCHANGED <<w, air, heard, n>>
Tick == n.now < MaxTime /\ n' = [n EXCEPT !.now = @ + 1] /\ UNCHANGED <<w, radio, air, heard>>

\* A station with its neighbours; the same with connections, an access point,
\* another link and time.
StationNext ==
  \/ \E dst \in Hosts : SendIp(dst)
  \/ \E ip \in Hosts, mac \in Macs : ReceiveArp(ip, mac) \/ ReceiveIp(ip, mac)
  \/ \E event, started \in BOOLEAN : Process(event, started)
  \/ \E ok \in BOOLEAN : DhcpEnds(ok)
  \/ Joins \/ Loses
Next == StationNext \/ TcpOpens \/ SwitchAp \/ SwitchLink \/ Tick

(***************************************************************************)
(* Properties.                                                             *)
(***************************************************************************)
\* wifi_send: a packet that is held is held for the next hop it would have gone
\* to, no two entries name one address, and each names the station it was heard
\* from last, so that no frame goes to another's station.
Addressed ==
  radio.joined /\ radio.down = 0 /\ ~radio.missed =>
    /\ \A i, j \in Slots : w.cache[i].ip # NULL /\ w.cache[i].ip = w.cache[j].ip => i = j
    /\ \A i \in Slots : w.cache[i].ip # NULL => heard[w.cache[i].ip] = w.cache[i].mac
    /\ w.wait # NULL => w.wait.id # air.id

\* tiku_kits_net_wifi_reset, "clear packet/ARP state, invalidate DHCP/address
\* and abort TCP on link loss": once its LINK_DOWN is dealt with, nothing of a
\* network that is lost remains, neither the address nor a neighbour nor a
\* connection.
NothingOfTheLast ==
  radio.down = 0 /\ ~radio.missed =>
    /\ \A i \in Slots : w.cache[i].ip # NULL => w.cache[i].net = n.nets
    /\ {w.addr, w.lease, w.tcp} \subseteq {NULL, n.nets}
(***************************************************************************)
(* An inductive invariant: when every LINK_DOWN was dealt with, whatever   *)
(* is known is of the network that is joined; a held packet has an         *)
(* identity that no frame has had.                                         *)
(***************************************************************************)
Bounds ==
  /\ ARP_CACHE_SIZE \in Nat \ {0} /\ LEASE_TICKS \in Nat /\ Radios \subseteq BOOLEAN
  /\ NULL \notin Hosts /\ Gateway \in Hosts
Optional(set) == set \union {NULL}
States ==
  [cache : [Slots -> [ip : Optional(Hosts), mac : Optional(Macs), net : Nat]], next : Slots,
   wait : Optional([dst : Hosts, id : Nat, hop : Hosts]), reconnect : BOOLEAN, lease : Optional(Nat),
   addr : Optional(Nat), dhcp : {"idle", "trying", "bound", "failed"}, tcp : Optional(Nat), until : Optional(Nat)]
Shapes ==
  /\ w \in States /\ n \in [packets : Nat, nets : Nat, now : Nat] /\ heard \in [Hosts -> Optional(Macs)]
  /\ radio \in [joined : BOOLEAN, ap : BOOLEAN, dual : BOOLEAN, down : Nat, active : BOOLEAN, missed : BOOLEAN]
Distinct == \A i, j \in Slots : w.cache[i].ip # NULL /\ w.cache[i].ip = w.cache[j].ip => i = j
HeldBack == air.id \in 0 .. n.packets /\ (w.wait # NULL => w.wait.id \in 1 .. n.packets /\ w.wait.id # air.id)
Fresh ==
  /\ \A i \in Slots : w.cache[i].ip # NULL => radio.joined /\ w.cache[i].net = n.nets
                                             /\ heard[w.cache[i].ip] = w.cache[i].mac
  /\ \A net \in {w.addr, w.lease, w.tcp} : net # NULL => radio.joined /\ net = n.nets
WifiInv == Shapes /\ Distinct /\ HeldBack /\ (radio.down = 0 /\ ~radio.missed => Fresh)
=============================================================================
