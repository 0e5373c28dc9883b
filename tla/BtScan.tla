------------------------------- MODULE BtScan -------------------------------
(***************************************************************************)
(* Scanning in net/bluetooth/tiku_bt.c: extended reports put together from *)
(* fragments, which the controller interleaves between advertisers, and    *)
(* the table of devices heard.                                             *)
(***************************************************************************)
EXTENDS Integers, Sequences, FiniteSets

CONSTANTS
  TIKU_BT_SCAN_MAX, TIKU_BT_EXT_ADV_MAX,
  Devices,              \* what tells reports apart: address, SID, properties
  Rssi,                 \* how strong each device is heard
  Chains,               \* adverts: [pieces: how many, size: of a piece, name: is it named, last: does it end well]
  MaxAdverts            \* bound on adverts sent

VARIABLES
  scan,    \* scanning, scan_fault, fragments[2], the table, prefix set
  air,     \* what each device has under way: its advert, and the pieces reported
  heard    \* adverts so far; devices whose adverts were whole since the scan began
vars == <<scan, air, heard>>

None == [number |-> 0, chain |-> [pieces |-> 0, size |-> 0, name |-> FALSE, last |-> TRUE], sent |-> 0]
Free == [active |-> FALSE, discard |-> FALSE, key |-> 0, data |-> <<>>, len |-> 0]
Slots == 1 .. 2
Cleared(s) == [s EXCEPT !.fragments = [i \in Slots |-> Free], !.fault = FALSE]

Init ==
  /\ \E filter \in BOOLEAN :
       scan = [on |-> FALSE, fault |-> FALSE, fragments |-> [i \in Slots |-> Free], table |-> <<>>, filter |-> filter]
  /\ air = [d \in Devices |-> None]
  /\ heard = [adverts |-> 0, devices |-> {}]

\* tiku_bt_scan_extended, tiku_bt_scan_stop, tiku_bt_scan_clear; the controller stops too.
ScanStart ==
  /\ ~scan.on
  /\ scan' = [Cleared(scan) EXCEPT !.on = TRUE, !.table = <<>>]
  /\ heard' = [heard EXCEPT !.devices = {}] /\ UNCHANGED air
ScanStop ==
  /\ scan.on
  /\ scan' = [Cleared(scan) EXCEPT !.on = FALSE]
  /\ air' = [d \in Devices |-> None] /\ UNCHANGED heard
ScanClear ==
  /\ scan.table # <<>>
  /\ scan' = [scan EXCEPT !.table = <<>>] /\ heard' = [heard EXCEPT !.devices = {}] /\ UNCHANGED air
\* tiku_bt_poll: after a fault the scan is stopped.
PollFault ==
  /\ scan.fault
  /\ scan' = [Cleared(scan) EXCEPT !.on = FALSE]
  /\ air' = [d \in Devices |-> None] /\ UNCHANGED heard

(***************************************************************************)
(* bt_scan_cache_add: by device; when full, instead of the weakest.        *)
(***************************************************************************)
Weakest(table) ==
  CHOOSE i \in DOMAIN table : \A j \in DOMAIN table :
    Rssi[table[i].dev] < Rssi[table[j].dev] \/ (Rssi[table[i].dev] = Rssi[table[j].dev] /\ i <= j)
CacheAdd(s, d, data, named) ==
  LET at == {i \in DOMAIN s.table : s.table[i].dev = d}
      new == [dev |-> d, data |-> data, named |-> named] IN
  CASE at # {} -> [s EXCEPT !.table[CHOOSE i \in at : TRUE].data = data,
                            !.table[CHOOSE i \in at : TRUE].named = @ \/ named]
    [] at = {} /\ s.filter /\ ~named -> s
    [] at = {} /\ (~s.filter \/ named) /\ Len(s.table) < TIKU_BT_SCAN_MAX -> [s EXCEPT !.table = Append(@, new)]
    [] OTHER -> IF Rssi[d] <= Rssi[s.table[Weakest(s.table)].dev] THEN s
                ELSE [s EXCEPT !.table[Weakest(s.table)] = new]

(***************************************************************************)
(* bt_ext_reports: one report.  status 0 complete, 1 more to come, 2 cut   *)
(* short by the controller.                                                *)
(***************************************************************************)
SlotOf(s, d) == {i \in Slots : s.fragments[i].active /\ s.fragments[i].key = d}
\* The search stops at a match; a free slot below it is not wanted then.
FreeSlot(s) == {i \in Slots : ~s.fragments[i].active}
Last(S) == CHOOSE i \in S : \A j \in S : j <= i
Take(f, data, n) ==
  LET over == f.discard \/ f.len + n > TIKU_BT_EXT_ADV_MAX IN
  IF over THEN [f EXCEPT !.discard = TRUE] ELSE [f EXCEPT !.data = @ \o data, !.len = @ + n]
Report(s, d, data, n, status, named) ==
  LET mine == SlotOf(s, d)
      slot == IF mine # {} THEN CHOOSE i \in mine : TRUE ELSE IF FreeSlot(s) # {} THEN Last(FreeSlot(s)) ELSE 0
      f == Take(IF mine # {} THEN s.fragments[slot] ELSE [Free EXCEPT !.active = TRUE, !.key = d], data, n)
      freed == [s EXCEPT !.fragments[slot] = Free] IN
  CASE s.fault -> s
    [] ~s.fault /\ status = 2 -> IF mine # {} THEN freed ELSE s
    [] ~s.fault /\ status = 1 -> IF slot = 0 THEN [s EXCEPT !.fault = TRUE] ELSE [s EXCEPT !.fragments[slot] = f]
    [] OTHER -> IF mine = {} THEN CacheAdd(s, d, data, named)
                ELSE IF f.discard THEN freed ELSE CacheAdd(freed, d, f.data, named)

\* A device advertises, and the controller reports it piece by piece.
Advertises(d, chain) ==
  /\ scan.on /\ air[d] = None /\ heard.adverts < MaxAdverts
  /\ air' = [air EXCEPT ![d] = [number |-> heard.adverts + 1, chain |-> chain, sent |-> 0]]
  /\ heard' = [heard EXCEPT !.adverts = @ + 1] /\ UNCHANGED scan
Whole(a) == [i \in 1 .. a.chain.pieces |-> <<a.number, i>>]
Fits(a) == a.chain.pieces * a.chain.size <= TIKU_BT_EXT_ADV_MAX \/ a.chain.pieces = 1
Reported(d) ==
  LET a == air[d] i == a.sent + 1 ends == i = a.chain.pieces
      status == IF ~ends THEN 1 ELSE IF a.chain.last THEN 0 ELSE 2 IN
  /\ scan.on /\ a # None
  /\ scan' = Report(scan, d, <<<<a.number, i>>>>, a.chain.size, status, a.chain.name)
  /\ air' = [air EXCEPT ![d] = IF ends THEN None ELSE [a EXCEPT !.sent = i]]
  /\ heard' = IF status = 0 /\ Fits(a) /\ ~scan.fault /\ (~scan.filter \/ a.chain.name)
              THEN [heard EXCEPT !.devices = @ \cup {[dev |-> d, data |-> Whole(a)]}] ELSE heard

Next ==
  \/ ScanStart \/ ScanStop \/ ScanClear \/ PollFault
  \/ \E d \in Devices : Reported(d) \/ \E chain \in Chains : Advertises(d, chain)
Spec == Init /\ [][Next]_vars

(***************************************************************************)
(* Properties.                                                             *)
(***************************************************************************)
\* bt_ext_reports, bt_scan_cache_add: the table holds each device once, with the data of
\* one whole advert of its own, and no device that was heard is left out for a weaker one.
HearsTheStrongest ==
  /\ \A i, j \in DOMAIN scan.table : i # j => scan.table[i].dev # scan.table[j].dev
  /\ \A i \in DOMAIN scan.table : ~scan.filter =>
       [dev |-> scan.table[i].dev, data |-> scan.table[i].data] \in heard.devices
  /\ \A i \in DOMAIN scan.table : \A j \in DOMAIN scan.table[i].data :
       scan.table[i].data[j] = <<scan.table[i].data[1][1], j>>
  /\ \A h \in heard.devices :
       (\A i \in DOMAIN scan.table : scan.table[i].dev # h.dev) =>
         Len(scan.table) = TIKU_BT_SCAN_MAX /\ \A i \in DOMAIN scan.table : Rssi[h.dev] <= Rssi[scan.table[i].dev]
=============================================================================
