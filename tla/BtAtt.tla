-------------------------------- MODULE BtAtt --------------------------------
(***************************************************************************)
(* The attribute server of net/bluetooth/tiku_bt.c: the attribute table    *)
(* and its discovery, reads and writes, notifications, and Service Changed *)
(* with what the bonds remember of it.  An attribute's handle is its place *)
(* in the table.  Sizes are in octets; a value is its length.              *)
(***************************************************************************)
EXTENDS Integers, Sequences, SequencesExt, FiniteSets, FiniteSetsExt

CONSTANTS
  ATT_HANDLE_MAX, TIKU_BT_CHAR_MAX,   \* rows of the table, and declarations it has room for
  ATT_MTU_DEFAULT, BT_ATT_MTU_MAX,
  Services,      \* the application's services, registered in this order:
                 \* [wide, chars], a characteristic [id, wide, notify, vlen, refuses]
  Conns, Quiet,  \* links, each to a peer of its own; those whose peers ask for nothing
  Lens,          \* lengths of notifications
  Mtus,          \* receive MTUs of the peers
  Requests,      \* <<op, handle>>: what the peers read and write
  MaxDrops       \* bound: disconnections

VARIABLES
  srv,     \* user_svc_count, cccd_value of each characteristic, the bonds
  conn,    \* conns[]: in_use, att_mtu, sc_cccd, sc_waiting, encrypted
  up, down,  \* PDUs on their way to and from the host, for each link
  client,  \* each peer: the layout it knows (-1: none), its MTU, requests not yet answered
  drops,
  early    \* peers that asked for Service Changed on a link not yet encrypted
vars == <<srv, conn, up, down, client, drops, early>>

(***************************************************************************)
(* bt_att_snapshot.                                                        *)
(***************************************************************************)
Row(type, wide, vlen, chr) == [type |-> type, wide |-> wide, vlen |-> vlen, char |-> chr]
Nobody == 0
Fixed == << Row("service", FALSE, 2, Nobody),
            Row("char", FALSE, 5, Nobody), Row("name", FALSE, 8, Nobody),
            Row("char", FALSE, 5, Nobody), Row("appearance", FALSE, 2, Nobody),
            Row("service", FALSE, 2, Nobody),
            Row("char", FALSE, 5, Nobody), Row("svc_changed", FALSE, 4, Nobody), Row("cccd", FALSE, 2, Nobody) >>

\* The declaration, the value and, where one can subscribe, the CCCD.
CharRows(c) ==
  << Row("char", FALSE, IF c.wide THEN 19 ELSE 5, Nobody), Row("value", c.wide, c.vlen, c.id) >>
  \o IF c.notify THEN <<Row("cccd", FALSE, 2, c.id)>> ELSE <<>>
\* One characteristic; `slots` counts the declaration buffers in use.
AddChar(t, c) ==
  IF t.closed \/ Len(t.rows) + 3 > ATT_HANDLE_MAX \/ t.slots >= TIKU_BT_CHAR_MAX THEN [t EXCEPT !.closed = TRUE]
  ELSE [t EXCEPT !.rows = @ \o CharRows(c), !.slots = @ + 1]
AddService(t, s) ==
  IF t.full \/ t.slots >= TIKU_BT_CHAR_MAX \/ Len(t.rows) >= ATT_HANDLE_MAX THEN [t EXCEPT !.full = TRUE]
  ELSE FoldLeft(AddChar,
                [t EXCEPT !.rows = Append(@, Row("service", FALSE, IF s.wide THEN 16 ELSE 2, Nobody)),
                          !.slots = @ + 1, !.closed = FALSE],
                s.chars)
Snapshot(n) ==
  FoldLeft(AddService, [rows |-> Fixed, slots |-> 0, full |-> FALSE, closed |-> FALSE], SubSeq(Services, 1, n)).rows

(***************************************************************************)
(* Discovery.  A response lists the attributes of the range that match, as *)
(* long as their records have the length of the first and fit the MTU.     *)
(***************************************************************************)
InRange(table, Match(_), lo, hi) ==
  SelectSeq([i \in 1 .. Len(table) |-> i], LAMBDA i : i >= lo /\ i <= hi /\ Match(table[i]))
Page(found, Size(_), mtu) ==
  LET k == Max({0} \cup {j \in DOMAIN found : /\ 2 + j * Size(found[1]) <= mtu
                                             /\ \A i \in 1 .. j : Size(found[i]) = Size(found[1])})
  IN SubSeq(found, 1, k)
\* bt_att_handle_read_by_group, of primary services: <<first, last>> of each group.
IsService(r) == r.type = "service"
GroupEnd(table, i) ==
  Min({Len(table)} \cup {j - 1 : j \in {k \in i + 1 .. Len(table) : IsService(table[k])}})
ReadByGroup(table, mtu, lo, hi) ==
  LET found == Page(InRange(table, IsService, lo, hi), LAMBDA i : 4 + table[i].vlen, mtu)
  IN [k \in DOMAIN found |-> <<found[k], GroupEnd(table, found[k])>>]
\* bt_att_handle_read_by_type; a long value is cut to what one response holds.
ReadByType(table, mtu, type, lo, hi) ==
  Page(InRange(table, LAMBDA r : r.type = type, lo, hi),
       LAMBDA i : 2 + Min({table[i].vlen, mtu - 4}), mtu)
\* bt_att_handle_find_info: the types, all of one format.
FindInfo(table, mtu, lo, hi) ==
  Page(InRange(table, LAMBDA r : TRUE, lo, hi), LAMBDA i : IF table[i].wide THEN 18 ELSE 4, mtu)

\* A client asks again from behind the last answer until it is told ATTRIBUTE_NOT_FOUND.
AllGroups(table, mtu) ==
  LET from[lo \in 1 .. Len(table) + 1] ==
        LET page == ReadByGroup(table, mtu, lo, Len(table)) IN
        IF page = <<>> THEN <<>> ELSE page \o from[Last(page)[2] + 1]
  IN from[1]
AllOf(Ask(_), last) ==
  LET from[lo \in 1 .. last + 1] ==
        LET page == Ask(lo) IN IF page = <<>> THEN <<>> ELSE page \o from[Last(page) + 1]
  IN from[1]

(***************************************************************************)
(* State.                                                                  *)
(***************************************************************************)
NoBond == [is |-> FALSE, sc |-> FALSE, digest |-> 0]
Chars == {c.id : c \in UNION {ToSet(Services[i].chars) : i \in DOMAIN Services}}
Unconnected == [in_use |-> FALSE, mtu |-> ATT_MTU_DEFAULT, sc_cccd |-> FALSE, sc_waiting |-> FALSE, encrypted |-> FALSE]
Init ==
  /\ srv = [n |-> 0, cccd |-> [c \in Chars |-> FALSE], bond |-> [p \in Conns |-> NoBond]]
  /\ conn = [p \in Conns |-> Unconnected]
  /\ up = [p \in Conns |-> <<>>] /\ down = [p \in Conns |-> <<>>]
  /\ client \in [Conns -> [knows : {-1}, mtu : Mtus, asked : {0}]]
  /\ drops = 0 /\ early = {}

Table == Snapshot(srv.n)
Live == {p \in Conns : conn[p].in_use}
Pdu(op, x) == [op |-> op, x |-> x]
\* bt_gatt_digest: the layout (the CRC taken as free of collisions).
Digest == srv.n
\* bt_sc_remember: on an encrypted link with a bond.
Remember(s, p, c) ==
  IF ~c.encrypted \/ ~s.bond[p].is THEN s
  ELSE [s EXCEPT !.bond[p].sc = c.sc_cccd,
                 !.bond[p].digest = IF ~c.sc_cccd THEN 0
                                    ELSE IF c.sc_waiting /\ s.bond[p].sc THEN @ ELSE s.n]
\* bt_sc_indicate: one at a time.
Indicates(c) == c.in_use /\ c.sc_cccd /\ ~c.sc_waiting

(***************************************************************************)
(* Links and encryption.                                                   *)
(***************************************************************************)
Connect(p) ==
  /\ ~conn[p].in_use
  /\ conn' = [conn EXCEPT ![p] = [Unconnected EXCEPT !.in_use = TRUE]]
  /\ UNCHANGED <<srv, up, down, client, drops, early>>
\* The last link to drop takes the subscriptions with it.
DropCccd(s, live) == IF live = {} THEN [s EXCEPT !.cccd = [c \in Chars |-> FALSE]] ELSE s
Disconnect(p) ==
  /\ conn[p].in_use /\ drops < MaxDrops
  /\ conn' = [conn EXCEPT ![p].in_use = FALSE]
  /\ srv' = DropCccd(srv, Live \ {p})
  /\ up' = [up EXCEPT ![p] = <<>>] /\ down' = [down EXCEPT ![p] = <<>>]
  /\ client' = [client EXCEPT ![p].asked = 0]
  /\ drops' = drops + 1
  /\ UNCHANGED early
\* bt_sc_on_encrypted, after a pairing (which makes the bond) or with the old key.
Encrypted(p) ==
  /\ conn[p].in_use /\ ~conn[p].encrypted
  /\ LET s == [srv EXCEPT !.bond[p].is = TRUE]
         c == [conn[p] EXCEPT !.encrypted = TRUE] IN
     IF s.bond[p].sc THEN
       LET told == s.bond[p].digest # Digest /\ Indicates([c EXCEPT !.sc_cccd = TRUE]) IN
       /\ conn' = [conn EXCEPT ![p] = [c EXCEPT !.sc_cccd = TRUE, !.sc_waiting = @ \/ told]]
       /\ down' = IF told THEN [down EXCEPT ![p] = Append(@, Pdu("IND", 0))] ELSE down
       /\ srv' = s
     ELSE conn' = [conn EXCEPT ![p] = c] /\ srv' = Remember(s, p, c) /\ UNCHANGED down
  /\ UNCHANGED <<up, client, drops, early>>

(***************************************************************************)
(* The application: tiku_bt_register_service, tiku_bt_notify_char.         *)
(***************************************************************************)
RegisterService ==
  /\ srv.n < Len(Services)
  /\ srv' = [srv EXCEPT !.n = @ + 1]
  /\ LET told == {p \in Conns : Indicates(conn[p])} IN
     /\ down' = [p \in Conns |-> IF p \in told THEN Append(down[p], Pdu("IND", 0)) ELSE down[p]]
     /\ conn' = [p \in Conns |-> IF p \in told THEN [conn[p] EXCEPT !.sc_waiting = TRUE] ELSE conn[p]]
  /\ UNCHANGED <<up, client, drops, early>>
\* Links in order, up to the first whose MTU is too small.
Notify(c, len) ==
  /\ \E i \in DOMAIN Table : Table[i].type = "value" /\ Table[i].char = c
  /\ srv.cccd[c]
  /\ LET told == {p \in Live : \A q \in Live : q <= p => len + 3 <= conn[q].mtu} IN
     down' = [p \in Conns |-> IF p \in told THEN Append(down[p], Pdu("NOTIFY", len + 3)) ELSE down[p]]
  /\ UNCHANGED <<srv, conn, up, client, drops, early>>

(***************************************************************************)
(* bt_handle_att: the request of a peer.                                   *)
(***************************************************************************)
ClampMtu_raw(m) == m
ClampMtu(m) == IF m < ATT_MTU_DEFAULT THEN ATT_MTU_DEFAULT ELSE IF m > BT_ATT_MTU_MAX THEN BT_ATT_MTU_MAX ELSE m
Answered(p, pdu) == down' = [down EXCEPT ![p] = Append(@, pdu)]
HandleMtu(p, m) ==
  /\ conn' = [conn EXCEPT ![p].mtu = ClampMtu(m)]
  /\ Answered(p, Pdu("MTU_RSP", BT_ATT_MTU_MAX)) /\ UNCHANGED srv
\* The pages of a discovery, which the client puts together again.
HandleDiscover(p) == Answered(p, Pdu("LAYOUT", srv.n)) /\ UNCHANGED <<srv, conn>>
\* bt_att_handle_write to a CCCD of the table.
HandleSubscribe(p, c) ==
  /\ \/ /\ \E i \in DOMAIN Table : Table[i].type = "cccd" /\ Table[i].char = c
        /\ srv' = [srv EXCEPT !.cccd[c] = TRUE] /\ Answered(p, Pdu("WRITE_RSP", 0))
     \/ /\ ~\E i \in DOMAIN Table : Table[i].type = "cccd" /\ Table[i].char = c
        /\ Answered(p, Pdu("ERROR", 0)) /\ UNCHANGED srv
  /\ UNCHANGED conn
\* ... and to Service Changed's own.
HandleAskSc(p) ==
  LET c == [conn[p] EXCEPT !.sc_cccd = TRUE] IN
  /\ conn' = [conn EXCEPT ![p] = c] /\ srv' = Remember(srv, p, c) /\ Answered(p, Pdu("WRITE_RSP", 0))
\* bt_att_handle_read: what of the value fits; a callback may refuse, Service Changed does.
CharOf(id) == CHOOSE c \in UNION {ToSet(Services[i].chars) : i \in DOMAIN Services} : c.id = id
HandleRead(p, h) ==
  LET e == Table[h]
      refused == e.type = "svc_changed" \/ (e.type = "value" /\ CharOf(e.char).refuses) IN
  /\ Answered(p, IF h \notin DOMAIN Table \/ refused THEN Pdu("ERROR", 5)
                 ELSE Pdu("READ_RSP", 1 + Min({e.vlen, conn[p].mtu - 1})))
  /\ UNCHANGED <<srv, conn>>
\* bt_att_handle_write to anything else: on_write takes or refuses it; a command is not answered.
HandleWrite(p, h, with_rsp) ==
  LET e == Table[h]
      taken == h \in DOMAIN Table /\ e.type = "value" /\ ~CharOf(e.char).refuses IN
  /\ IF with_rsp THEN Answered(p, IF taken THEN Pdu("WRITE_RSP", 1) ELSE Pdu("ERROR", 5)) ELSE UNCHANGED down
  /\ UNCHANGED <<srv, conn>>
\* ATT_OP_HANDLE_VALUE_CONF: bt_sc_confirmed.
HandleConf(p) ==
  LET c == [conn[p] EXCEPT !.sc_waiting = FALSE] IN
  IF conn[p].sc_waiting THEN conn' = [conn EXCEPT ![p] = c] /\ srv' = Remember(srv, p, c) /\ UNCHANGED down
  ELSE UNCHANGED <<conn, srv, down>>
HandleAtt(p) ==
  /\ conn[p].in_use /\ up[p] # <<>>
  /\ up' = [up EXCEPT ![p] = Tail(@)]
  /\ LET r == Head(up[p]) IN
     \/ r.op = "MTU_REQ" /\ HandleMtu(p, r.x)
     \/ r.op = "DISCOVER" /\ HandleDiscover(p)
     \/ r.op = "SUBSCRIBE" /\ HandleSubscribe(p, r.x)
     \/ r.op = "ASK_SC" /\ HandleAskSc(p)
     \/ r.op = "READ" /\ HandleRead(p, r.x)
     \/ r.op = "WRITE" /\ HandleWrite(p, r.x, TRUE)
     \/ r.op = "WRITE_CMD" /\ HandleWrite(p, r.x, FALSE)
     \/ r.op = "CONF" /\ HandleConf(p)
  /\ early' = IF Head(up[p]).op = "ASK_SC" /\ ~conn[p].encrypted THEN early \cup {p} ELSE early
  /\ UNCHANGED <<client, drops>>

(***************************************************************************)
(* A peer, whose requests are those of tiku_bt_client_*: asks for Service  *)
(* Changed and discovers, relies on what it knows from then on, and        *)
(* confirms an indication and discovers again.                             *)
(***************************************************************************)
Confirmed == {"MTU_REQ", "ASK_SC", "DISCOVER", "SUBSCRIBE", "READ", "WRITE"}
Ask(p, r) ==
  /\ up' = [up EXCEPT ![p] = @ \o r]
  /\ client' = [client EXCEPT ![p].asked = @ + Cardinality({i \in DOMAIN r : r[i].op \in Confirmed})]
PeerStarts(p) ==
  /\ conn[p].in_use /\ p \notin Quiet /\ client[p].knows = -1 /\ client[p].asked = 0
  /\ Ask(p, <<Pdu("MTU_REQ", client[p].mtu), Pdu("ASK_SC", 0), Pdu("DISCOVER", 0)>>)
  /\ UNCHANGED <<srv, conn, down, drops, early>>
Asks(p) == conn[p].in_use /\ client[p].knows # -1 /\ client[p].asked = 0 /\ up[p] = <<>>
PeerSubscribes(p, c) ==
  /\ Asks(p) /\ ~srv.cccd[c] /\ Ask(p, <<Pdu("SUBSCRIBE", c)>>)
  /\ UNCHANGED <<srv, conn, down, drops, early>>
PeerReadsOrWrites(p, op, h) ==
  /\ Asks(p) /\ Ask(p, <<Pdu(op, h)>>)
  /\ UNCHANGED <<srv, conn, down, drops, early>>
PeerHears(p) ==
  /\ conn[p].in_use /\ down[p] # <<>>
  /\ down' = [down EXCEPT ![p] = Tail(@)]
  /\ LET m == Head(down[p])
         again == m.op = "IND" IN
     /\ client' = [client EXCEPT ![p].knows = IF m.op = "LAYOUT" /\ client[p].asked = 1 THEN m.x
                                              ELSE IF again THEN -1 ELSE @,
                                 ![p].asked = IF again THEN @ + 1 ELSE IF m.op = "NOTIFY" THEN @ ELSE @ - 1]
     /\ up' = IF again THEN [up EXCEPT ![p] = @ \o <<Pdu("CONF", 0), Pdu("DISCOVER", 0)>>] ELSE up
  /\ UNCHANGED <<srv, conn, drops, early>>

Next ==
  \/ RegisterService
  \/ \E c \in Chars, len \in Lens : (\A p \in Conns : Len(down[p]) < 2) /\ Notify(c, len)
  \/ \E p \in Conns :
       \/ Connect(p) \/ Disconnect(p) \/ Encrypted(p) \/ HandleAtt(p)
       \/ PeerStarts(p) \/ PeerHears(p)
       \/ \E c \in Chars : PeerSubscribes(p, c)
       \/ \E r \in Requests : PeerReadsOrWrites(p, r[1], r[2])
Spec == Init /\ [][Next]_vars

(***************************************************************************)
(* Properties.                                                             *)
(***************************************************************************)
\* bt_att_handle_read_by_group, _read_by_type, _find_info: with every mix of long and
\* short types and every MTU, the pages of a discovery add up to the table: the groups
\* cover it without a gap, no declaration is skipped and no page is empty too soon.
DiscoveryComplete ==
  \A p \in Live :
    LET t == Table
        mtu == conn[p].mtu
        groups == AllGroups(t, mtu) IN
    /\ {i \in DOMAIN t : IsService(t[i])} = {groups[k][1] : k \in DOMAIN groups}
    /\ \A k \in DOMAIN groups : groups[k][2] + 1 = IF k = Len(groups) THEN Len(t) + 1 ELSE groups[k + 1][1]
    /\ \A type \in {"char", "value", "cccd"} :
         AllOf(LAMBDA lo : ReadByType(t, mtu, type, lo, Len(t)), Len(t))
           = SelectSeq([i \in DOMAIN t |-> i], LAMBDA i : t[i].type = type)
    /\ AllOf(LAMBDA lo : FindInfo(t, mtu, lo, Len(t)), Len(t)) = [i \in DOMAIN t |-> i]

\* bt_sc_*: an encrypted peer that asked for Service Changed knows the layout, or a PDU
\* on its way will make it discover again; after lost links and services registered while
\* it was away too.  Excepted are peers that asked before their link was encrypted: an
\* indication still unconfirmed then is recorded as if it were.
LayoutKnown ==
  \A p \in Live \ early :
    conn[p].encrypted /\ conn[p].sc_cccd /\ up[p] = <<>> /\ down[p] = <<>> => client[p].knows \in {-1, srv.n}

\* bt_handle_att, tiku_bt_notify_char: a peer has no request without an answer on its way
\* and no answer it did not ask for, and every PDU fits what it takes.
AnsweredAndFits ==
  \A p \in Live :
    /\ client[p].asked = Cardinality({i \in DOMAIN up[p] : up[p][i].op \in Confirmed})
                         + Cardinality({i \in DOMAIN down[p] : down[p][i].op \notin {"NOTIFY", "IND"}})
    /\ \A i \in DOMAIN down[p] :
         down[p][i].op \in {"NOTIFY", "READ_RSP"} => down[p][i].x <= Max({client[p].mtu, ATT_MTU_DEFAULT})
=============================================================================
