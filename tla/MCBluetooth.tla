---------------------------- MODULE MCBluetooth ----------------------------
(***************************************************************************)
(* TLC instances of the parts of the Bluetooth host.  Each behaviour runs  *)
(* one; they share the variables v1 to v9.                                 *)
(***************************************************************************)
EXTENDS Integers, Sequences

CONSTANT NULL

VARIABLES scenario, v1, v2, v3, v4, v5, v6, v7, v8, v9

\* Two opcodes, and handlers that wait three deep for a stash of two; PDUs in two fragments.
Cmd(op) == [do |-> "cmd", op |-> op, len |-> 0]
Send(len) == [do |-> "send", op |-> "", len |-> len]
Hci == INSTANCE BtHci WITH
  BT_RX_DEPTH <- 3, BT_STASH_N <- 2, BT_L2CAP_MAX <- 3, FRAG <- 2, NONE <- NULL, AclNum <- 1,
  Calls <- {<<Cmd("a")>>, <<Send(3)>>}, Plans <- {<<Cmd("b")>>, <<Cmd("c")>>, <<Send(3)>>},
  MaxCalls <- 1, MaxEvents <- 3, MaxOthers <- 3,
  stack <- v1, hci <- v2, in <- v3, ctl <- v4, peer <- v5, used <- v6
\* A service of one characteristic and one of two, of which the second fills the table; an
\* attribute longer than the MTU; a second link that only connects.
Char(id, wide, notify, vlen) == [id |-> id, wide |-> wide, notify |-> notify, vlen |-> vlen, refuses |-> id = 2]
Att == INSTANCE BtAtt WITH
  ATT_HANDLE_MAX <- 18, TIKU_BT_CHAR_MAX <- 4, ATT_MTU_DEFAULT <- 23, BT_ATT_MTU_MAX <- 40,
  Services <- <<[wide |-> TRUE, chars |-> <<Char(1, TRUE, TRUE, 30)>>],
                [wide |-> FALSE, chars |-> <<Char(2, FALSE, FALSE, 2), Char(3, TRUE, TRUE, 0)>>]>>,
  Conns <- {1, 2}, Quiet <- {2}, Lens <- {30}, Mtus <- {10, 64}, MaxDrops <- 1,
  Requests <- {<<"READ", 12>>, <<"WRITE", 15>>, <<"READ", 30>>, <<"WRITE_CMD", 12>>},
  srv <- v1, conn <- v2, up <- v3, down <- v4, client <- v5, drops <- v6, early <- v7
\* Each way to pair; one pairing begun anew or link lost, one command refused.
Smp == INSTANCE BtSmp WITH
  SMP_PASSKEY_ROUNDS <- 2, Io <- {<<3, 3>>, <<1, 4>>, <<2, 0>>, <<2, 2>>}, Passkeys <- {1, 2},
  MaxTroubles <- 1, MaxFaults <- 1,
  smp <- v1, auth <- v2, bond <- v3, pipe <- v4, ctl <- v5, link <- v6, io <- v7, used <- v8, said <- v9
\* Three peers for two bonds.
Bonds == INSTANCE BtBond WITH
  BOND_MAX <- 2, Peers <- 1 .. 3, Private <- {1, 2}, MaxConnects <- 4, MaxPairings <- 3, MaxResets <- 1,
  nvm <- v1, turn <- v2, at <- v3, peer <- v4, used <- v5
\* A controller with, and one without the extended commands.
Gap(Ext) == INSTANCE BtGap WITH
  TIKU_BT_CONN_MAX <- 2, BT_CONNECT_RETRIES <- 1, Handles <- {1, 2}, MaxCalls <- 3, MaxLinks <- 2, MaxRefusals <- 1,
  bt <- v1, ctl <- v2, q <- v3, call <- v4, used <- v5
\* Three advertisers for two fragment slots and a table of two; chains that fit, do not, and are cut.
Chain(pieces, size, name, last) == [pieces |-> pieces, size |-> size, name |-> name, last |-> last]
Scan == INSTANCE BtScan WITH
  TIKU_BT_SCAN_MAX <- 2, TIKU_BT_EXT_ADV_MAX <- 4, Devices <- 1 .. 3, Rssi <- <<3, 1, 2>>, MaxAdverts <- 3,
  Chains <- {Chain(2, 1, TRUE, TRUE), Chain(3, 2, TRUE, TRUE), Chain(3, 1, FALSE, FALSE), Chain(1, 2, FALSE, TRUE)},
  scan <- v1, air <- v2, heard <- v3

Init ==
  \/ scenario = "hci" /\ Hci!Init /\ v7 = 0 /\ v8 = 0 /\ v9 = 0
  \/ scenario = "att" /\ Att!Init /\ v8 = 0 /\ v9 = 0
  \/ scenario = "smp" /\ Smp!Init
  \/ scenario = "bond" /\ Bonds!Init /\ v6 = 0 /\ v7 = 0 /\ v8 = 0 /\ v9 = 0
  \/ scenario \in {"gap", "legacy"} /\ Gap(TRUE)!Init /\ v6 = 0 /\ v7 = 0 /\ v8 = 0 /\ v9 = 0
  \/ scenario = "scan" /\ Scan!Init /\ v4 = 0 /\ v5 = 0 /\ v6 = 0 /\ v7 = 0 /\ v8 = 0 /\ v9 = 0
HciStep == scenario = "hci" /\ Hci!Next /\ UNCHANGED <<v7, v8, v9>>
AttStep == scenario = "att" /\ Att!Next /\ UNCHANGED <<v8, v9>>
SmpStep == scenario = "smp" /\ Smp!Next
BondStep == scenario = "bond" /\ Bonds!Next /\ UNCHANGED <<v6, v7, v8, v9>>
GapStep == scenario = "gap" /\ Gap(TRUE)!Next /\ UNCHANGED <<v6, v7, v8, v9>>
LegacyStep == scenario = "legacy" /\ Gap(FALSE)!Next /\ UNCHANGED <<v6, v7, v8, v9>>
ScanStep == scenario = "scan" /\ Scan!Next /\ UNCHANGED <<v4, v5, v6, v7, v8, v9>>
Next == (HciStep \/ AttStep \/ SmpStep \/ BondStep \/ GapStep \/ LegacyStep \/ ScanStep) /\ UNCHANGED scenario
Spec == Init /\ [][Next]_<<scenario, v1, v2, v3, v4, v5, v6, v7, v8, v9>>

(***************************************************************************)
(* Properties.                                                             *)
(***************************************************************************)
\* bt_hci_cmd_response, bt_rx_one, bt_send_acl: nested waits lose no reply and take none
\* but their own, and PDUs arrive whole.
TransportSound == scenario = "hci" => Hci!RepliesAreKept /\ Hci!OwnReply /\ Hci!WholePdus
\* bt_handle_att: every attribute is found, every request answered within the MTU, and a
\* bonded peer that asked for it learns of a changed layout.
AttributesSound == scenario = "att" => Att!DiscoveryComplete /\ Att!LayoutKnown /\ Att!AnsweredAndFits
\* bt_smp_bond: an end keeps a key only after the checks and its user agreed, and when
\* nothing is under way neither end waits for the other; bt_bond_lookup: the key is
\* found again, for that peer only.
BondsSound ==
  /\ scenario = "smp" => Smp!BondsAreGood /\ Smp!NobodyWaits
  /\ scenario = "bond" => Bonds!BondFound
\* tiku_bt_runner: the flags that decide whether events are read follow the controller, and the
\* device is visible again after its last link.  bt_ext_reports: of what the controller reports,
\* interleaved fragments are never mixed, and the table keeps the strongest.
FollowsController ==
  /\ scenario = "gap" => Gap(TRUE)!InStep /\ Gap(TRUE)!VisibleAgain
  /\ scenario = "legacy" => Gap(FALSE)!InStep /\ Gap(FALSE)!VisibleAgain
  /\ scenario = "scan" => Scan!HearsTheStrongest
=============================================================================
