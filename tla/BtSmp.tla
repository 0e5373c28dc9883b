-------------------------------- MODULE BtSmp --------------------------------
(***************************************************************************)
(* Pairing in net/bluetooth/tiku_bt.c: LE Secure Connections by Just       *)
(* Works, numeric comparison and passkey entry, bonding, and encryption of *)
(* a link with a bond's key.  Both ends run the code: I is the central,    *)
(* which initiates, R the peripheral.  Keys, nonces and the values of the  *)
(* cryptographic functions are terms: two are equal when they were         *)
(* computed from the same things.                                          *)
(***************************************************************************)
EXTENDS Integers, Sequences, FiniteSets

CONSTANTS
  SMP_PASSKEY_ROUNDS,
  Io,            \* pairs of IO capabilities <<of I, of R>>
  Passkeys,      \* what is displayed or entered
  MaxTroubles, MaxFaults   \* bounds: pairings begun anew and links lost, commands refused

VARIABLES
  smp,     \* bt_state.smp[] of the link's session at each end
  auth,    \* auth_need, auth_number
  bond,    \* the bond kept about the other end
  pipe,    \* SMP PDUs on their way to each end
  ctl,     \* each controller: commands in progress, number of its P-256 key pair
  link,    \* is there one, and is it encrypted
  io,      \* bt_io_cap
  used,    \* counts, each end's next unused number; silent: a pairing was given up without a word
  said     \* the numbers each user has confirmed, the bonds each end has made
vars == <<smp, auth, bond, pipe, ctl, link, io, used, said>>

Ends == {"I", "R"}
Other(e) == IF e = "I" THEN "R" ELSE "I"
NoBond == [is |-> FALSE]
NoAuth == [need |-> "none", number |-> <<>>]
Pdu(op, x) == [op |-> op, x |-> x]

(***************************************************************************)
(* bt_smp_models, by initiator and responder: 0 display only, 1 display    *)
(* with yes/no, 2 keyboard only, 3 none, 4 keyboard and display.           *)
(***************************************************************************)
Model(init, resp) ==
  CASE init = 3 \/ resp = 3 -> "jw"
    [] init = 2 /\ resp = 2 -> "pk_both"
    [] init = 2 /\ resp \in {0, 1, 4} -> "pk_init"
    [] resp = 2 /\ init \in {0, 1, 4} -> "pk_resp"
    [] init = 0 /\ resp = 4 -> "pk_resp"
    [] init = 4 /\ resp = 0 -> "pk_init"
    [] {init, resp} \subseteq {1, 4} -> "num"
    [] OTHER -> "jw"
ByPasskey(s) == s.method \in {"pk_init", "pk_resp", "pk_both"}

(***************************************************************************)
(* One end's step works on w: its session, prompt, bond, commands, the     *)
(* PDUs it sends, the next number, whether the controller obeys, and the   *)
(* passkey drawn if one is.                                                *)
(***************************************************************************)
Send(w, op, x) == [w EXCEPT !.out = Append(@, Pdu(op, x))]
Set(w, flags) == [w EXCEPT !.s.has = @ \cup flags]
Clear(w, flags) == [w EXCEPT !.s.has = @ \ flags]
To(w, state) == [w EXCEPT !.s.state = state]
Draw(w) == [w EXCEPT !.s.nonce = <<w.e, w.n>>, !.n = @ + 1]
\* bt_smp_session_reset, bt_smp_send_failed
Reset(w) == [w EXCEPT !.s.state = "IDLE", !.s.has = {}, !.s.method = "jw", !.s.round = 0, !.s.user_ok = TRUE,
                      !.auth = NoAuth]
Failed(w) == Reset(Send(w, "FAILED", 0))
\* bt_smp_request_local_pubkey, bt_smp_try_request_dhkey
RequestPubkey(w) == IF w.ok THEN [w EXCEPT !.jobs = Append(@, Pdu("pubkey", 0))] ELSE Failed(w)
NeedsDhkey(s) == {"pubkey", "peer_pubkey"} \subseteq s.has /\ "dhkey_requested" \notin s.has
TryRequestDhkey(w) ==
  IF NeedsDhkey(w.s) /\ w.ok
  THEN [w EXCEPT !.s.has = @ \cup {"dhkey_requested"}, !.jobs = Append(@, Pdu("dhkey", w.s.peer_pubkey))]
  ELSE w
DhkeyRefused(w) == NeedsDhkey(w.s) /\ ~w.ok

\* bt_smp_nonces, bt_smp_f4, bt_smp_f5, bt_smp_f6, bt_smp_g2 as terms
Na(w) == IF w.e = "I" THEN w.s.nonce ELSE w.s.peer_nonce
Nb(w) == IF w.e = "I" THEN w.s.peer_nonce ELSE w.s.nonce
Z(s) == IF ByPasskey(s) THEN <<(s.passkey \div (2 ^ s.round)) % 2>> ELSE <<>>
F4(u, v, nonce, z) == <<u, v, nonce, z>>
F5(w) == [dh |-> w.s.dhkey, na |-> Na(w), nb |-> Nb(w)]
\* `from` whose nonce, IO capability and address come first
F6(w, from, cap) == <<w.s.key, from, cap, IF ByPasskey(w.s) THEN w.s.passkey ELSE 0>>
G2(w) == <<{w.s.pubkey, w.s.peer_pubkey}, Na(w), Nb(w)>>

\* bt_auth_ask, bt_smp_choose
AskUser(w, need, number) == [w EXCEPT !.auth = [need |-> need, number |-> number]]
Types(e, m) == m = "pk_both" \/ m = (IF e = "I" THEN "pk_init" ELSE "pk_resp")
Choose(w, init, resp) ==
  LET m == IF init # 3 \/ resp # 3 THEN Model(init, resp) ELSE "jw"
      v == [w EXCEPT !.s.method = m, !.s.user_ok = m # "num"] IN
  CASE m \in {"jw", "num"} -> v
    [] m \notin {"jw", "num"} /\ Types(w.e, m) -> AskUser(v, "enter", <<>>)
    [] OTHER -> AskUser(Set([v EXCEPT !.s.passkey = w.pick], {"passkey"}), "display", <<w.pick>>)
\* bt_smp_pk_confirm, bt_smp_pk_next, bt_smp_pk_more
PkConfirm(w) ==
  IF ~w.ok THEN Failed(w)
  ELSE LET v == Draw(w) IN
       Set(Send(v, "CONFIRM", F4(v.s.pubkey, v.s.peer_pubkey, v.s.nonce, Z(v.s))), {"confirm_sent"})
PkNext(w) ==
  IF ~ByPasskey(w.s) \/ "passkey" \notin w.s.has THEN w
  ELSE IF w.e = "I"
       THEN IF w.s.state = "CONFIRM" /\ "peer_pubkey" \in w.s.has /\ "confirm_sent" \notin w.s.has THEN PkConfirm(w)
         ELSE w
       ELSE IF "held_confirm" \in w.s.has THEN PkConfirm(To(Clear(w, {"held_confirm"}), "RANDOM")) ELSE w
More(s) == ByPasskey(s) /\ s.round + 1 < SMP_PASSKEY_ROUNDS
NextRound(w) == To(Clear([w EXCEPT !.s.round = @ + 1], {"confirm_sent", "peer_random"}), "CONFIRM")

(***************************************************************************)
(* Bonding, and the checks Ea and Eb.                                      *)
(***************************************************************************)
Bond(w) == [w EXCEPT !.bond = [is |-> TRUE, key |-> w.s.key, method |-> w.s.method,
                               passkey |-> IF ByPasskey(w.s) THEN w.s.passkey ELSE 0, number |-> G2(w)],
                     !.auth = NoAuth]
StartEncryption(w, key) == To([w EXCEPT !.jobs = Append(@, Pdu("encrypt", key))], "ENCRYPTING")
InitSendEa(w) == Send(w, "CHECK", F6(w, "I", w.s.cap))
\* bt_smp_resp_check_ea, with bt_smp_send_dhkey_check
RespCheckEa(w) ==
  LET v == Clear(w, {"peer_check"}) IN
  IF w.s.peer_check # F6(w, "I", w.s.peer_cap) THEN Failed(v)
  ELSE To(Bond(Send(v, "CHECK", F6(v, "R", v.s.cap))), "ENCRYPTING")
\* bt_smp_try_derive_keys
TryDeriveKeys(w) ==
  IF ~({"dhkey", "pending_f5", "peer_random"} \subseteq w.s.has) THEN w
  ELSE LET v == Clear([w EXCEPT !.s.key = F5(w)], {"pending_f5"}) IN
       CASE w.e = "I" /\ v.s.user_ok -> InitSendEa(v)
         [] w.e = "R" /\ "peer_check" \in v.s.has /\ v.s.user_ok -> RespCheckEa(v)
         [] OTHER -> v
\* The last of the randoms: bt_smp_numeric, then the keys.
Randoms(w) ==
  LET v == Set(To(w, "DHCHECK"), {"pending_f5"}) IN
  TryDeriveKeys(IF v.s.method = "num" THEN AskUser(v, "confirm", G2(v)) ELSE v)
\* bt_smp_send_keys, bt_smp_take_key
SendKeys(w) == Clear(Send(Send(w, "IRK", 0), "IDENTITY", 0), {"own_keys"})
TakeKey(w, op) ==
  CASE "peer_keys" \notin w.s.has -> w
    [] "peer_keys" \in w.s.has /\ op = "IRK" -> Set(w, {"irk"})
    [] "peer_keys" \in w.s.has /\ op = "IDENTITY" /\ "irk" \in w.s.has ->
         LET v == Clear(w, {"peer_keys"}) IN IF w.e = "I" /\ "own_keys" \in v.s.has THEN SendKeys(v) ELSE v
    [] OTHER -> w

(***************************************************************************)
(* bt_smp_init_start, bt_smp_init_secure, bt_smp_init_try_send_pka.        *)
(***************************************************************************)
InitStart(w) ==
  LET v == Draw(Reset(w)) IN
  IF ~w.ok THEN Reset(w)
  ELSE RequestPubkey(To(Send([v EXCEPT !.s.cap = w.io], "REQUEST", w.io), "PUBKEY"))
InitSecure(w) ==
  CASE w.s.state # "IDLE" -> w
    [] w.s.state = "IDLE" /\ w.bond.is ->
         LET v == [w EXCEPT !.s.key = w.bond.key] IN IF w.ok THEN StartEncryption(v, w.bond.key) ELSE v
    [] OTHER -> InitStart(w)
InitTrySendPka(w) ==
  IF {"got_response", "pubkey"} \subseteq w.s.has /\ "pka_sent" \notin w.s.has
  THEN Set(Send(w, "PUBKEY", w.s.pubkey), {"pka_sent"})
  ELSE w
\* bt_handle_smp_initiator, and its DHKey Check
InitiatorChecks(w, p) ==
  CASE p.x # F6(w, "R", w.s.peer_cap) -> Failed(w)
    [] p.x = F6(w, "R", w.s.peer_cap) /\ w.ok -> StartEncryption(Bond(w), w.s.key)
    [] OTHER -> Reset(Bond(w))
HandleInitiator(w, p) ==
  CASE p.op = "SECURITY" -> InitSecure(w)
    [] p.op = "RESPONSE" /\ w.s.state = "PUBKEY" /\ "got_response" \notin w.s.has ->
         LET v == Set([w EXCEPT !.s.peer_cap = p.x], {"got_response", "own_keys", "peer_keys"}) IN
         IF w.ok THEN InitTrySendPka(Choose(v, w.s.cap, p.x)) ELSE Failed(w)
    [] p.op = "PUBKEY" /\ "pka_sent" \in w.s.has /\ "peer_pubkey" \notin w.s.has ->
         LET v == To(Set([w EXCEPT !.s.peer_pubkey = p.x], {"peer_pubkey"}), "CONFIRM") IN
         IF DhkeyRefused(v) THEN Failed(v) ELSE PkNext(TryRequestDhkey(v))
    [] p.op = "CONFIRM" /\ w.s.state = "CONFIRM" /\ (ByPasskey(w.s) => "confirm_sent" \in w.s.has) ->
         Send(To([w EXCEPT !.s.peer_confirm = p.x], "RANDOM"), "RANDOM", w.s.nonce)
    [] p.op = "RANDOM" /\ w.s.state = "RANDOM" ->
         LET v == Set([w EXCEPT !.s.peer_nonce = p.x], {"peer_random"}) IN
         CASE v.s.peer_confirm # F4(v.s.peer_pubkey, v.s.pubkey, p.x, Z(v.s)) -> Failed(v)
           [] v.s.peer_confirm = F4(v.s.peer_pubkey, v.s.pubkey, p.x, Z(v.s)) /\ More(v.s) -> PkNext(NextRound(v))
           [] OTHER -> Randoms(v)
    [] p.op = "CHECK" /\ w.s.state = "DHCHECK" /\ "pending_f5" \notin w.s.has -> InitiatorChecks(w, p)
    [] p.op = "FAILED" -> Reset(w)
    [] p.op \in {"IRK", "IDENTITY"} -> TakeKey(w, p.op)
    [] OTHER -> Failed(w)

(***************************************************************************)
(* bt_handle_smp: the responder.                                           *)
(***************************************************************************)
\* bt_smp_try_send_pubkey_confirm
TrySendPubkeyConfirm(w) ==
  IF ~({"pending_pubkey_tx", "pubkey"} \subseteq w.s.has) THEN w
  ELSE LET v == Clear(Send(w, "PUBKEY", w.s.pubkey), {"pending_pubkey_tx"}) IN
       IF ByPasskey(w.s) THEN To(v, "CONFIRM")
       ELSE To(Send(v, "CONFIRM", F4(w.s.pubkey, w.s.peer_pubkey, w.s.nonce, <<>>)), "RANDOM")
ResponderRandom(w, p) ==
  LET v == Set([w EXCEPT !.s.peer_nonce = p.x], {"peer_random"})
      sent == Send(v, "RANDOM", v.s.nonce) IN
  CASE ByPasskey(v.s) /\ v.s.peer_confirm # F4(v.s.peer_pubkey, v.s.pubkey, p.x, Z(v.s)) -> Failed(v)
    [] ByPasskey(v.s) /\ v.s.peer_confirm = F4(v.s.peer_pubkey, v.s.pubkey, p.x, Z(v.s))
         /\ More(v.s) -> NextRound(sent)
    [] OTHER -> Randoms(sent)
ResponderChecks(w, p) ==
  LET v == Set([w EXCEPT !.s.peer_check = p.x], {"peer_check"}) IN
  IF "pending_f5" \in v.s.has \/ ~v.s.user_ok THEN v ELSE RespCheckEa(v)
\* What may come in any state, and what may not come at all.
ResponderAnyTime(w, p) ==
  CASE p.op = "FAILED" -> Reset(w)
    [] p.op = "SECURITY" -> w
    [] p.op \in {"IRK", "IDENTITY"} -> TakeKey(w, p.op)
    [] OTHER -> Failed(w)
HandleResponder(w, p) ==
  CASE p.op = "REQUEST" ->
         LET a == Send([w EXCEPT !.s.peer_cap = p.x, !.s.cap = w.io], "RESPONSE", w.io)
             b == To(Set(Reset(Draw(a)), {"own_keys", "peer_keys"}), "PUBKEY") IN
         IF w.ok THEN RequestPubkey(Choose(b, p.x, w.io)) ELSE Failed(a)
    [] p.op = "PUBKEY" /\ w.s.state = "PUBKEY" ->
         LET v == Set([w EXCEPT !.s.peer_pubkey = p.x], {"peer_pubkey", "pending_pubkey_tx"}) IN
         IF DhkeyRefused(v) THEN Failed(v) ELSE TrySendPubkeyConfirm(TryRequestDhkey(v))
    [] p.op = "RANDOM" /\ w.s.state = "RANDOM" -> ResponderRandom(w, p)
    [] p.op = "CONFIRM" /\ ByPasskey(w.s) /\ w.s.state = "CONFIRM" /\ "held_confirm" \notin w.s.has ->
         PkNext(Set([w EXCEPT !.s.peer_confirm = p.x], {"held_confirm"}))
    [] p.op = "CHECK" /\ w.s.state = "DHCHECK" -> ResponderChecks(w, p)
    [] OTHER -> ResponderAnyTime(w, p)

(***************************************************************************)
(* Completions: the first session that lacks a public key, or a DH key,    *)
(* and is not idle takes it.                                               *)
(***************************************************************************)
PubkeyComplete(w, key) ==
  IF "pubkey" \in w.s.has \/ w.s.state = "IDLE" THEN w
  ELSE LET v == Set([w EXCEPT !.s.pubkey = key], {"pubkey"}) IN
       IF DhkeyRefused(v) THEN Failed(v)
       ELSE IF w.e = "I" THEN InitTrySendPka(TryRequestDhkey(v)) ELSE TrySendPubkeyConfirm(TryRequestDhkey(v))
DhkeyComplete(w, dh) ==
  IF "dhkey" \in w.s.has \/ w.s.state = "IDLE" THEN w
  ELSE TryDeriveKeys(Set([w EXCEPT !.s.dhkey = dh], {"dhkey"}))
\* HCI_EVT_ENCRYPTION_CHANGE hands out keys, ..._KEY_REFRESH_COMPLETE does not.
EncryptionOn(w, refresh) ==
  LET v == To(w, "ENCRYPTED") IN
  IF ~refresh /\ "own_keys" \in v.s.has /\ (w.e = "R" \/ "peer_keys" \notin v.s.has) THEN SendKeys(v) ELSE v

(***************************************************************************)
(* Actions.                                                                *)
(***************************************************************************)
Idle == [state |-> "IDLE", has |-> {}, method |-> "jw", round |-> 0, user_ok |-> TRUE, passkey |-> 0,
         cap |-> 3, peer_cap |-> 3, nonce |-> <<>>, peer_nonce |-> <<>>, pubkey |-> <<>>, peer_pubkey |-> <<>>,
         dhkey |-> {}, key |-> <<>>, peer_confirm |-> <<>>, peer_check |-> <<>>]
Init ==
  /\ smp = [e \in Ends |-> Idle] /\ auth = [e \in Ends |-> NoAuth] /\ bond = [e \in Ends |-> NoBond]
  /\ pipe = [e \in Ends |-> <<>>] /\ ctl = [e \in Ends |-> [jobs |-> <<>>, pair |-> <<>>]]
  /\ link = [up |-> FALSE, on |-> FALSE]
  /\ \E c \in Io : io = [e \in Ends |-> IF e = "I" THEN c[1] ELSE c[2]]
  /\ used = [troubles |-> 0, faults |-> 0, silent |-> FALSE, n |-> [e \in Ends |-> 1]]
  /\ said = [e \in Ends |-> [yes |-> {}, bonds |-> {}]]

\* May the controller refuse the commands of this step?
Obeys == IF used.faults < MaxFaults THEN BOOLEAN ELSE {TRUE}
World(e, ok, pick, jobs) ==
  [e |-> e, s |-> smp[e], auth |-> auth[e], bond |-> bond[e], jobs |-> jobs, out |-> <<>>,
   n |-> used.n[e], ok |-> ok, pick |-> pick, io |-> io[e]]
\* The step's outcome; `queue` is what is left for both ends.
Becomes(e, w, queue, u) ==
  /\ smp' = [smp EXCEPT ![e] = w.s] /\ auth' = [auth EXCEPT ![e] = w.auth] /\ bond' = [bond EXCEPT ![e] = w.bond]
  /\ pipe' = [queue EXCEPT ![Other(e)] = @ \o w.out]
  /\ used' = [u EXCEPT !.n[e] = w.n, !.faults = IF w.ok THEN @ ELSE @ + 1]
  /\ said' = [said EXCEPT ![e].bonds = IF w.bond # bond[e] THEN @ \cup {w.bond} ELSE @]
  /\ UNCHANGED io
Jobs(e, w) == ctl' = [ctl EXCEPT ![e].jobs = w.jobs]

\* No data passes while the controllers start encryption.
Paused == \E e \in Ends : ctl[e].jobs # <<>> /\ Head(ctl[e].jobs).op \in {"on", "refresh"}
Handle(e) ==
  /\ link.up /\ pipe[e] # <<>> /\ ~Paused
  /\ \E ok \in Obeys, pick \in IF Head(pipe[e]).op \in {"REQUEST", "RESPONSE"} THEN Passkeys ELSE {0} :
       LET w == World(e, ok, pick, ctl[e].jobs)
           v == IF e = "I" THEN HandleInitiator(w, Head(pipe[e])) ELSE HandleResponder(w, Head(pipe[e])) IN
       Becomes(e, v, [pipe EXCEPT ![e] = Tail(@)], used) /\ Jobs(e, v)
  /\ UNCHANGED link
\* tiku_bt_pair
Pair(e) ==
  /\ link.up /\ used.troubles < MaxTroubles
  /\ \E ok \in Obeys :
       LET w == World(e, ok, 0, ctl[e].jobs)
           v == IF e = "I" THEN InitStart(w) ELSE Send(w, "SECURITY", 0) IN
       Becomes(e, v, pipe, [used EXCEPT !.troubles = @ + 1, !.silent = @ \/ (~ok /\ smp[e].state # "IDLE")])
         /\ Jobs(e, v)
  /\ UNCHANGED link
\* tiku_bt_auth_passkey
EnterPasskey(e, passkey) ==
  /\ auth[e].need = "enter"
  /\ \E ok \in Obeys :
       LET w == World(e, ok, 0, ctl[e].jobs)
           v == PkNext(Set([w EXCEPT !.s.passkey = passkey, !.auth = NoAuth], {"passkey"})) IN
       Becomes(e, v, pipe, used) /\ Jobs(e, v)
  /\ UNCHANGED link
\* tiku_bt_auth_confirm: refused, or confirmed by a user who sees the same number at both ends
Refuse(e) ==
  /\ auth[e].need # "none"
  /\ LET v == Failed(World(e, TRUE, 0, ctl[e].jobs)) IN Becomes(e, v, pipe, used) /\ Jobs(e, v)
  /\ UNCHANGED link
Confirm(e) ==
  /\ auth[e].need = "confirm"
  /\ LET w == [World(e, TRUE, 0, ctl[e].jobs) EXCEPT !.s.user_ok = TRUE, !.auth = NoAuth]
         v == CASE w.s.state # "DHCHECK" \/ "pending_f5" \in w.s.has -> w
                [] w.s.state = "DHCHECK" /\ "pending_f5" \notin w.s.has /\ e = "I" -> InitSendEa(w)
                [] w.s.state = "DHCHECK" /\ "pending_f5" \notin w.s.has /\ e = "R"
                     /\ "peer_check" \in w.s.has -> RespCheckEa(w)
                [] OTHER -> w IN
     /\ smp' = [smp EXCEPT ![e] = v.s] /\ auth' = [auth EXCEPT ![e] = v.auth] /\ bond' = [bond EXCEPT ![e] = v.bond]
     /\ pipe' = [pipe EXCEPT ![Other(e)] = @ \o v.out]
     /\ said' = [said EXCEPT ![e].yes = @ \cup {auth[e].number},
                             ![e].bonds = IF v.bond # bond[e] THEN @ \cup {v.bond} ELSE @]
  /\ UNCHANGED <<ctl, link, io, used>>

\* Connection Complete: the peripheral asks for security.
Connect ==
  /\ ~link.up
  /\ link' = [up |-> TRUE, on |-> FALSE]
  /\ pipe' = [e \in Ends |-> IF e = "I" THEN <<Pdu("SECURITY", 0)>> ELSE <<>>]
  /\ UNCHANGED <<smp, auth, bond, ctl, io, used, said>>
\* Disconnection Complete: keys under computation are still computed.
Down ==
  /\ link' = [up |-> FALSE, on |-> FALSE]
  /\ smp' = [e \in Ends |-> Reset(World(e, TRUE, 0, <<>>)).s] /\ auth' = [e \in Ends |-> NoAuth]
  /\ pipe' = [e \in Ends |-> <<>>]
  /\ ctl' = [e \in Ends |-> [ctl[e] EXCEPT !.jobs = SelectSeq(@, LAMBDA j : j.op \in {"pubkey", "dhkey"})]]
Drop ==
  /\ link.up /\ used.troubles < MaxTroubles /\ Down
  /\ used' = [used EXCEPT !.troubles = @ + 1]
  /\ UNCHANGED <<bond, io, said>>
\* tiku_bt_bond_clear
BondClear(e) ==
  /\ bond[e].is /\ ~link.up
  /\ bond' = [bond EXCEPT ![e] = NoBond]
  /\ UNCHANGED <<smp, auth, pipe, ctl, link, io, used, said>>

\* A controller finishes a command.
Job(e) == Head(ctl[e].jobs)
CtlKeys(e) ==
  /\ ctl[e].jobs # <<>> /\ Job(e).op \in {"pubkey", "dhkey", "on", "refresh"}
  /\ \E ok \in Obeys :
       LET w == World(e, ok, 0, Tail(ctl[e].jobs))
           new == <<e, used.n[e]>>
           v == CASE Job(e).op = "pubkey" -> PubkeyComplete([w EXCEPT !.n = @ + 1], new)
                  [] Job(e).op = "dhkey" -> DhkeyComplete(w, {ctl[e].pair, Job(e).x})
                  [] OTHER -> EncryptionOn(w, Job(e).op = "refresh") IN
       /\ Becomes(e, v, pipe, used)
       /\ ctl' = [ctl EXCEPT ![e] = [jobs |-> v.jobs, pair |-> IF Job(e).op = "pubkey" THEN new ELSE @.pair]]
  /\ UNCHANGED link
\* bt_handle_le_ltk_request: the key of the session, or of the bond.
LtkRequest(s, b) ==
  CASE s.state \in {"ENCRYPTING", "ENCRYPTED"} -> [s EXCEPT !.state = "ENCRYPTING"]
    [] s.state \notin {"ENCRYPTING", "ENCRYPTED"} /\ b.is -> [s EXCEPT !.state = "ENCRYPTING", !.key = b.key]
    [] OTHER -> s
\* The central's controller encrypts the link; with other keys at the ends the link is lost.
CtlEncrypts ==
  /\ ctl["I"].jobs # <<>> /\ Job("I").op = "encrypt"
  /\ LET r == LtkRequest(smp["R"], bond["R"])
         rest == [ctl EXCEPT !["I"].jobs = Tail(@)]
         how == Pdu(IF link.on THEN "refresh" ELSE "on", 0) IN
     CASE r.state # "ENCRYPTING" -> ctl' = rest /\ UNCHANGED <<smp, auth, pipe, link>>
       [] r.state = "ENCRYPTING" /\ r.key = Job("I").x ->
            /\ smp' = [smp EXCEPT !["R"] = r] /\ link' = [link EXCEPT !.on = TRUE]
            /\ ctl' = [e \in Ends |-> [rest[e] EXCEPT !.jobs = <<how>> \o @]]
            /\ UNCHANGED <<auth, pipe>>
       [] OTHER -> Down
  /\ UNCHANGED <<bond, io, used, said>>

Next ==
  \/ Connect \/ Drop \/ CtlEncrypts
  \/ \E e \in Ends : \/ Handle(e) \/ Pair(e) \/ Refuse(e) \/ Confirm(e) \/ CtlKeys(e) \/ BondClear(e)
                     \/ \E passkey \in Passkeys : EnterPasskey(e, passkey)
Spec == Init /\ [][Next]_vars

(***************************************************************************)
(* Properties.                                                             *)
(***************************************************************************)
\* bt_smp_bond: the central bonds with a key the peripheral has bonded with; a bond that
\* counts as authenticated was made with the same passkey at both ends, or with a number
\* both users confirmed.  Whatever restarts, late completions, refusals and lost links.
BondsAreGood ==
  /\ bond["I"].is => \E b \in said["R"].bonds : b.key = bond["I"].key /\ b.method = bond["I"].method
  /\ \A e \in Ends : bond[e].is /\ bond[e].method = "num" =>
                       \A f \in Ends : bond[e].number \in said[f].yes
  /\ \A b \in said["R"].bonds : bond["I"].is /\ b.key = bond["I"].key => b.passkey = bond["I"].passkey

\* Nobody waits for ever: when no PDU is on its way, the controllers are done and no user is
\* asked, a session is idle or encrypted.  Exceptions: the central encrypts with a key the
\* peripheral has lost; the command to encrypt was refused, so that the peripheral, bonded,
\* is not asked for its key; the central began anew and found no random number to do it with.
NobodyWaits ==
  link.up /\ ~used.silent
    /\ (\A e \in Ends : pipe[e] = <<>> /\ ctl[e].jobs = <<>> /\ auth[e].need \in {"none", "display"})
    => \A e \in Ends : \/ smp[e].state \in {"IDLE", "ENCRYPTED"}
                       \/ e = "R" /\ smp["R"].state = "ENCRYPTING" /\ smp["I"].state = "IDLE" /\ bond["I"].is
                       \/ e = "I" /\ smp["I"].state = "ENCRYPTING" /\ smp["R"].state = "IDLE" /\ ~bond["R"].is
=============================================================================
