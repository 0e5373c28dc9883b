-------------------------------- MODULE X509 --------------------------------
(***************************************************************************)
(* Certificate chains (tiku_kits_crypto_x509.c, _x509_chain.c): a server   *)
(* shows certificates in an order of its own, and the leaf is accepted     *)
(* when every one is certified by the next and some one of them by a root  *)
(* of the store.  A certificate is what parsing makes of it; a signature   *)
(* is the key that made it.                                                *)
(***************************************************************************)
EXTENDS Integers, Sequences, FiniteSets

CONSTANTS
  NULL,
  Certs,       \* what servers show
  Roots,       \* the store, a sequence
  Host,        \* the name asked for, a sequence of labels, or NULL
  Now,         \* days since 1970, or 0 for no clock
  MaxChain     \* bound on the certificates shown

VARIABLES
  chain,       \* what has been read of the Certificate message
  verdict      \* what verify_chain_store said, or NULL

vars == <<chain, verdict>>
Init == chain = <<>> /\ verdict = NULL

(***************************************************************************)
(* Names and times.                                                        *)
(***************************************************************************)
\* A wild card stands for the first label, whatever it is.  Case does not count.
MatchesName(name, host) ==
  IF Len(name) > 1 /\ name[1] = "*" THEN Len(host) > 1 /\ Tail(name) = Tail(host) ELSE name = host
match_host(c, host) == \E name \in c.san : MatchesName(name, host)

\* C's integer division truncates; every operand here is positive.
days_from_civil(year, m, d) ==
  LET y == IF m <= 2 THEN year - 1 ELSE year
      era == y \div 400
      yoe == y - era * 400
      doy == (153 * (m + (IF m > 2 THEN -3 ELSE 9)) + 2) \div 5 + d - 1
  IN era * 146097 + yoe * 365 + yoe \div 4 - yoe \div 100 + doy - 719468

\* UTCTime has two digits of the year, GeneralizedTime four.  0 is no time.
asn1_time(t) ==
  LET year == IF t.tag = "utc" THEN IF t.y % 100 < 50 THEN 2000 + (t.y % 100) ELSE 1900 + (t.y % 100) ELSE t.y
  IN IF t.m \notin 1..12 \/ t.d \notin 1..31 THEN 0 ELSE days_from_civil(year, t.m, t.d)
time_valid(c) ==
  LET nb == asn1_time(c.from)
      na == asn1_time(c.to)
  IN nb # 0 /\ na # 0 /\ Now >= nb /\ Now <= na

(***************************************************************************)
(* Links.                                                                  *)
(***************************************************************************)
\* An algorithm of the certificate that the issuer's key does not have, or that
\* the code does not know, verifies nothing.
verify_signed_by(c, iss) == c.signer = iss.key /\ c.alg = iss.alg

\* below is the number of certificates of authorities under this one.
issuer_ok(iss, below) ==
  /\ iss.ca
  /\ iss.ku \in {"none", "sign"}
  /\ iss.path >= 0 => below <= iss.path

chain_links_ok(s) ==
  /\ s # <<>>
  /\ Host # NULL => match_host(s[1], Host)
  /\ s[1].eku \in {"none", "server"}
  /\ Now # 0 => \A i \in DOMAIN s : time_valid(s[i])
  /\ \A i \in 1..(Len(s) - 1) :
       s[i + 1].subject = s[i].issuer /\ issuer_ok(s[i + 1], i - 1) /\ verify_signed_by(s[i], s[i + 1])

Anchors(c) ==
  {r \in DOMAIN Roots : Roots[r].subject = c.issuer /\ (Now # 0 => time_valid(Roots[r]))
                        /\ verify_signed_by(c, Roots[r])}
verify_chain(s) == chain_links_ok(s) /\ \E k \in DOMAIN s : Anchors(s[k]) # {}

(***************************************************************************)
(* The handshake reads the certificates one by one, then asks.             *)
(***************************************************************************)
Shows(c) ==
  /\ verdict = NULL /\ Len(chain) < MaxChain
  /\ chain' = Append(chain, c)
  /\ UNCHANGED verdict
Verify == verdict = NULL /\ verdict' = verify_chain(chain) /\ UNCHANGED chain
Next == Verify \/ \E c \in Certs : Shows(c)

(***************************************************************************)
(* Properties.                                                             *)
(***************************************************************************)
\* What a certification path is, over any certificates in any order: authority
\* by authority from a root down to the leaf, every authority with room for the
\* authorities below it.
Path(s) ==
  /\ \E r \in {Roots[i] : i \in DOMAIN Roots} : r.subject = s[Len(s)].issuer /\ r.key = s[Len(s)].signer
     /\ r.alg = s[Len(s)].alg
  /\ \A i \in 2..Len(s) :
       /\ s[i].ca /\ s[i].ku # "other"
       /\ s[i].subject = s[i - 1].issuer /\ s[i].key = s[i - 1].signer /\ s[i].alg = s[i - 1].alg
       /\ s[i].path # -1 => Cardinality(2..(i - 1)) <= s[i].path
Named(c) == Host \in c.san \/ \E n \in c.san : n[1] = "*" /\ Tail(n) = Tail(Host) /\ Len(n) = Len(Host)

\* verify_chain_store accepts a chain only when a certification path leads from a
\* root to the leaf, which bears the name; and it accepts every chain that is
\* such a path, when its times are good.
ChainAuthentic ==
  verdict # NULL =>
    /\ verdict => /\ Named(chain[1]) /\ chain[1].eku # "other"
                  /\ \E k \in 1..Len(chain) : Path(SubSeq(chain, 1, k))
    /\ /\ chain # <<>> /\ Path(chain) /\ Named(chain[1]) /\ chain[1].eku # "other"
       /\ \A c \in {chain[i] : i \in DOMAIN chain} \union {Roots[i] : i \in DOMAIN Roots} : Now = 0 \/ time_valid(c)
       => verdict
=============================================================================
