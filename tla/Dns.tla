-------------------------------- MODULE Dns --------------------------------
(***************************************************************************)
(* The DNS resolver (tiku_kits_net_dns.c): one query at a time, a small    *)
(* cache keyed by a 16-bit hash of the name, a network that delays,        *)
(* repeats and loses what it carries, and servers that give each name an   *)
(* address of its own.                                                     *)
(***************************************************************************)
EXTENDS Integers, Sequences, FiniteSets

CONSTANTS
  NULL,
  Names,         \* names to resolve, each the sequence of the lengths of its labels
  Hash,          \* dns_hostname_hash: Names -> a small set
  Servers,
  Shapes,        \* what an answer looks like: rcode, tc, records, fits
  Ttls,          \* times to live a server gives
  CACHE_SIZE,
  MAX_RETRIES, MAX_HOSTNAME,
  IdSpace,       \* the transaction ids in use before they come round
  MaxCalls, MaxTime   \* bounds

VARIABLES
  d,        \* dns_state, dns_server, the transaction, the last answer
  cache,    \* dns_cache
  now,      \* tiku_clock_seconds
  net,      \* the queries the servers have, each of them to be answered any number of times
  asked,    \* the name last asked for, and the server then
  calls

vars == <<d, cache, now, net, asked, calls>>

(***************************************************************************)
(* State.                                                                  *)
(***************************************************************************)
Slots == 1..CACHE_SIZE
Empty == [valid |-> FALSE, hash |-> NULL, addr |-> NULL, ttl |-> 0, at |-> 0]
Flushed == [i \in Slots |-> [cache[i] EXCEPT !.valid = FALSE]]

Fresh ==
  [st |-> "IDLE", server |-> NULL, txn |-> 0, ready |-> FALSE, retries |-> 0, addr |-> NULL,
   ttl |-> 0, rcode |-> 0, hash |-> NULL, question |-> NULL, rx |-> NULL, bound |-> FALSE]

Init ==
  /\ d = Fresh
  /\ cache = [i \in Slots |-> Empty]
  /\ now = 0 /\ net = {} /\ calls = 0
  /\ asked = [name |-> NULL, server |-> NULL]

\* The xorshift generator visits every id before it repeats one, and never 0.
NextId == (d.txn % IdSpace) + 1

(***************************************************************************)
(* The cache.                                                              *)
(***************************************************************************)
Elapsed(i) == now - cache[i].at
Remaining(i) == IF Elapsed(i) < cache[i].ttl THEN cache[i].ttl - Elapsed(i) ELSE 0
Matches(hash) == {i \in Slots : cache[i].valid /\ cache[i].hash = hash}
Hits(hash) == {i \in Matches(hash) : Elapsed(i) < cache[i].ttl}
First(S) == CHOOSE i \in S : \A j \in S : i <= j

\* Expired entries met before the hit are marked invalid.
Looked(hash) ==
  [i \in Slots |-> IF i \in Matches(hash) \ Hits(hash) /\ \A h \in Hits(hash) : i < First(Hits(hash))
                   THEN [cache[i] EXCEPT !.valid = FALSE] ELSE cache[i]]

\* The first free slot, or the first of those that expire soonest.
Victim ==
  LET free == {i \in Slots : ~cache[i].valid}
  IN IF free # {} THEN First(free)
     ELSE First({i \in Slots : \A j \in Slots : Remaining(i) <= Remaining(j)})
Inserted(hash, addr, ttl) ==
  [cache EXCEPT ![Victim] = [valid |-> TRUE, hash |-> hash, addr |-> addr, ttl |-> ttl, at |-> now]]

(***************************************************************************)
(* The answer.                                                             *)
(***************************************************************************)
\* Question and answer agree, letter case apart.
QuestionMatches(m) == m.question = d.question

\* The place of the first A record among those that fit the receive buffer.
Answers(m) == {i \in 1..Len(m.shape.records) : m.shape.records[i] = "A" /\ i <= m.shape.fits}

\* Before a server's own failure or a truncated answer is looked into, nothing is stored.
Parses(m) ==
  /\ m.shape.rcode = 0 /\ ~m.shape.tc
  /\ m.shape.records # <<>>
  /\ QuestionMatches(m)
  /\ Answers(m) # {}

(***************************************************************************)
(* Calls.                                                                  *)
(***************************************************************************)
Call == calls < MaxCalls /\ calls' = calls + 1

Reset ==
  /\ Call
  /\ d' = [Fresh EXCEPT !.txn = d.txn, !.question = d.question]
  /\ cache' = Flushed
  /\ UNCHANGED <<now, net, asked>>

SetServer(s) ==
  /\ Call
  /\ d.st # "SENT"
  /\ cache' = IF d.server # s THEN Flushed ELSE cache
  /\ d' = [d EXCEPT !.server = s]
  /\ UNCHANGED <<now, net, asked>>

\* set_default_override and cache_flush.
Flush ==
  /\ Call
  /\ cache' = Flushed
  /\ UNCHANGED <<d, now, net, asked>>

\* No label empty or past 63, and the whole name within MAX_HOSTNAME.
Encodes(n) ==
  /\ n # <<>> /\ \A i \in 1..Len(n) : n[i] \in 1..63
  /\ LET length[i \in 0..Len(n)] == IF i = 0 THEN Len(n) - 1 ELSE length[i - 1] + n[i]
     IN length[Len(n)] <= MAX_HOSTNAME

Refused(n) == d.server = NULL \/ d.st = "SENT" \/ ~Encodes(n)

\* A name the cache answers: the state moves to DONE at once.
ResolveCached(n) ==
  /\ Call
  /\ ~Refused(n) /\ Hits(Hash[n]) # {}
  /\ LET i == First(Hits(Hash[n]))
     IN d' = [d EXCEPT !.st = "DONE", !.hash = Hash[n], !.addr = cache[i].addr, !.ttl = Remaining(i)]
  /\ cache' = Looked(Hash[n])
  /\ asked' = [name |-> n, server |-> d.server]
  /\ UNCHANGED <<now, net>>

\* Any other: a query goes out, unless the port or the link refuses it.
ResolveAsk(n, bind, send) ==
  /\ Call
  /\ ~Refused(n) /\ Hits(Hash[n]) = {}
  /\ LET q == [d EXCEPT !.hash = Hash[n], !.ready = FALSE, !.retries = 0, !.addr = NULL, !.ttl = 0,
                        !.txn = NextId, !.question = n]
     IN /\ d' = IF bind /\ send THEN [q EXCEPT !.st = "SENT", !.bound = TRUE]
                ELSE [q EXCEPT !.st = "ERROR"]
        /\ net' = IF bind /\ send
                  THEN net \union {[id |-> q.txn, question |-> n, server |-> d.server]}
                  ELSE net
  /\ cache' = Looked(Hash[n])
  /\ asked' = [name |-> n, server |-> d.server]
  /\ UNCHANGED now

\* An answer to any query that was ever sent arrives, late or again; answers of
\* other transactions and of other servers are dropped.
Receive(q, shape, ttl) ==
  /\ d.bound
  /\ d.st = "SENT" /\ q.server = d.server /\ q.id = d.txn
  /\ d' = [d EXCEPT !.ready = TRUE,
                    !.rx = [question |-> q.question, shape |-> shape, ttl |-> ttl,
                            addr |-> [name |-> q.question, server |-> q.server]]]
  /\ UNCHANGED <<cache, now, net, asked, calls>>

PollAnswer ==
  /\ d.st = "SENT" /\ d.ready
  /\ LET m == d.rx
         over == [d EXCEPT !.ready = FALSE, !.bound = FALSE, !.rcode = m.shape.rcode]
     IN IF Parses(m)
        THEN /\ d' = [over EXCEPT !.st = "DONE", !.addr = m.addr, !.ttl = m.ttl]
             /\ cache' = Inserted(d.hash, m.addr, m.ttl)
        ELSE d' = [over EXCEPT !.st = "ERROR"] /\ UNCHANGED cache
  /\ UNCHANGED <<now, net, asked, calls>>

\* A poll without an answer counts towards MAX_RETRIES; nothing is sent again.
\* The mutant leaves the port bound.
PollNothing_bound ==
  /\ d.st = "SENT" /\ ~d.ready
  /\ d' = IF d.retries + 1 >= MAX_RETRIES
          THEN [d EXCEPT !.retries = @ + 1, !.st = "ERROR"]
          ELSE [d EXCEPT !.retries = @ + 1]
  /\ UNCHANGED <<cache, now, net, asked, calls>>
PollNothing ==
  /\ d.st = "SENT" /\ ~d.ready
  /\ d' = IF d.retries + 1 >= MAX_RETRIES
          THEN [d EXCEPT !.retries = @ + 1, !.bound = FALSE, !.st = "ERROR"]
          ELSE [d EXCEPT !.retries = @ + 1]
  /\ UNCHANGED <<cache, now, net, asked, calls>>
Poll == PollAnswer \/ PollNothing

Abort ==
  /\ Call
  /\ d' = [d EXCEPT !.bound = FALSE, !.st = "IDLE", !.ready = FALSE, !.retries = 0]
  /\ UNCHANGED <<cache, now, net, asked>>

(***************************************************************************)
(* The world.                                                              *)
(***************************************************************************)
Tick == now < MaxTime /\ now' = now + 1 /\ UNCHANGED <<d, cache, net, asked, calls>>

Next ==
  \/ Reset \/ Flush \/ Abort \/ Poll \/ Tick
  \/ \E s \in Servers : SetServer(s)
  \/ \E n \in Names : ResolveCached(n) \/ \E bind, send \in BOOLEAN : ResolveAsk(n, bind, send)
  \/ \E q \in net, shape \in Shapes, ttl \in Ttls : Receive(q, shape, ttl)

(***************************************************************************)
(* Properties.                                                             *)
(***************************************************************************)
\* The resolver listens exactly while a query is out.
PortHeld == d.bound <=> d.st = "SENT"

\* get_addr: an answer is the address the current server gives the name that
\* was asked, whatever late and repeated answers came in, and it is not given
\* past its time to live.
AnswersTheQuestion ==
  d.st = "DONE" =>
    /\ d.addr = asked
    /\ d.ttl = 0 => d.rx.addr = asked /\ d.rx.ttl = 0

(***************************************************************************)
(* An inductive invariant.                                                 *)
(***************************************************************************)
\* The cache knows a name by its hash alone: it is as good as the hash tells the
\* names apart.
Bounds ==
  /\ CACHE_SIZE \in Nat /\ IdSpace \in Nat \ {0} /\ Ttls \subseteq Nat
  /\ \A n, m \in Names : Hash[n] = Hash[m] => n = m

\* The address that a server gives a name stands for the two of them.
Addresses == [name : Names, server : Servers]
Hashes == {Hash[n] : n \in Names} \union {NULL}
Replies == [question : Names, shape : Shapes, ttl : Nat, addr : Addresses]
Resolvers ==
  [st : {"IDLE", "SENT", "DONE", "ERROR"}, server : Servers \union {NULL}, txn : Nat, ready : BOOLEAN, retries : Nat,
   addr : Addresses \union {NULL}, ttl : Nat, rcode : {m.rcode : m \in Shapes} \union {0}, hash : Hashes,
   question : Names \union {NULL}, rx : Replies \union {NULL}, bound : BOOLEAN]
Entries == [valid : BOOLEAN, hash : Hashes, addr : Addresses \union {NULL}, ttl : Nat, at : Nat]
TypeOK ==
  /\ d \in Resolvers /\ cache \in [Slots -> Entries] /\ now \in Nat
  /\ asked \in [name : Names \union {NULL}, server : Servers \union {NULL}]
  /\ net \in SUBSET [id : Nat, question : Names, server : Servers]
\* What is cached came from the server in use, and bears the hash of its name.
CacheOK ==
  \A i \in Slots : cache[i].valid =>
    /\ cache[i].addr \in Addresses /\ cache[i].addr.server = d.server
    /\ cache[i].hash = Hash[cache[i].addr.name]
\* The query that is out is the last one asked for, and an answer that waits came
\* from the server it went to.
QueryOK ==
  d.st = "SENT" =>
    /\ d.question \in Names /\ d.server \in Servers /\ d.hash = Hash[d.question]
    /\ asked = [name |-> d.question, server |-> d.server]
    /\ d.ready => d.rx \in Replies /\ d.rx.addr = [name |-> d.rx.question, server |-> d.server]
DnsInv == TypeOK /\ PortHeld /\ CacheOK /\ QueryOK /\ AnswersTheQuestion
=============================================================================
