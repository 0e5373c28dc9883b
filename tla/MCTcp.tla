------------------------------- MODULE MCTcp -------------------------------
(* One host against an arbitrary network: TLC instances of Tcp. *)
EXTENDS Tcp, TLC

\* Segments with every sequence and acknowledgment number.  Fields that no
\* branch reads for a given set of flags take one value.
SegsFor(remotes, ports, synseqs, dataseqs, offers, datas) ==
  LET seg(r, p, q, a, f, d, m) ==
        [remote |-> r, port |-> p, seq |-> q, ack |-> a, flags |-> f, data |-> d, mss |-> m]
  IN  {seg(r, p, 0, 0, {"RST"}, <<>>, MSS) : r \in remotes, p \in ports} \cup
      {seg(r, p, q, 0, {"SYN"}, <<>>, m) :
          r \in remotes, p \in ports, q \in synseqs, m \in offers} \cup
      {seg(r, p, q, a, {"SYN", "ACK"}, <<>>, m) :
          r \in remotes, p \in ports, q \in synseqs, a \in SeqNums, m \in offers} \cup
      {seg(r, p, 0, a, f, <<>>, MSS) :
          r \in remotes, p \in ports, a \in SeqNums, f \in {{"ACK"}, {"FIN", "ACK"}}} \cup
      {seg(r, p, 0, 0, {"FIN"}, <<>>, MSS) : r \in remotes, p \in ports} \cup
      {seg(r, p, q, a, f, d, MSS) :
          r \in remotes, p \in ports, q \in dataseqs, a \in SeqNums,
          f \in {{"ACK"}, {"FIN", "ACK"}}, d \in datas}

OneSlotInputs == SegsFor(Remotes, Ports \ {0}, {6}, {7, 0}, {1}, {<<1>>, <<1, 1>>})
\* Handshakes, acknowledgments and resets only, for the shared pool and tables.
TwoSlotInputs ==
  {g \in SegsFor(Remotes, Ports, {6}, {}, {1}, {}) :
     "FIN" \notin g.flags /\ ("ACK" \in g.flags => g.ack \in {0, 1, 2, 5, 6})}
OnePayload == {<<1>>}
=============================================================================
