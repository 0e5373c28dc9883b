------------------------------- MODULE MCMqtt -------------------------------
(***************************************************************************)
(* TLC instances of Mqtt.  A behaviour plays one scenario: two sessions    *)
(* over two connections, with sends that fail and callbacks that call the  *)
(* client; one session whose stream is cut into segments anywhere; or two  *)
(* sessions over TLS with a broker that may fall silent.                   *)
(***************************************************************************)
EXTENDS Mqtt

Packet(t, f, b) == [type |-> t, flags |-> f, body |-> b]
Accept == Packet(2, 0, <<0, 0>>)
Refuse == Packet(2, 0, <<0, 5>>)
Message == Packet(3, 0, <<0, 0, 7>>)
Message1 == Packet(3, 2, <<0, 0, 0, 9>>)
Puback(id) == Packet(4, 0, <<0, id>>)
PingResp == Packet(13, 0, <<>>)
SessionPackets == {Accept, Refuse, Message1, PingResp, Puback(1)}
\* Every kind the client handles, and ones it ignores.
StreamPackets == {Accept, Message, Message1, Packet(9, 0, <<0, 1, 0>>),
                  PingResp, Packet(3, 4, <<0, 0>>), Packet(3, 0, <<9, 9, 9>>), Packet(4, 0, <<1>>)}

Stream == INSTANCE Mqtt WITH
  TLS <- FALSE, CHUNK <- 6, BrokerPackets <- StreamPackets,
  CallsInCallback <- FALSE, MaxConnects <- 1, MaxIn <- 3, MaxIds <- 0
Silent == INSTANCE Mqtt WITH
  TLS <- TRUE, CHUNK <- 4, BrokerPackets <- {Accept, PingResp}, CallsInCallback <- FALSE, MaxConnects <- 2, MaxIn <- 2,
    MaxIds <- 1

VARIABLE scenario
MCInit == \/ scenario = "sessions" /\ Init
          \/ scenario = "stream" /\ Stream!Init
          \/ scenario = "silent" /\ Silent!Init
SessionsStep == scenario = "sessions" /\ Next
StreamStep == scenario = "stream" /\ Stream!Next
SilentStep == scenario = "silent" /\ Silent!Next
\* In the silent scenario mqtt_periodic is called for ever, and what runs ends.
MCSpec ==
  /\ MCInit /\ [][(SessionsStep \/ StreamStep \/ SilentStep) /\ UNCHANGED scenario]_<<vars, scenario>>
  /\ WF_vars(scenario = "silent" /\ \E r \in Results : Silent!Periodic(r))
  /\ WF_vars(scenario = "silent" /\ (Silent!Feed \/ Silent!FeedStops))
  /\ WF_vars(scenario = "silent" /\ \E r \in Results : Silent!Return(r))
\* The sessions scenario alone.
SessionsSpec == scenario = "sessions" /\ Init /\ [][SessionsStep /\ UNCHANGED scenario]_<<vars, scenario>>

\* "The parser handles packets split across TCP segments" (mqtt_feed_data): the
\* packets dispatched are those the broker wrote, whole and in order.
StreamInStep == scenario = "stream" => Stream!InStep

\* Waiting ends even if the network is silent: a session that is being set up comes up
\* or is given up (CONNACK timeout, "applies to TCP/TLS connecting too"), and a ping
\* without an answer ends the session (mqtt_periodic).
Waiting == scenario = "silent" /\ (state \in Connecting \/ (state = "CONNECTED" /\ ping_pending))
WaitsResolve == Waiting ~> ~Waiting
=============================================================================
