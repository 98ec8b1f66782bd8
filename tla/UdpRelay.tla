--------------------------------- MODULE UdpRelay ---------------------------------
(***************************************************************************)
(* asus_udp_relay_nolibc.c on the router between the Pi and the robot: every  *)
(* datagram that does not come from the robot makes its sender the client and  *)
(* goes on to the robot, every datagram of the robot goes to the client.  The  *)
(* accessory asks through one socket and opens another one when it connects    *)
(* again; each socket has one exchange under way, and a retry begins a new     *)
(* one.  RelayWatchdog starts the process and opens the firewall for it.       *)
(***************************************************************************)
EXTENDS Naturals

CONSTANT Sockets  \* the sockets that the accessory opens

VARIABLES
  relay,   \* the version of the running process, 0 if there is none
  client,  \* client_addr of that process, {} before have_client
  rule,    \* INPUT of the router accepts datagrams of the Pi to the relay
  socket,  \* the socket the accessory uses
  flight   \* where the exchange of each socket is

traffic == <<socket, flight>>

Phase == {"none", "asked", "forwarded", "replied", "answered"}

RelayInit ==
  /\ relay = 0 /\ client = {} /\ rule = FALSE
  /\ socket \in Sockets
  /\ flight = [s \in Sockets |-> "none"]

\* The process ends, or a new one begins: it has no client (the mistake: it keeps the
\* client of the one before).
WrongBecomes(version) == relay' = version /\ UNCHANGED client

Becomes(version) == relay' = version /\ client' = {}

\* The accessory sends a request, for the first time or again.
Ask ==
  /\ flight[socket] \in {"none", "answered"}
  /\ flight' = [flight EXCEPT ![socket] = "asked"]
  /\ UNCHANGED <<relay, client, rule, socket>>

\* A datagram of the Pi gets to the router (the mistake: the first sender remains the
\* client).
WrongFromClient(s) ==
  /\ flight[s] = "asked"
  /\ IF rule /\ relay # 0
     THEN /\ client' = IF client = {} THEN {s} ELSE client
          /\ flight' = [flight EXCEPT ![s] = "forwarded"]
     ELSE flight' = [flight EXCEPT ![s] = "none"] /\ UNCHANGED client
  /\ UNCHANGED <<relay, rule, socket>>

FromClient(s) ==
  /\ flight[s] = "asked"
  /\ IF rule /\ relay # 0
     THEN client' = {s} /\ flight' = [flight EXCEPT ![s] = "forwarded"]
     ELSE flight' = [flight EXCEPT ![s] = "none"] /\ UNCHANGED client
  /\ UNCHANGED <<relay, rule, socket>>

Robot(s) ==
  /\ flight[s] = "forwarded"
  /\ flight' = [flight EXCEPT ![s] = "replied"]
  /\ UNCHANGED <<relay, client, rule, socket>>

\* A datagram of the robot gets to the router.  The relay does not know what it
\* answers: it is of use only to the socket that asked, if that is the client.
FromRobot(s) ==
  /\ flight[s] = "replied"
  /\ flight' = [flight EXCEPT ![s] =
       IF relay # 0 /\ s \in client /\ s = socket THEN "answered" ELSE "none"]
  /\ UNCHANGED <<relay, client, rule, socket>>

\* A datagram is lost.
Lose(s) ==
  /\ flight[s] \notin {"none", "answered"}
  /\ flight' = [flight EXCEPT ![s] = "none"]
  /\ UNCHANGED <<relay, client, rule, socket>>

\* The accessory connects again.
Reconnect ==
  /\ socket' \in Sockets \ {socket}
  /\ flight' = [flight EXCEPT ![socket'] = "none"]
  /\ UNCHANGED <<relay, client, rule>>

Forward == \E s \in Sockets : FromClient(s) \/ Robot(s) \/ FromRobot(s)

RelayTypeOK ==
  /\ relay \in Nat /\ rule \in BOOLEAN
  /\ client \subseteq Sockets /\ (relay = 0 => client = {})
  /\ socket \in Sockets /\ flight \in [Sockets -> Phase]
=============================================================================
