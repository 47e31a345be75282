------------------------------ MODULE MCFLCrash -----------------------------
(* Three clients, one of which crashes: with fewer there is no survivor     *)
(* whose late update can displace the list another survivor's update is in. *)
(* The run begins where the third registration has begun the first round,   *)
(* with or without gossip from the client that may crash.                   *)
EXTENDS FLRemote

\* the order of registration, which unordered calls make immaterial
Roster == CHOOSE cs \in [1..NumClients -> Clients] : ToSet(cs) = Clients

FirstRoundBegun ==
  /\ coord = [up |-> TRUE, round |-> 1, clients |-> Roster, peers |-> TRUE,
              model |-> NoModel, seeded |-> Clients]
  /\ doneCh = FALSE
  /\ agg = [expected |-> NumClients, round |-> 0, updates |-> <<>>]
  /\ mon = [validation |-> TRUE, model |-> NoModel, log |-> {}]
  /\ registered = <<>>
  /\ coordBox = <<>> /\ aggBox = <<>> /\ monBox = <<>> /\ cmBox = <<>>
  /\ clientBox = [c \in Clients |-> <<>>]
  /\ wire = SetToBag({[to |-> c, msg |-> StartRound(1)] : c \in Clients})
  /\ up = [c \in Clients |-> TRUE]
  /\ joining = [c \in Clients |-> "registered"]
  /\ tries = [c \in Clients |-> 1]
  /\ peersTold = TRUE
  /\ heard \in {Clients, Clients \ {Roster[1]}}
  /\ faults = {}

\* which client crashes is immaterial as well: the first of the roster may
OthersStayUp == \A c \in Clients \ {Roster[1]} : up'[c]

CrashSpec == FirstRoundBegun /\ [][Next /\ OthersStayUp]_vars /\ Fairness
=============================================================================
