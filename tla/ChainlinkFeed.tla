--------------------------- MODULE ChainlinkFeed ----------------------------
(***************************************************************************)
(* The Chainlink collector: one task per asset (official_runtime.py        *)
(* _run_asset) around a reconnecting WebSocket generator                   *)
(* (adapters/public_transport.py resilient_websocket_json), and the frames *)
(* it records.  The server may refuse, drop or close a connection at any   *)
(* time, deliver averages late, out of order, repeated or on another       *)
(* asset's subscription, and send frames that do not parse.                *)
(***************************************************************************)
EXTENDS TwapHistory

CONSTANTS
  Assets,
  Timestamps,    \* publisher timestamps the feed carries
  Values,        \* values it carries
  MaxAttempts,   \* RetryPolicy.max_attempts of one generator
  None

FeedConstants ==
  /\ Timestamps \subseteq Nat
  /\ MaxAttempts \in Nat \ {0}

Twap == [asset : Assets, publisher_ts : Timestamps, value : Values]

NoneIsNoTwap == None \notin Twap

VARIABLES
  connection,     \* Assets -> where the asset's task is
  attempt,        \* Assets -> attempt of the current generator
  status,         \* Assets -> state.subscription_status
  history,        \* Assets -> self._history
  latest          \* Assets -> self._latest

vars == <<connection, attempt, status, history, latest>>

Init ==
  /\ connection = [a \in Assets |-> "connecting"]
  /\ attempt = [a \in Assets |-> 1]
  /\ status = [a \in Assets |-> "SUBSCRIBED"]
  /\ history = [a \in Assets |-> <<>>]
  /\ latest = [a \in Assets |-> None]

-----------------------------------------------------------------------------
(* The connection. *)

(* ws_connect succeeds and the subscription is sent again. *)
Connect(a) ==
  /\ connection[a] = "connecting"
  /\ connection' = [connection EXCEPT ![a] = "streaming"]
  /\ UNCHANGED <<attempt, status, history, latest>>

(* A ClientError or a timeout with attempts left: the generator backs off. The
   attempts are those of the generator; a connection that worked for hours does not
   give them back. *)
LoseConnection(a) ==
  /\ connection[a] \in {"connecting", "streaming"}
  /\ attempt[a] < MaxAttempts
  /\ connection' = [connection EXCEPT ![a] = "backoff"]
  /\ UNCHANGED <<attempt, status, history, latest>>

Retry(a) ==
  /\ connection[a] = "backoff"
  /\ connection' = [connection EXCEPT ![a] = "connecting"]
  /\ attempt' = [attempt EXCEPT ![a] = @ + 1]
  /\ UNCHANGED <<status, history, latest>>

(* Mutant: TransportExhaustedError is not caught by the asset's task. *)
AfterErrorStopped == "stopped"

(* Where the asset's task is after its except clause. *)
AfterError == "waiting"

(* The last attempt fails (TransportExhaustedError), or a frame raises something
   the generator does not catch: _run_asset records the error and waits. *)
FailGenerator(a) ==
  /\ \/ connection[a] = "streaming"
     \/ connection[a] = "connecting" /\ attempt[a] = MaxAttempts
  /\ connection' = [connection EXCEPT ![a] = AfterError]
  /\ status' = [status EXCEPT ![a] = "ERROR"]
  /\ UNCHANGED <<attempt, history, latest>>

(* The server closes normally: the generator just ends. *)
CloseNormally(a) ==
  /\ connection[a] = "streaming"
  /\ connection' = [connection EXCEPT ![a] = "waiting"]
  /\ UNCHANGED <<attempt, status, history, latest>>

(* The wait of _run_asset is over: a new generator with all its attempts. *)
StartGenerator(a) ==
  /\ connection[a] = "waiting"
  /\ connection' = [connection EXCEPT ![a] = "connecting"]
  /\ attempt' = [attempt EXCEPT ![a] = 1]
  /\ status' = [status EXCEPT ![a] = "SUBSCRIBED"]
  /\ UNCHANGED <<history, latest>>

-----------------------------------------------------------------------------
(* Frames. *)

NewerThanLatest(twap) ==
  \/ latest[twap.asset] = None
  \/ twap.publisher_ts >= latest[twap.asset].publisher_ts

(* handle_message trusts the symbol in the frame, not the subscription. *)
FiledUnder(a, twap) == twap.asset

(* A frame on the subscription of asset a with a verified average. *)
HandleUpdate(a, twap) ==
  /\ connection[a] = "streaming"
  /\ latest' = IF NewerThanLatest(twap)
               THEN [latest EXCEPT ![twap.asset] = twap] ELSE latest
  /\ history' = [history EXCEPT
                   ![FiledUnder(a, twap)] = Recorded(@, twap)]
  /\ UNCHANGED <<connection, attempt, status>>

Next ==
  \E a \in Assets :
    \/ Connect(a) \/ LoseConnection(a) \/ Retry(a)
    \/ FailGenerator(a) \/ CloseNormally(a) \/ StartGenerator(a)
    \/ \E twap \in Twap : HandleUpdate(a, twap)

Spec == Init /\ [][Next]_vars

(* A task's timers expire and its connection attempts end one way or the other. *)
Proceeds(a) ==
  Retry(a) \/ StartGenerator(a) \/ Connect(a) \/ LoseConnection(a) \/ FailGenerator(a)

(* ... and a server that is tried again and again answers now and then. *)
Fairness == \A a \in Assets : WF_vars(Proceeds(a)) /\ SF_vars(Connect(a))

FairSpec == Spec /\ Fairness

-----------------------------------------------------------------------------
(* Types of the collector's state: histories are bounded, and who backs off has an
   attempt left. *)
TypeOK ==
  /\ connection \in [Assets -> {"connecting", "streaming", "backoff", "waiting"}]
  /\ attempt \in [Assets -> 1..MaxAttempts]
  /\ \A a \in Assets : connection[a] = "backoff" => attempt[a] < MaxAttempts
  /\ status \in [Assets -> {"SUBSCRIBED", "ERROR"}]
  /\ history \in [Assets -> Seq(Twap)]
  /\ \A a \in Assets : Len(history[a]) <= HistoryLimit
  /\ latest \in [Assets -> Twap \cup {None}]

(* The history of an asset holds averages of that asset alone, although any frame may
   come on any subscription, and none of them is newer than the latest one, although
   frames come late and out of order (_record). *)
LatestIsNewest ==
  \A a \in Assets : \A i \in DOMAIN history[a] :
    /\ history[a][i].asset = a
    /\ latest[a] # None /\ latest[a].asset = a
    /\ history[a][i].publisher_ts <= latest[a].publisher_ts

(* The inductive invariant: an asset without a latest average has no history. *)
IInv ==
  /\ TypeOK /\ LatestIsNewest
  /\ \A a \in Assets : latest[a] # None => latest[a].asset = a

(* However often connections are lost and generators exhausted, each asset streams
   again, whatever happens to the others. *)
StreamsAgain == \A a \in Assets : []<>(connection[a] = "streaming")
=============================================================================
