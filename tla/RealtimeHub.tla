---------------------------- MODULE RealtimeHub ----------------------------
(* The in-process hub that fans events out to the open event streams of a   *)
(* member (realtime/hub.go), the stream handler that drains one             *)
(* subscription into one HTTP response (handler/realtime_handler.go), and   *)
(* the client that reconnects with the Last-Event-ID it has seen.           *)
(* An event is its id: the hub gives every published event the next one.    *)
EXTENDS Integers, Sequences, SequencesExt

CONSTANTS Users, Streams, UserOf, eventHistoryLimit, MaxEvents, MaxRestarts

\* A subscriber's channel holds as many events as the history keeps.
subscriberBuffer == eventHistoryLimit

VARIABLES
  subscribers,   \* the streams registered with the hub
  chan,          \* [Streams -> Seq(Nat)]: Subscriber.Ch
  history,       \* [Users -> Seq(Nat)]: the newest events of each member
  nextEventID,   \* the last id given out
  lock,          \* "free", or "held" by a Subscribe that waits for room
  broadcast,     \* the members a PublishToConnected has still to serve
  restarts,      \* how often the process has restarted
  lastEventID,   \* [Streams -> Nat]: what the client saw last (0: nothing)
  received,      \* [Streams -> Seq(Nat)]: what the client saw
  owed,          \* published for the client since its first event was seen
  missed         \* given up: buffer full, pushed out of history, restart

hubVars == <<subscribers, chan, history, nextEventID, lock, broadcast, restarts>>
clientVars == <<lastEventID, received, owed, missed>>
vars == <<subscribers, chan, history, nextEventID, lock, broadcast, restarts,
          lastEventID, received, owed, missed>>

(* The shape of the state. *)
TypeOK ==
  /\ subscribers \subseteq Streams
  /\ chan \in [Streams -> Seq(Nat)]
  /\ history \in [Users -> Seq(Nat)]
  /\ nextEventID \in Nat
  /\ lock \in {"free", "held"}
  /\ broadcast \subseteq Users
  /\ restarts \in 0..MaxRestarts
  /\ lastEventID \in [Streams -> Nat]
  /\ received \in [Streams -> Seq(Nat)]
  /\ owed \in [Streams -> SUBSET Nat]
  /\ missed \in [Streams -> SUBSET Nat]

NewHub ==
  /\ subscribers = {}
  /\ chan = [s \in Streams |-> <<>>]
  /\ history = [u \in Users |-> <<>>]
  /\ nextEventID = 0
  /\ lock = "free"
  /\ broadcast = {}

Init ==
  /\ NewHub
  /\ restarts = 0
  /\ lastEventID = [s \in Streams |-> 0]
  /\ received = [s \in Streams |-> <<>>]
  /\ owed = [s \in Streams |-> {}]
  /\ missed = [s \in Streams |-> {}]

----------------------------------------------------------------------------
\* Is the event newer than the one the client names?
eventID(id, last) == id > last

\* The loop of Subscribe over the member's history: what is newer is sent, in order.
Replay(h, last) ==
  LET sent[i \in 0..Len(h)] ==
        IF i = 0 THEN <<>>
        ELSE IF eventID(h[i], last) THEN Append(sent[i - 1], h[i]) ELSE sent[i - 1]
  IN sent[Len(h)]

\* Hub.Subscribe: register the stream and, for a client that names its last
\* event, send the newer part of the history into the new channel, under the
\* hub's lock.  A send that finds the channel full waits for a reader that only
\* starts after Subscribe returns, so the lock is never given back.
Subscribe(s) ==
  LET replay == IF lastEventID[s] > 0 THEN Replay(history[UserOf[s]], lastEventID[s]) ELSE <<>>
  IN /\ subscribers' = subscribers \cup {s}
     /\ chan' = [chan EXCEPT ![s] =
                   SubSeq(replay, 1, IF Len(replay) > subscriberBuffer
                                     THEN subscriberBuffer ELSE Len(replay))]
     /\ lock' = IF Len(replay) > subscriberBuffer THEN "held" ELSE "free"

\* RealtimeHandler.Stream up to the loop: the header decides about the replay.
Stream(s) ==
  /\ lock = "free"
  /\ s \notin subscribers
  /\ Subscribe(s)
  /\ UNCHANGED <<history, nextEventID, broadcast, restarts, clientVars>>

\* The loop writes the next event of the channel to the client.
Deliver(s) ==
  /\ s \in subscribers /\ lock = "free" /\ chan[s] # <<>>
  /\ chan' = [chan EXCEPT ![s] = Tail(@)]
  /\ lastEventID' = [lastEventID EXCEPT ![s] = Head(chan[s])]
  /\ received' = [received EXCEPT ![s] = Append(@, Head(chan[s]))]
  /\ UNCHANGED <<subscribers, history, nextEventID, lock, broadcast, restarts, owed, missed>>

\* Hub.Unsubscribe: the stream ends, with whatever its channel still holds.
Unsubscribe(s) ==
  /\ subscribers' = subscribers \ {s}
  /\ chan' = [chan EXCEPT ![s] = <<>>]

\* The request is cancelled or a write fails: the handler returns.  A client
\* that has seen no event has no Last-Event-ID to come back with.
Disconnect(s) ==
  /\ s \in subscribers /\ lock = "free"
  /\ Unsubscribe(s)
  /\ owed' = IF lastEventID[s] = 0 THEN [owed EXCEPT ![s] = {}] ELSE owed
  /\ missed' = [missed EXCEPT ![s] = @ \cup (ToSet(chan[s]) \ ToSet(history[UserOf[s]]))]
  /\ UNCHANGED <<history, nextEventID, lock, broadcast, restarts, lastEventID, received>>

\* The history keeps the newest eventHistoryLimit events.
Trim(h) ==
  IF Len(h) > eventHistoryLimit
  THEN SubSeq(h, Len(h) - eventHistoryLimit + 1, Len(h)) ELSE h

(* A faulty variant of Offer: a full channel gives up its oldest event. *)
OfferNewest(c, id) ==
  IF Len(c) < subscriberBuffer THEN Append(c, id) ELSE Append(Tail(c), id)

\* The non-blocking send of Publish: a full channel drops the event.
Offer(c, id) == IF Len(c) < subscriberBuffer THEN Append(c, id) ELSE c

\* Hub.Publish, one critical section: number the event, remember it, offer it
\* to every open stream of the member.
Publish(u) ==
  LET id == nextEventID + 1
      kept == Trim(Append(history[u], id))
      streams == {s \in Streams : UserOf[s] = u}
      gone(s) == {e \in owed[s] : /\ s \notin subscribers /\ e > lastEventID[s]
                                  /\ e \notin ToSet(kept)}
      full(s) == IF s \in subscribers /\ Len(chan[s]) >= subscriberBuffer THEN {id} ELSE {}
  IN /\ nextEventID' = id
     /\ history' = [history EXCEPT ![u] = kept]
     /\ chan' = [s \in Streams |-> IF s \in streams \cap subscribers
                                   THEN Offer(chan[s], id) ELSE chan[s]]
     /\ owed' = [s \in Streams |-> IF s \in streams /\ (s \in subscribers \/ lastEventID[s] > 0)
                                   THEN owed[s] \cup {id} ELSE owed[s]]
     /\ missed' = [s \in Streams |-> IF s \in streams
                                     THEN missed[s] \cup gone(s) \cup full(s) ELSE missed[s]]

\* A notifier publishes to one member.
PublishTo(u) ==
  /\ lock = "free" /\ nextEventID < MaxEvents
  /\ Publish(u)
  /\ UNCHANGED <<subscribers, lock, broadcast, restarts, lastEventID, received>>

\* Hub.PublishToConnected reads the connected members under the lock ...
PublishToConnected ==
  /\ lock = "free" /\ broadcast = {} /\ subscribers # {}
  /\ broadcast' = {UserOf[s] : s \in subscribers}
  /\ UNCHANGED <<subscribers, chan, history, nextEventID, lock, restarts, clientVars>>

\* ... and publishes to them one by one after giving it back.
PublishNext(u) ==
  /\ lock = "free" /\ u \in broadcast /\ nextEventID < MaxEvents
  /\ Publish(u)
  /\ broadcast' = broadcast \ {u}
  /\ UNCHANGED <<subscribers, lock, restarts, lastEventID, received>>

\* The process restarts.  NewHub starts from the clock in milliseconds, so the
\* ids go on from a later number as long as the members' events together have
\* been fewer than one a millisecond; history and channels are gone.
Restart ==
  /\ restarts < MaxRestarts
  /\ restarts' = restarts + 1
  /\ subscribers' = {} /\ broadcast' = {} /\ lock' = "free"
  /\ chan' = [s \in Streams |-> <<>>]
  /\ history' = [u \in Users |-> <<>>]
  /\ nextEventID' = nextEventID + 1
  /\ missed' = owed
  /\ UNCHANGED <<lastEventID, received, owed>>

Next ==
  \/ \E s \in Streams : Stream(s) \/ Deliver(s) \/ Disconnect(s)
  \/ \E u \in Users : PublishTo(u) \/ PublishNext(u)
  \/ PublishToConnected
  \/ Restart

Spec == Init /\ [][Next]_vars

----------------------------------------------------------------------------
(* Subscribing never waits for room while it holds the hub's lock, which    *)
(* would stop every stream and every publisher of the process               *)
(* (realtime/hub.go, Subscribe): the replay always fits the new channel.    *)
HubNeverWedged == lock = "free"

(* Whatever the reconnections, restarts and full buffers, a client sees     *)
(* events in the order of their ids and none of them twice (Subscribe,      *)
(* Publish, Stream).                                                        *)
SeenInOrder ==
  \A s \in Streams : \A i, j \in 1..Len(received[s]) :
    i < j => received[s][i] < received[s][j]

(* No event gets lost in silence: once a client has seen an event, every    *)
(* later one is seen, is in its channel, waits in the history for its       *)
(* reconnection, or was given up for one of the reasons the hub documents:  *)
(* a full buffer, a history's worth of newer events before it was read, or  *)
(* a restart.                                                               *)
NoSilentGap ==
  \A s \in Streams : \A e \in owed[s] :
    \/ e \in ToSet(received[s]) \cup missed[s]
    \/ s \in subscribers /\ e \in ToSet(chan[s])
    \/ s \notin subscribers /\ e \in ToSet(history[UserOf[s]]) /\ e > lastEventID[s]

(* A stream gets its member's events in order, without repetition and       *)
(* without a silent gap, and no subscriber can wedge the hub.               *)
StreamsAreFaithful == TypeOK /\ HubNeverWedged /\ SeenInOrder /\ NoSilentGap
=============================================================================
