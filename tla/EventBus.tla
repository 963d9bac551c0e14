------------------------------ MODULE EventBus ------------------------------
(***************************************************************************)
(* The in-process publish/subscribe bus of the orchestration layer         *)
(* (orchestration/event_bus.py).  A publisher appends to the bounded       *)
(* history and takes a snapshot of the subscribers' queues in one step,    *)
(* under the lock, and fills the queues one by one after it; a subscriber  *)
(* registers and takes a snapshot of the history in one step and fills its *)
(* own queue with it after that.  A full queue drops what is put.          *)
(***************************************************************************)
EXTENDS Naturals, Sequences, FiniteSets

CONSTANTS
  Publishers,   \* the threads that publish
  Payloads,     \* what they publish
  HistoryMax,   \* maxlen of _history
  QueueMax,     \* maxsize of a subscriber's Queue
  MaxSids       \* bound: subscriptions made in a run of the model

\* What is assumed of the constants; a module that takes an instance states it.
EventBusConstants ==
  /\ HistoryMax \in Nat \ {0}
  /\ QueueMax \in Nat \ {0}
  /\ MaxSids \in Nat

Sids == 1..MaxSids

VARIABLES
  history,    \* _history
  nextId,     \* _next_id
  subs,       \* the keys of _subs
  queue,      \* each subscription's Queue
  backlog,    \* what subscribe() has still to put into its own queue
  outbox,     \* what publish() has still to put into the queues of its snapshot
  published,  \* history variable: every event, in the order of the lock
  joined,     \* history variable: the backlog that a subscription started with
  got,        \* history variable: what a subscriber took from its queue
  lost        \* history variable: the events a full queue dropped

busVars == <<history, nextId, subs, queue, backlog, outbox>>
ghosts  == <<published, joined, got, lost>>
vars    == <<busVars, ghosts>>

NoEvent == [no |-> 0]
Idle == [event |-> NoEvent, to |-> {}]

Init ==
  /\ history = <<>>
  /\ nextId = 1
  /\ subs = {}
  /\ queue = [s \in Sids |-> <<>>]
  /\ backlog = [s \in Sids |-> <<>>]
  /\ outbox = [p \in Publishers |-> Idle]
  /\ published = <<>>
  /\ joined = [s \in Sids |-> <<>>]
  /\ got = [s \in Sids |-> <<>>]
  /\ lost = [s \in Sids |-> {}]

\* A deque with a maxlen drops its first element to make room.
Remembered(h, e) == IF Len(h) < HistoryMax THEN Append(h, e) ELSE Append(Tail(h), e)

\* Fault variant: a subscription is registered once its backlog is in place.
FaultyRegistered == {s \in subs : backlog[s] = <<>>}

\* The queues that publish() takes its snapshot of.
Registered == subs

Publish(p, load) ==
  LET e == [no |-> Len(published) + 1, load |-> load]
  IN  /\ outbox[p].to = {}
      /\ history' = Remembered(history, e)
      /\ outbox' = [outbox EXCEPT ![p] = [event |-> e, to |-> Registered]]
      /\ published' = Append(published, e)
      /\ UNCHANGED <<nextId, subs, queue, backlog, joined, got, lost>>

\* put_nowait: the queue may be full.
Put(s, e) ==
  IF Len(queue[s]) < QueueMax
  THEN queue' = [queue EXCEPT ![s] = Append(@, e)] /\ UNCHANGED lost
  ELSE lost' = [lost EXCEPT ![s] = @ \cup {e.no}] /\ UNCHANGED queue

\* publish() goes on with the next queue of its snapshot, also when that
\* subscriber has left since.
Deliver(p) ==
  /\ outbox[p].to # {}
  /\ LET s == CHOOSE t \in outbox[p].to : \A u \in outbox[p].to : t <= u
     IN  /\ Put(s, outbox[p].event)
         /\ outbox' = [outbox EXCEPT ![p].to = @ \ {s}]
  /\ UNCHANGED <<history, nextId, subs, backlog, published, joined, got>>

\* The publisher's call has returned.
Published(p) == outbox[p].to = {}

Subscribe ==
  /\ nextId \in Sids
  /\ nextId' = nextId + 1
  /\ subs' = subs \cup {nextId}
  /\ backlog' = [backlog EXCEPT ![nextId] = history]
  /\ joined' = [joined EXCEPT ![nextId] = history]
  /\ UNCHANGED <<history, queue, outbox, published, got, lost>>

\* The loop over the backlog; it ends at the first event that does not fit.
PutBacklog(s) ==
  /\ backlog[s] # <<>>
  /\ IF Len(queue[s]) < QueueMax
     THEN /\ Put(s, Head(backlog[s]))
          /\ backlog' = [backlog EXCEPT ![s] = Tail(@)]
     ELSE /\ lost' = [lost EXCEPT ![s] = @ \cup {backlog[s][i].no : i \in DOMAIN backlog[s]}]
          /\ backlog' = [backlog EXCEPT ![s] = <<>>]
          /\ UNCHANGED queue
  /\ UNCHANGED <<history, nextId, subs, outbox, published, joined, got>>

\* The subscriber has its queue once subscribe() has returned.
Get(s) ==
  /\ s \in subs /\ backlog[s] = <<>> /\ queue[s] # <<>>
  /\ got' = [got EXCEPT ![s] = Append(@, Head(queue[s]))]
  /\ queue' = [queue EXCEPT ![s] = Tail(@)]
  /\ UNCHANGED <<history, nextId, subs, backlog, outbox, published, joined, lost>>

Unsubscribe(s) ==
  /\ s \in subs /\ backlog[s] = <<>>
  /\ subs' = subs \ {s}
  /\ UNCHANGED <<history, nextId, queue, backlog, outbox, ghosts>>

SubscriberStep ==
  \/ Subscribe
  \/ \E s \in Sids : PutBacklog(s) \/ Get(s) \/ Unsubscribe(s)

Next ==
  \/ \E p \in Publishers : Deliver(p) \/ \E load \in Payloads : Publish(p, load)
  \/ SubscriberStep

Spec == Init /\ [][Next]_vars

-----------------------------------------------------------------------------
(* Properties                                                              *)

Event == [no : Nat \ {0}, load : Payloads]

TypeOK ==
  /\ history \in Seq(Event) /\ Len(history) <= HistoryMax
  /\ nextId \in 1..(MaxSids + 1)
  /\ subs \subseteq 1..(nextId - 1)
  /\ queue \in [Sids -> Seq(Event)]
  /\ \A s \in Sids : Len(queue[s]) <= QueueMax
  /\ backlog \in [Sids -> Seq(Event)]
  /\ \A p \in Publishers : outbox[p].to \subseteq Sids
  /\ \A p \in Publishers : outbox[p].to # {} => outbox[p].event \in Event
  /\ published \in Seq(Event)
  /\ got \in [Sids -> Seq(Event)]
  /\ lost \in [Sids -> SUBSET (Nat \ {0})]

\* The numbers of the events in a sequence.
Numbers(seq) == {seq[i].no : i \in DOMAIN seq}

\* The events on their way to s: in its backlog or in a publisher's hands.
UnderWay(s) ==
  Numbers(backlog[s]) \cup {outbox[p].event.no : p \in {r \in Publishers : s \in outbox[r].to}}

\* The first event that s should see: the oldest of the history it started
\* with, or the very first one if there was none.
FirstFor(s) == IF joined[s] = <<>> THEN 1 ELSE joined[s][1].no

\* Nothing falls between the backlog and the live feed, and nothing is in
\* both: for a subscriber that stays, every event from that one on has been
\* received, or is queued, or under way, or was dropped by its full queue,
\* and is in exactly one of these places (the locked parts of subscribe and
\* publish).
NothingBetween ==
  \A s \in subs :
    LET have == got[s] \o queue[s]
    IN  /\ Numbers(have) \cup UnderWay(s) \cup lost[s] = FirstFor(s)..Len(published)
        /\ Len(have) + Cardinality(UnderWay(s)) + Cardinality(lost[s])
             = Len(published) + 1 - FirstFor(s)

\* "If the queue fills from the backlog, drop the oldest items": when an
\* event of the backlog is dropped, so are all the older ones.
OldestDroppedFirst ==
  \A s \in Sids : \A i, j \in DOMAIN joined[s] :
    i < j /\ joined[s][j].no \in lost[s] => joined[s][i].no \in lost[s]
=============================================================================
