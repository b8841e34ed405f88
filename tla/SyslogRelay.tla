---------------------------- MODULE SyslogRelay ----------------------------
(***************************************************************************)
(* The syslog relay of a probe (agent/src/syslog_relay.rs and              *)
(* send_relay_logs in agent/src/client.rs): listeners put received lines   *)
(* into a bounded buffer, one forwarder task sends batches to the backend  *)
(* and puts a batch back when the backend cannot be reached, the heartbeat *)
(* loop switches the listeners on and off.                                 *)
(*                                                                         *)
(* A message is its number, in order of arrival, and its size.  Times are  *)
(* left out: the forwarder may wake whenever it is waiting.                *)
(***************************************************************************)
EXTENDS Naturals, Sequences, FiniteSets, SequencesExt

CONSTANTS
    MaxEntries, MaxBytes,           \* MAX_BUFFERED_ENTRIES, MAX_BUFFERED_BYTES
    RelayBatch, BatchMaxBytes,       \* BATCH_SIZE, BATCH_MAX_BYTES
    FlushInterval, RetryBackoffMax, \* FLUSH_INTERVAL, RETRY_BACKOFF_MAX
    MaxConnections,                 \* MAX_TCP_CONNECTIONS
    Ports,                          \* ports the server may configure
    NoRelay,                            \* no relay configured
    Sizes,                          \* sizes of messages
    MaxMessages,                    \* bound: messages received
    MaxStrays,                      \* bound: oversized messages, refused connections
    MaxFailures,                    \* bound: failed sends
    MaxApplies                      \* bound: config changes by the server

\* What the constants are assumed to be
RelayAssumption ==
    /\ MaxEntries \in Nat \ {0} /\ MaxBytes \in Nat \ {0}
    /\ RelayBatch \in Nat \ {0} /\ BatchMaxBytes \in Nat \ {0}
    /\ FlushInterval \in Nat \ {0}
    /\ RetryBackoffMax \in Nat /\ RetryBackoffMax >= FlushInterval
    /\ MaxConnections \in Nat \ {0}
    /\ Sizes \subseteq Nat \ {0}
    /\ NoRelay \notin Ports
    /\ MaxMessages \in Nat /\ MaxStrays \in Nat

VARIABLES
    entries, bytes,     \* RelayBuffer
    batch,              \* what the forwarder has taken and not yet settled
    failing, backoff,   \* locals of forward_loop
    received, forwarded, rejected, dropped, sendFailures,   \* counters of Shared
    uncounted,          \* lines discarded by push, not yet added to dropped
    strays,             \* auxiliary: what is in dropped without being in received
    current,            \* SyslogRelay.current
    listening,          \* the port listeners are bound to, or Off
    forwarder,          \* the forwarder task was spawned
    conns, tails,       \* TCP connections of the listener, and of stopped ones
    applies,
    stored, settled     \* auxiliary: ids the backend stored; ids discarded or refused

buffer == <<entries, bytes>>
counters == <<received, forwarded, rejected, dropped, sendFailures, uncounted, strays>>
net == <<current, listening, forwarder, conns, tails, applies>>
fwd == <<batch, failing, backoff>>
aux == <<stored, settled>>
relayVars == <<buffer, fwd, counters, net, aux>>

Min2(a, b) == IF a < b THEN a ELSE b
Ids(s) == {e.id : e \in ToSet(s)}
(* The bytes of every beginning of s, and of all of it.                    *)
Sums(s) ==
    LET sum[n \in 0..Len(s)] == IF n = 0 THEN 0 ELSE sum[n - 1] + s[n].size
    IN  sum
Bytes(s) == Sums(s)[Len(s)]
DropFirst(s, n) == SubSeq(s, n + 1, Len(s))

-----------------------------------------------------------------------------
(* RelayBuffer.                                                            *)

Fits(s, size) == Len(s) < MaxEntries /\ Bytes(s) + size <= MaxBytes

(* Mutant: make room by discarding one entry.                              *)
PushDrops_One(s, e) == IF Fits(s, e.size) \/ s = <<>> THEN 0 ELSE 1

(* push: discard the oldest until the new entry fits (or none is left).    *)
PushDrops(s, e) ==
    CHOOSE n \in 0..Len(s) :
        /\ n = Len(s) \/ Fits(DropFirst(s, n), e.size)
        /\ \A m \in 0..(n - 1) : ~Fits(DropFirst(s, m), e.size)
Push(s, e) == Append(DropFirst(s, PushDrops(s, e)), e)

(* Mutant: only the number of entries limits a batch.                      *)
BatchLen_Count(s) == Min2(Len(s), RelayBatch)

(* take_batch: the longest prefix within the limits, but at least one.     *)
BatchLen(s) ==
    CHOOSE n \in 0..Min2(Len(s), RelayBatch) :
        /\ n <= 1 \/ Bytes(SubSeq(s, 1, n)) <= BatchMaxBytes
        /\ \A m \in (n + 1)..Min2(Len(s), RelayBatch) :
              m > 1 /\ Bytes(SubSeq(s, 1, m)) > BatchMaxBytes

(* requeue_front: from the newest of the batch to its oldest, put back     *)
(* every entry that fits; what the buffer is after each of them.           *)
Refilled(b, s) ==
    LET back[n \in 0..Len(b)] ==
            IF n = 0 THEN s
            ELSE LET e == b[Len(b) - n + 1]
                     rest == back[n - 1]
                 IN  IF Fits(rest, e.size) THEN <<e>> \o rest ELSE rest
    IN  back
RequeueFront(b, s) == Refilled(b, s)[Len(b)]

-----------------------------------------------------------------------------
(* Listeners.                                                              *)

CanReceive == listening # NoRelay \/ tails > 0

(* Shared::accept, up to the release of the buffer lock.  A UDP datagram   *)
(* or a TCP frame; a connection of a stopped listener may still deliver    *)
(* until it looks at its stop flag.                                        *)
Receive(size) ==
    LET e == [id |-> received + 1, size |-> size]
        n == PushDrops(entries, e)
    IN  /\ CanReceive /\ received < MaxMessages
        /\ received' = received + 1
        /\ entries' = Push(entries, e)
        /\ bytes' = bytes + size - Bytes(SubSeq(entries, 1, n))
        /\ uncounted' = uncounted + n
        /\ settled' = settled \cup Ids(SubSeq(entries, 1, n))
        /\ UNCHANGED <<fwd, forwarded, rejected, dropped, sendFailures, strays, net, stored>>

(* ... and the dropped counter after it.                                   *)
CountDropped ==
    /\ uncounted > 0
    /\ dropped' = dropped + uncounted
    /\ uncounted' = 0
    /\ UNCHANGED <<buffer, fwd, received, forwarded, rejected, sendFailures, strays, net, aux>>

(* An oversized message, or a stream that cannot be framed.                *)
DropStray ==
    /\ CanReceive /\ strays < MaxStrays
    /\ strays' = strays + 1
    /\ dropped' = dropped + 1
    /\ UNCHANGED <<buffer, fwd, received, forwarded, rejected, sendFailures, uncounted, net, aux>>

(* Mutant: connections of stopped listeners are not counted.               *)
Connect_OwnOnly ==
    /\ listening # NoRelay
    /\ conns < MaxConnections
    /\ conns' = conns + 1
    /\ UNCHANGED <<buffer, fwd, counters, current, listening, forwarder, tails, applies, aux>>

(* tcp_accept_loop: past the limit a connection is refused and counted.    *)
Connect ==
    /\ listening # NoRelay
    /\ \/ /\ conns + tails < MaxConnections
          /\ conns' = conns + 1
          /\ UNCHANGED <<dropped, strays>>
       \/ /\ conns + tails >= MaxConnections /\ strays < MaxStrays
          /\ dropped' = dropped + 1 /\ strays' = strays + 1
          /\ UNCHANGED conns
    /\ UNCHANGED <<buffer, fwd, received, forwarded, rejected, sendFailures, uncounted,
                   current, listening, forwarder, tails, applies, aux>>

Disconnect ==
    /\ \/ conns > 0 /\ conns' = conns - 1 /\ UNCHANGED tails
       \/ tails > 0 /\ tails' = tails - 1 /\ UNCHANGED conns
    /\ UNCHANGED <<buffer, fwd, counters, current, listening, forwarder, applies, aux>>

-----------------------------------------------------------------------------
(* forward_loop.                                                           *)

(* Mutant: the forwarder stops with the listeners.                         *)
TakeBatch_WhileListening ==
    /\ forwarder /\ batch = <<>> /\ entries # <<>> /\ listening # NoRelay
    /\ LET n == BatchLen(entries)
       IN  /\ batch' = SubSeq(entries, 1, n)
           /\ entries' = DropFirst(entries, n)
           /\ bytes' = bytes - Bytes(SubSeq(entries, 1, n))
    /\ UNCHANGED <<failing, backoff, counters, net, aux>>

TakeBatch ==
    /\ forwarder /\ batch = <<>> /\ entries # <<>>
    /\ LET n == BatchLen(entries)
       IN  /\ batch' = SubSeq(entries, 1, n)
           /\ entries' = DropFirst(entries, n)
           /\ bytes' = bytes - Bytes(SubSeq(entries, 1, n))
    /\ UNCHANGED <<failing, backoff, counters, net, aux>>

Settle ==
    /\ batch' = <<>>
    /\ failing' = FALSE /\ backoff' = FlushInterval
    /\ UNCHANGED <<buffer, received, dropped, sendFailures, uncounted, strays, net>>

(* Mutant: what the backend did not accept is not counted.                 *)
Done_AcceptedOnly ==
    /\ batch # <<>>
    /\ \E S \in SUBSET Ids(batch) :
        /\ stored' = stored \cup S
        /\ settled' = settled \cup (Ids(batch) \ S)
        /\ forwarded' = forwarded + Cardinality(S)
    /\ UNCHANGED rejected
    /\ Settle

(* A success answer: the backend stored S and says how many, or says       *)
(* nothing readable and is taken to have stored all.                       *)
Done ==
    /\ batch # <<>>
    /\ \E S \in SUBSET Ids(batch) :
        /\ stored' = stored \cup S
        /\ settled' = settled \cup (Ids(batch) \ S)
        /\ \E accepted \in {Cardinality(S), Len(batch)} :
            /\ forwarded' = forwarded + accepted
            /\ rejected' = rejected + (Len(batch) - accepted)
    /\ Settle

(* A 4xx resending cannot fix.                                             *)
Refused ==
    /\ batch # <<>>
    /\ rejected' = rejected + Len(batch)
    /\ settled' = settled \cup Ids(batch)
    /\ UNCHANGED <<forwarded, stored>>
    /\ Settle

(* Mutant: the delay doubles without a limit.                              *)
NextBackoff_Unlimited == IF failing THEN 2 * backoff ELSE FlushInterval
NextBackoff == IF failing THEN Min2(2 * backoff, RetryBackoffMax) ELSE FlushInterval

(* Any other answer, none at all, or a lost one (then the backend may have *)
(* stored the batch): back into the buffer.                                *)
SendFails ==
    /\ batch # <<>> /\ sendFailures < MaxFailures
    /\ sendFailures' = sendFailures + 1
    /\ \E S \in {{}, Ids(batch)} : stored' = stored \cup S
    /\ LET back == RequeueFront(batch, entries)
           lost == Ids(batch) \ Ids(back)
       IN  /\ entries' = back
           /\ bytes' = Bytes(back)
           /\ dropped' = dropped + Cardinality(lost)
           /\ settled' = settled \cup lost
    /\ batch' = <<>>
    /\ backoff' = NextBackoff
    /\ failing' = TRUE
    /\ UNCHANGED <<received, forwarded, rejected, uncounted, strays, net>>

-----------------------------------------------------------------------------
(* Mutant: a new config starts with an empty buffer.                       *)
Apply_Clears(cfg) ==
    /\ applies < MaxApplies
    /\ cfg # current
    /\ applies' = applies + 1
    /\ current' = cfg /\ listening' = cfg /\ forwarder' = TRUE
    /\ entries' = <<>> /\ bytes' = 0
    /\ tails' = tails + conns /\ conns' = 0
    /\ UNCHANGED <<fwd, counters, aux>>

(* SyslogRelay::apply with the config of the latest heartbeat: nothing to  *)
(* do, or stop the listeners and start anew.  A failed bind is tried again *)
(* by a later heartbeat with the same config.                              *)
Apply(cfg) ==
    /\ applies < MaxApplies
    /\ ~(cfg = current /\ (cfg = NoRelay \/ listening # NoRelay))
    /\ applies' = applies + 1
    /\ current' = cfg
    /\ tails' = tails + conns /\ conns' = 0
    /\ \E bound \in BOOLEAN :
        IF cfg # NoRelay /\ bound
        THEN listening' = cfg /\ forwarder' = TRUE
        ELSE listening' = NoRelay /\ UNCHANGED forwarder
    /\ UNCHANGED <<buffer, fwd, counters, aux>>

(* Nothing to do for anybody until a line or a heartbeat comes in (the     *)
(* bounds on those are used up).                                           *)
Waiting == entries = <<>> /\ batch = <<>> /\ uncounted = 0 /\ UNCHANGED relayVars

RelayInit ==
    /\ entries = <<>> /\ bytes = 0 /\ batch = <<>>
    /\ failing = FALSE /\ backoff = FlushInterval
    /\ received = 0 /\ forwarded = 0 /\ rejected = 0 /\ dropped = 0 /\ sendFailures = 0
    /\ uncounted = 0 /\ strays = 0
    /\ current = NoRelay /\ listening = NoRelay /\ forwarder = FALSE
    /\ conns = 0 /\ tails = 0 /\ applies = 0
    /\ stored = {} /\ settled = {}

RelayNext ==
    \/ \E size \in Sizes : Receive(size)
    \/ CountDropped \/ DropStray \/ Connect \/ Disconnect
    \/ TakeBatch \/ Done \/ Refused \/ SendFails
    \/ \E cfg \in Ports \cup {NoRelay} : Apply(cfg)
    \/ Waiting

RelaySpec == RelayInit /\ [][RelayNext]_relayVars

(* Tokio runs every task that can run, and an answer comes for every       *)
(* request (the client has a timeout).                                     *)
RelayFairness == WF_relayVars(TakeBatch) /\ WF_relayVars(Done \/ Refused \/ SendFails) /\ WF_relayVars(CountDropped)
RelayFairSpec == RelaySpec /\ RelayFairness

-----------------------------------------------------------------------------
(* Properties.                                                             *)

Entry == [id : 1..MaxMessages, size : Sizes]
RelayTypeOK ==
    /\ entries \in Seq(Entry) /\ batch \in Seq(Entry)
    /\ bytes \in Nat
    /\ failing \in BOOLEAN /\ backoff \in FlushInterval..RetryBackoffMax
    /\ received \in 0..MaxMessages /\ strays \in 0..MaxStrays
    /\ {forwarded, rejected, dropped, sendFailures, uncounted} \subseteq Nat
    /\ current \in Ports \cup {NoRelay} /\ listening \in {NoRelay, current}
    /\ forwarder \in BOOLEAN
    /\ conns \in 0..MaxConnections /\ tails \in 0..MaxConnections
    /\ stored \subseteq 1..received /\ settled \subseteq 1..received

(* The heartbeat's counters add up: every received line is forwarded,      *)
(* rejected, dropped, buffered or under way, across failed sends, buffer   *)
(* overflow and the switching of the relay.                                *)
Accounted ==
    received + strays =
        forwarded + rejected + dropped + uncounted + Len(entries) + Len(batch)

(* RelayBuffer's own byte count is exact, and the caps hold up to one line *)
(* that is larger than the cap by itself.                                  *)
BufferBounded ==
    /\ bytes = Bytes(entries)
    /\ Len(entries) <= MaxEntries
    /\ bytes <= MaxBytes \/ Len(entries) = 1

(* Lines leave in the order they came: a batch under way is older than     *)
(* everything buffered, also after batches were put back.                  *)
InOrder ==
    LET line == batch \o entries
    IN  \A i, j \in 1..Len(line) : i < j => line[i].id < line[j].id

(* What is under way fits the backend's limit per request.                 *)
BatchWithinLimits == Len(batch) <= RelayBatch /\ (Len(batch) > 1 => Bytes(batch) <= BatchMaxBytes)

(* A stopped listener's connections and the new one's share the limit.     *)
ConnectionsBounded == conns + tails <= MaxConnections

(* The counters add up and every cap holds, in the buffer, in the batch    *)
(* under way and over the connections.                                     *)
BufferSound == Accounted /\ BufferBounded /\ BatchWithinLimits /\ ConnectionsBounded

(* The relay implements the delivery contract: no line disappears without  *)
(* having been stored or counted.                                          *)
Contract == INSTANCE Delivery WITH
    Messages <- 1..MaxMessages,
    pending <- Ids(entries) \cup Ids(batch),
    delivered <- stored,
    discarded <- settled \ stored
AtLeastOnce == Contract!Spec

(* Whatever was received is handed over in the end, also after the relay   *)
(* was switched off ("it delivers what is still buffered").                *)
Empty == entries = <<>> /\ batch = <<>> /\ uncounted = 0
Drains == []<>Empty

=============================================================================
