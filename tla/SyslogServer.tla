--------------------------- MODULE SyslogServer ----------------------------
(***************************************************************************)
(* The write pipeline of the syslog server (services/syslog.py): datagrams *)
(* go through a bounded queue and a worker, lines of TCP connections and   *)
(* entries of agents and probes directly, into one buffer; one flusher     *)
(* takes the whole buffer and inserts it into ClickHouse outside the lock. *)
(* An insert that failed goes back in front of what has arrived since.     *)
(* The server is stopped and started again when its port is changed.       *)
(*                                                                         *)
(* Nothing is awaited while _buffer_lock is held, so an _enqueue is one    *)
(* step of the event loop; _insert_lock is held while batch is not empty.  *)
(* A message is the number it got on arrival.  wait_closed (Python 3.12)   *)
(* returns once no connection is left.                                     *)
(***************************************************************************)
EXTENDS Naturals, Sequences, FiniteSets, SequencesExt, FiniteSetsExt

CONSTANTS
    QueueMax,       \* _UDP_QUEUE_MAX
    BatchSize,      \* _BUFFER_SIZE
    BufferMax,      \* _BUFFER_MAX
    MaxConns,       \* _MAX_TCP_CONNECTIONS
    MaxMsg,         \* bound: messages
    MaxFaults,      \* bound: failed inserts
    MaxStops        \* bound: stops

VARIABLES
    server,         \* up, closing (wait_closed), draining, final, down
    conns,          \* _tcp_connection_count
    queue,          \* _udp_queue
    buffer,         \* _buffer
    inline,         \* who awaits _flush_buffer in an _enqueue without a flusher: post, drain
    batch,          \* the batch of the insert under way
    by,             \* ... and who holds _insert_lock for it: flusher, post, drain, final
    stored,         \* rows of syslog_messages, in the order they were inserted
    sources,        \* channel each message came by: udp, tcp, http
    dropped,        \* messages counted as dropped
    lost,           \* messages whose insert was cancelled
    faults, doubtful, stops

serverVars == <<server, conns, queue, buffer, inline, batch, by, stored, sources, dropped, lost, faults, doubtful, stops>>

Flusher == server \in {"up", "closing"}
Number == Len(sources) + 1
Arrives(c) == Len(sources) < MaxMsg /\ sources' = Append(sources, c)

(* _trim_buffer_locked: the oldest go.                                     *)
Trimmed(s) ==
    LET over == IF Len(s) > BufferMax THEN Len(s) - BufferMax ELSE 0
    IN [kept |-> SubSeq(s, over + 1, Len(s)), gone |-> ToSet(SubSeq(s, 1, over))]
SetBuffer(s) == buffer' = Trimmed(s).kept /\ dropped' = dropped \cup Trimmed(s).gone

(* _enqueue: without a flusher a full buffer is written there and then.    *)
Enqueue(m, caller) ==
    /\ SetBuffer(Append(buffer, m))
    /\ inline' = IF ~Flusher /\ Len(Trimmed(Append(buffer, m)).kept) >= BatchSize
                    THEN inline \cup {caller} ELSE inline

(* datagram_received: queued, or counted as dropped.                       *)
Datagram ==
    /\ server = "up" /\ Arrives("udp")
    /\ IF Len(queue) < QueueMax
         THEN queue' = Append(queue, Number) /\ dropped' = dropped
         ELSE dropped' = dropped \cup {Number} /\ queue' = queue
    /\ UNCHANGED <<server, conns, buffer, inline, batch, by, stored, lost, faults, doubtful, stops>>
(* _udp_worker.                                                            *)
Worker ==
    /\ Flusher /\ queue # <<>>
    /\ queue' = Tail(queue) /\ Enqueue(Head(queue), "worker")
    /\ UNCHANGED <<server, conns, batch, by, stored, sources, lost, faults, doubtful, stops>>
(* SyslogTCPHandler.handle: connect, a line, the end of the connection.    *)
Connect ==
    /\ server = "up" /\ conns < MaxConns /\ conns' = conns + 1
    /\ UNCHANGED <<server, queue, buffer, inline, batch, by, stored, sources, dropped, lost, faults, doubtful, stops>>
Line ==
    /\ conns > 0 /\ Arrives("tcp") /\ Enqueue(Number, "tcp")
    /\ UNCHANGED <<server, conns, queue, batch, by, stored, lost, faults, doubtful, stops>>
Disconnect ==
    /\ conns > 0 /\ conns' = conns - 1
    /\ UNCHANGED <<server, queue, buffer, inline, batch, by, stored, sources, dropped, lost, faults, doubtful, stops>>
(* An entry of /api/agent/logs: the HTTP server runs on whatever happens   *)
(* to the listeners.                                                       *)
Post ==
    /\ Arrives("http") /\ Enqueue(Number, "post")
    /\ UNCHANGED <<server, conns, queue, batch, by, stored, lost, faults, doubtful, stops>>

(* _flush_buffer, by the flusher, by a caller of _enqueue, or the last one *)
(* of stop: the whole buffer is taken under the lock.                      *)
Flushers ==
    inline \cup (IF Flusher THEN {"flusher"} ELSE {}) \cup (IF server = "final" THEN {"final"} ELSE {})
(* Mutant: an insert under way is not waited for.                          *)
Flush_NoLock(w) ==
    /\ w \in Flushers /\ buffer # <<>>
    /\ batch' = buffer /\ buffer' = <<>> /\ by' = w
    /\ UNCHANGED <<server, conns, queue, inline, stored, sources, dropped, lost, faults, doubtful, stops>>
(* Mutant: only a full batch is flushed.                                   *)
Flush_Full(w) ==
    /\ w \in Flushers /\ batch = <<>> /\ Len(buffer) >= BatchSize
    /\ batch' = buffer /\ buffer' = <<>> /\ by' = w
    /\ UNCHANGED <<server, conns, queue, inline, stored, sources, dropped, lost, faults, doubtful, stops>>
Flush(w) ==
    /\ w \in Flushers /\ batch = <<>> /\ buffer # <<>>
    /\ batch' = buffer /\ buffer' = <<>> /\ by' = w
    /\ UNCHANGED <<server, conns, queue, inline, stored, sources, dropped, lost, faults, doubtful, stops>>
(* Whose flush it was goes on; stop has nothing after its own.             *)
Done(w) ==
    /\ inline' = inline \ {w}
    /\ server' = IF w = "final" THEN "down" ELSE server
    /\ UNCHANGED <<conns, queue, sources, lost, stops>>
(* Nothing left to flush when the lock is free.                            *)
Nothing(w) ==
    /\ w \in Flushers \ {"flusher"} /\ batch = <<>> /\ buffer = <<>>
    /\ Done(w)
    /\ UNCHANGED <<buffer, batch, by, stored, dropped, faults, doubtful>>
InsertOk ==
    /\ batch # <<>>
    /\ stored' = stored \o batch /\ batch' = <<>> /\ Done(by)
    /\ UNCHANGED <<buffer, by, dropped, faults, doubtful>>
(* _write_batch: insert_batch raised, with the rows stored or not.         *)
(* Mutant: put behind what has arrived since.                              *)
PutBack_Behind == buffer \o batch
PutBack == batch \o buffer
InsertFails ==
    /\ batch # <<>> /\ faults < MaxFaults /\ faults' = faults + 1
    /\ \/ stored' = stored /\ doubtful' = doubtful
       \/ stored' = stored \o batch /\ doubtful' = doubtful + 1
    /\ SetBuffer(PutBack) /\ batch' = <<>> /\ by' = by /\ Done(by)

(* stop_syslog_server: no new datagrams and connections ...                *)
Stop ==
    /\ server = "up" /\ stops < MaxStops /\ stops' = stops + 1
    /\ server' = "closing"
    /\ UNCHANGED <<conns, queue, buffer, inline, batch, by, stored, sources, dropped, lost, faults, doubtful>>
(* ... once the connections are gone the flusher and the worker are        *)
(* cancelled: CancelledError is no Exception, so a batch that is being     *)
(* inserted is not put back, whether or not ClickHouse stores it.          *)
Cancel ==
    /\ server = "closing" /\ conns = 0
    /\ server' = "draining"
    /\ LET cut == IF by = "flusher" THEN batch ELSE <<>>
       IN /\ batch' = IF by = "flusher" THEN <<>> ELSE batch
          /\ \/ stored' = stored /\ lost' = lost \cup ToSet(cut)
             \/ cut # <<>> /\ stored' = stored \o cut /\ lost' = lost
    /\ by' = by
    /\ UNCHANGED <<conns, queue, buffer, inline, sources, dropped, faults, doubtful, stops>>
(* ... what is queued goes into the buffer ...                             *)
(* Mutant: the queue is forgotten.                                         *)
Drain_Forgotten ==
    /\ server = "draining" /\ "drain" \notin inline
    /\ queue' = <<>> /\ server' = "final"
    /\ UNCHANGED <<conns, buffer, inline, batch, by, stored, sources, dropped, lost, faults, doubtful, stops>>
Drain ==
    /\ server = "draining" /\ "drain" \notin inline
    /\ IF queue # <<>>
         THEN queue' = Tail(queue) /\ Enqueue(Head(queue), "drain") /\ server' = server
         ELSE server' = "final" /\ UNCHANGED <<queue, buffer, inline, dropped>>
    /\ UNCHANGED <<conns, batch, by, stored, sources, lost, faults, doubtful, stops>>
(* ... and is flushed (Flush).  start_syslog_server: a new queue, flusher  *)
(* and worker; the buffer is the same.                                     *)
Start ==
    /\ server = "down"
    /\ server' = "up" /\ queue' = <<>>
    /\ UNCHANGED <<conns, buffer, inline, batch, by, stored, sources, dropped, lost, faults, doubtful, stops>>

ServerInit ==
    /\ server = "up" /\ conns = 0 /\ queue = <<>> /\ buffer = <<>> /\ inline = {} /\ batch = <<>> /\ by = "flusher"
    /\ stored = <<>> /\ sources = <<>> /\ dropped = {} /\ lost = {}
    /\ faults = 0 /\ doubtful = 0 /\ stops = 0
ServerNext ==
    \/ Datagram \/ Worker \/ Connect \/ Line \/ Disconnect \/ Post
    \/ \E w \in {"flusher", "post", "drain", "final"} : Flush(w) \/ Nothing(w)
    \/ InsertOk \/ InsertFails
    \/ Stop \/ Cancel \/ Drain \/ Start
ServerSpec == ServerInit /\ [][ServerNext]_serverVars
(* The event loop runs every task that is ready, and an insert ends; that  *)
(* clients disconnect is not assumed.                                      *)
ServerFairness ==
    /\ WF_serverVars(Worker) /\ WF_serverVars(InsertOk)
    /\ WF_serverVars(\E w \in Flushers : Flush(w) \/ Nothing(w))
    /\ WF_serverVars(Cancel) /\ WF_serverVars(Drain) /\ WF_serverVars(Start)
ServerFairSpec == ServerSpec /\ ServerFairness

-----------------------------------------------------------------------------
(* Properties.                                                             *)

Msgs == 1..Len(sources)
Waiting == queue \o batch \o buffer

ServerTypeOK ==
    /\ server \in {"up", "closing", "draining", "final", "down"}
    /\ conns \in 0..MaxConns /\ inline \subseteq {"post", "drain"}
    /\ Len(queue) <= QueueMax /\ Len(buffer) <= BufferMax
    /\ ToSet(Waiting) \cup ToSet(stored) \cup dropped \cup lost \subseteq Msgs

(* Every message that came in waits in exactly one place, is stored, is    *)
(* counted as dropped, or was being inserted when the server was stopped;  *)
(* one that is stored and still waits belongs to an insert that failed     *)
(* after it was done, and no message is stored more often than that.       *)
Accounted ==
    /\ Msgs = ToSet(Waiting) \cup ToSet(stored) \cup dropped \cup lost
    /\ IsInjective(Waiting)
    /\ stops = 0 => lost = {}
    /\ \A m \in Msgs : Len(SelectSeq(stored, LAMBDA x : x = m)) <= 1 + doubtful

(* The rows of one channel are stored in the order the messages came in,   *)
(* through failed inserts, the hard cap, a stop and a start: the first     *)
(* copy of a message lies behind the first copies of all before it.        *)
Firsts(s) == SelectSeq([i \in 1..Len(s) |-> IF \E j \in 1..(i - 1) : s[j] = s[i] THEN 0 ELSE s[i]], LAMBDA x : x # 0)
StoredInOrder ==
    LET s == Firsts(stored \o batch \o buffer \o queue)
    IN \A i, j \in 1..Len(s) : i < j /\ sources[s[i]] = sources[s[j]] => s[i] < s[j]

(* What is in the pipeline of a running server leaves it: stored, counted, *)
(* or cancelled by a stop.                                                 *)
Drained == server = "up" => Msgs \subseteq ToSet(stored) \cup dropped \cup lost
PipelineDrains == []<>Drained

(* What the docstring of stop_syslog_server says: "Stop syslog listeners   *)
(* and flush remaining buffer".                                            *)
NothingLost == lost = {}

-----------------------------------------------------------------------------
(***************************************************************************)
(* Whose a log message is (services/syslog.py): the direct listener feeds  *)
(* the default tenant and accepts only while the installation is known to  *)
(* have one; messages of a probe and of an agent carry its tenant and      *)
(* site.  The host is looked up in caches of all hosts, filed by tenant    *)
(* and by site under their names, the first label of a full name, and      *)
(* their addresses, and refreshed every _HOST_CACHE_TTL seconds.           *)
(*                                                                         *)
(* A cache is a function of the hosts it was filed from.  Reverse DNS, the *)
(* rate limits and the parsing of a line are left out.                     *)
(***************************************************************************)
CONSTANTS
    Tenants,        \* 1 is LISTENER_TENANT_ID
    Sites,
    Hosts,          \* host ids, in the order the refresh reads them
    AllowlistOnly,  \* syslog_allowlist_only
    MaxEdits        \* bound: hosts changed or deleted, tenants created or suspended

(* Ids of tenants and hosts are positive, and there are finitely many      *)
(* hosts.                                                                  *)
HostsAssumption == 0 \notin Tenants /\ Hosts \subseteq Nat \ {0} /\ IsFiniteSet(Hosts) /\ AllowlistOnly \in BOOLEAN

VARIABLES
    hosts,          \* the hosts in the database
    filed,          \* the hosts of the last refresh that succeeded: the caches
    active,         \* number of active tenants
    known,          \* _active_tenant_count; 0 is None
    seen,           \* the number the last refresh counted; 0 before the first
    enforced,       \* _allowlist_only, of the last refresh
    edits

hostsVars == <<hosts, filed, active, known, seen, enforced, edits>>

Names == {"gw", "gw.a", "gw.b"}       \* "gw" is the first label of the others
Addresses == {"private", "public"}
Label(n) == IF n \in {"gw.a", "gw.b"} THEN "gw" ELSE "no label"
Absent == [tenant |-> 0, site |-> 0, name |-> "none", address |-> "none"]
Records == {Absent} \cup [tenant: Tenants, site: Sites, name: Names, address: Addresses]

(* _refresh_host_cache: the hosts a key of tenant t is filed for.  A first *)
(* label only where it is no key of its own and one host has it.           *)
Exact(t, k) == {h \in Hosts : filed[h].tenant = t /\ k \in {filed[h].name, filed[h].address}}
Labelled(t, k) == {h \in Hosts : filed[h].tenant = t /\ Label(filed[h].name) = k}
(* Mutant: the first label of every full name is filed.                    *)
Owners_AllLabels(t, k) == IF Exact(t, k) = {} THEN Labelled(t, k) ELSE Exact(t, k)
Owners(t, k) ==
    LET exact == Exact(t, k)  labelled == Labelled(t, k) IN
    IF exact = {} /\ Cardinality(labelled) = 1 THEN labelled ELSE exact
(* The last host that is filed under a key keeps it; 0 is none.            *)
LastOf(S) == IF S = {} THEN 0 ELSE Max(S)
HostCache(t, k) == LastOf(Owners(t, k))
SiteCache(t, s, k) == LastOf({h \in Owners(t, k) : filed[h].site = s})
CrossSite(t, k) == Cardinality({filed[h].site : h \in Owners(t, k)}) > 1

(* _site_fallback_ok.                                                      *)
(* Mutant: keys of several sites are not excepted.                         *)
SiteFallbackOk_Cross(t, k) == k # "private"
SiteFallbackOk(t, k) == ~CrossSite(t, k) /\ k # "private"

(* _lookup: by name, else by address; cache maps a key to a host or 0.     *)
Lookup(cache(_), n, a) == LET named == cache(n) IN IF named # 0 THEN named ELSE cache(a)
Fallback(t, k) == IF SiteFallbackOk(t, k) THEN HostCache(t, k) ELSE 0

(* _resolve_host_id: of the listener, tenant-wide ...                      *)
ListenerHost(n, a) == Lookup(LAMBDA k : HostCache(1, k), n, a)
(* ... and of a relayed message, its site first.                           *)
RelayedHost(t, s, n, a) ==
    LET own == Lookup(LAMBDA k : SiteCache(t, s, k), n, a)
    IN IF own # 0 THEN own ELSE Lookup(LAMBDA k : Fallback(t, k), n, a)
(* resolve_agent_host_id: by name, else by an address of its own site; a   *)
(* public one only where all hosts are in one site.                        *)
(* Mutant: a public address counts although there are several sites.       *)
AgentHost_AnyPublic(t, s, n, a) ==
    LET named == RelayedHost(t, s, n, "none") IN IF named # 0 THEN named ELSE SiteCache(t, s, a)
AgentHost(t, s, n, a) ==
    LET named == RelayedHost(t, s, n, "none")
        several == Cardinality({filed[h].site : h \in {g \in Hosts : filed[g].tenant = t}}) > 1
    IN IF named # 0 THEN named ELSE IF a = "public" /\ several THEN 0 ELSE SiteCache(t, s, a)

(* _is_allowed_source, of a relayed message.                               *)
Allowed(t, s, a) ==
    \/ ~enforced
    \/ SiteCache(t, s, a) # 0
    \/ SiteFallbackOk(t, a) /\ HostCache(t, a) # 0

(* _listener_accepts, in mode auto.                                        *)
ListenerAccepts == known = 1

(* _refresh_host_cache: the count is kept at once, the caches once the     *)
(* rest of it succeeded.                                                   *)
(* Mutant: the count too only then.                                        *)
Refresh_Late ==
    /\ seen' = active
    /\ \/ filed' = hosts /\ enforced' = AllowlistOnly /\ known' = active
       \/ UNCHANGED <<filed, enforced, known>>
    /\ UNCHANGED <<hosts, active, edits>>
Refresh ==
    /\ seen' = active /\ known' = active
    /\ \/ filed' = hosts /\ enforced' = AllowlistOnly
       \/ UNCHANGED <<filed, enforced>>
    /\ UNCHANGED <<hosts, active, edits>>
(* A host moves to another site or is deleted; tenants come and go.        *)
Change(h) ==
    /\ edits < MaxEdits /\ edits' = edits + 1
    /\ hosts[h] # Absent
    /\ \E r \in {Absent} \cup {[hosts[h] EXCEPT !.site = s] : s \in Sites} : hosts' = [hosts EXCEPT ![h] = r]
    /\ UNCHANGED <<filed, active, known, seen, enforced>>
TenantChange ==
    /\ edits < MaxEdits /\ edits' = edits + 1
    /\ active' = 3 - active
    /\ UNCHANGED <<hosts, filed, known, seen, enforced>>

HostsInit ==
    /\ hosts \in [Hosts -> Records] /\ filed = [h \in Hosts |-> Absent]
    /\ active = 1 /\ known = 0 /\ seen = 0 /\ enforced = FALSE /\ edits = 0
HostsNext ==
    \/ Refresh \/ TenantChange
    \/ \E h \in Hosts : Change(h)
HostsSpec == HostsInit /\ [][HostsNext]_hostsVars

-----------------------------------------------------------------------------
(* Properties.                                                             *)

HostsTypeOK ==
    /\ hosts \in [Hosts -> Records] /\ filed \in [Hosts -> Records]
    /\ known \in 0..2 /\ enforced \in BOOLEAN

(* A host carries key k, by name, first label or address.                  *)
Carries(h, k) == k \in {filed[h].name, Label(filed[h].name), filed[h].address}
OfTenant(t) == {h \in Hosts : filed[h].tenant = t}

(* A relayed message is attributed to a host of the probe's tenant that    *)
(* carries its name or address, and to one of another site only where the  *)
(* key is not a private address and no third site has a host filed under   *)
(* it; a first label names a host only when no other host of the tenant    *)
(* has it.  An agent's own log is never attributed by an address to a host *)
(* of another site, nor by a public one where the tenant has several.      *)
RightHost(t, s, h, k) ==
    /\ filed[h].tenant = t /\ Carries(h, k)
    /\ \/ filed[h].site = s
       \/ k # "private" /\ \A g \in OfTenant(t) : k \in {filed[g].name, filed[g].address} => filed[g].site = filed[h].site
    /\ k \notin {filed[h].name, filed[h].address} => \A g \in OfTenant(t) \ {h} : ~Carries(g, k)
RightAgent(t, s, n, a, h) ==
    \/ RightHost(t, s, h, n)
    \/ filed[h].site = s /\ filed[h].tenant = t /\ filed[h].address = a
       /\ (a = "public" => \A g \in OfTenant(t) : filed[g].site = s)
Attributed ==
    \A t \in Tenants, s \in Sites, n \in Names \cup {"none"}, a \in Addresses :
        /\ LET h == RelayedHost(t, s, n, a)
           IN h # 0 => RightHost(t, s, h, n) \/ RightHost(t, s, h, a)
        /\ LET h == AgentHost(t, s, n, a) IN h # 0 => RightAgent(t, s, n, a, h)

(* With the allowlist enforced a relayed message is taken only from an     *)
(* address some host of its own tenant has, and a private one only from a  *)
(* host of its own site.                                                   *)
AllowlistHolds ==
    enforced => \A t \in Tenants, s \in Sites, a \in Addresses :
        Allowed(t, s, a) => \E h \in OfTenant(t) : filed[h].address = a /\ (a = "private" => filed[h].site = s)

(* From the first refresh on that saw a second tenant, failed in its later *)
(* part or not, until one that saw a single tenant, the direct listener    *)
(* accepts nothing; nor before the first.                                  *)
ListenerCloses == ListenerAccepts = (seen = 1)
=============================================================================
