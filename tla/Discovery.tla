----------------------------- MODULE Discovery -----------------------------
(***************************************************************************)
(* How hosts get into the table without anybody typing them in, and out of *)
(* it again: subnet scans that add what answers and is not monitored yet   *)
(* (routers/subnet_scanner.py), the hosts of a virtualisation platform,    *)
(* and the job that resolves names and merges duplicates (resolve_host_dns *)
(* in scheduler.py).  Scans and the job look at the table, wait for the    *)
(* network, and write what they concluded.                                 *)
(***************************************************************************)
EXTENDS Naturals, FiniteSets, FiniteSetsExt

CONSTANTS
    Addresses,
    Names,
    Scanners,       \* "job", the scheduled scans, and requests
    MaxHosts,       \* bound: hosts ever made
    MaxChanges      \* bound: scans and what people and the platform do

VARIABLES
    hosts,          \* rows: id, source, hostname, name, ip_address
    nextId,
    ptr,            \* address -> the name in reverse DNS, or Unknown
    schedule,       \* the scheduled scan: whether there is one, is enabled, and adds hosts
    scan,           \* scanner -> what it is doing and is about to add
    snap,           \* what the DNS job has read, as a set of at most one
    owed,           \* addresses that were monitored and that nobody took away
    overlapped,     \* two scans were adding hosts at once
    raced,          \* a row went or moved while the DNS job was resolving
    changes

scanVars == <<hosts, nextId, ptr, schedule, scan, snap, owed, overlapped, raced, changes>>
Unknown == "?"
Job == "job"
Auto == {"scanner", "manual"}
Watched(hs) == {a \in Addresses : \E h \in hs : h.host = a \/ h.ip = a}
Bounded == changes < MaxChanges /\ changes' = changes + 1
Room == nextId < MaxHosts
Kept == owed' = owed \cup Watched(hosts')
Without(h) == owed' = (owed \ {h.host, h.ip}) \cup Watched(hosts')

(* _build_monitored_index and _match_host: by address, by full or short    *)
(* name of reverse DNS; a host's ip_address is not looked at.              *)
Match(a, hs) == \E h \in hs : {a, ptr[a]} \cap {h.host, h.name} # {}
Missing_ByName(found, hs) == {a \in found : ptr[a] \notin {h.name : h \in hs}}
Missing(found, hs) == {a \in found : ~Match(a, hs) /\ a \notin {h.host : h \in hs}}
Found(a, id) == [id |-> id, source |-> "scanner", host |-> a, ip |-> Unknown,
                 name |-> IF ptr[a] # Unknown THEN ptr[a] ELSE a]
Order(as) == CHOOSE f \in [as -> 1..Cardinality(as)] : \A x, y \in as : f[x] = f[y] => x = y

Fresh == [there |-> TRUE, on |-> TRUE, auto |-> TRUE]
Idle == [at |-> "idle", auto |-> FALSE, add |-> {}]
ScanInit ==
    /\ hosts = {} /\ nextId = 0
    /\ ptr \in [Addresses -> Names \cup {Unknown}]
    /\ schedule = Fresh
    /\ scan = [s \in Scanners |-> Idle]
    /\ snap = {}
    /\ owed = {} /\ overlapped = FALSE /\ raced = FALSE /\ changes = 0

(* run_scheduled_scans, of one that is due, and run_schedule_now, enabled  *)
(* or not: the pings.  A scan that fails is logged and stays due.          *)
StartScan(s) ==
    /\ Bounded
    /\ scan[s].at = "idle" /\ schedule.there
    /\ scan' = [scan EXCEPT ![s] = [at |-> "ping", auto |-> schedule.auto, add |-> {}]]
    /\ UNCHANGED <<hosts, nextId, ptr, schedule, snap, owed, overlapped, raced>>
RunScheduled == schedule.on /\ StartScan(Job)
RunNow(s) == s # Job /\ StartScan(s)
ScanFails(s) ==
    /\ scan[s].at = "ping"
    /\ scan' = [scan EXCEPT ![s] = Idle]
    /\ UNCHANGED <<hosts, nextId, ptr, schedule, snap, owed, overlapped, raced, changes>>

(* When the pings are through, auto_add_hosts: the table is read, and what *)
(* is missing of the addresses that have answered is committed.            *)
PingsEnd(s, found) ==
    /\ scan[s].at = "ping"
    /\ scan' = [scan EXCEPT ![s] = IF @.auto THEN [@ EXCEPT !.at = "add", !.add = Missing(found, hosts)] ELSE [@ EXCEPT !.at = "stats"]]
    /\ overlapped' = (overlapped \/ \E q \in Scanners \ {s} : scan[q].at = "add")
    /\ UNCHANGED <<hosts, nextId, ptr, schedule, snap, owed, raced, changes>>
AddCommits(s) ==
    /\ scan[s].at = "add"
    /\ nextId + Cardinality(scan[s].add) <= MaxHosts
    /\ LET order == Order(scan[s].add) IN hosts' = hosts \cup {Found(a, nextId + order[a]) : a \in scan[s].add}
    /\ nextId' = nextId + Cardinality(scan[s].add)
    /\ scan' = [scan EXCEPT ![s] = [@ EXCEPT !.at = "stats", !.add = {}]]
    /\ Kept
    /\ UNCHANGED <<ptr, schedule, snap, overlapped, raced, changes>>
(* The statistics of the schedule and the log, which change no host.       *)
ScanEnds(s) ==
    /\ scan[s].at = "stats"
    /\ scan' = [scan EXCEPT ![s] = Idle]
    /\ UNCHANGED <<hosts, nextId, ptr, schedule, snap, owed, overlapped, raced, changes>>

(* api_add_hosts: addresses a person picked from a scan.                   *)
AddPicked(a) ==
    /\ Bounded /\ Room
    /\ a \notin {h.host : h \in hosts}
    /\ hosts' = hosts \cup {Found(a, nextId + 1)}
    /\ nextId' = nextId + 1 /\ Kept
    /\ overlapped' = (overlapped \/ \E s \in Scanners : scan[s].at = "add")
    /\ UNCHANGED <<ptr, schedule, scan, snap, raced>>
(* The schedule, created, changed and deleted.                             *)
EditSchedule(before, after) ==
    /\ Bounded
    /\ schedule.there = before /\ schedule' = after
    /\ UNCHANGED <<hosts, nextId, ptr, scan, snap, owed, overlapped, raced>>
CreateSchedule == EditSchedule(FALSE, Fresh)
DeleteSchedule == EditSchedule(TRUE, [Fresh EXCEPT !.there = FALSE])
ToggleSchedule == EditSchedule(TRUE, [schedule EXCEPT !.auto = ~@]) \/ EditSchedule(TRUE, [schedule EXCEPT !.on = ~@])

(* People add hosts by name or by address and delete hosts; the platform   *)
(* reports a guest with its name and address, and moves it.                *)
AddHost(source, host, ip) ==
    /\ Bounded /\ Room
    /\ hosts' = hosts \cup {[id |-> nextId + 1, source |-> source, host |-> host, name |-> host, ip |-> ip]}
    /\ nextId' = nextId + 1 /\ Kept
    /\ UNCHANGED <<ptr, schedule, scan, snap, overlapped, raced>>
Remove(h) ==
    /\ Bounded
    /\ h \in hosts /\ hosts' = hosts \ {h} /\ Without(h)
    /\ raced' = (raced \/ snap # {})
    /\ UNCHANGED <<nextId, ptr, schedule, scan, snap, overlapped>>
MoveGuest(h, a) ==
    /\ Bounded
    /\ h \in hosts /\ h.source = "infra" /\ h.ip # a
    /\ hosts' = (hosts \ {h}) \cup {[h EXCEPT !.ip = a]} /\ Without(h)
    /\ raced' = (raced \/ snap # {})
    /\ UNCHANGED <<nextId, ptr, schedule, scan, snap, overlapped>>
-----------------------------------------------------------------------------
(* resolve_host_dns.  Owner: ip_to_host, in which the last row wins.       *)
Owner(a, hs) == LET own == {h \in hs : h.ip = a /\ h.source # "scanner"} IN
                IF own = {} THEN 0 ELSE Max({h.id : h \in own})
Covered_Itself(h, hs) == LET a == IF h.ip # Unknown THEN h.ip ELSE h.host IN
    h.host \in Addresses /\ h.source \in Auto /\ Owner(a, hs) # 0
Covered(h, hs) == LET a == IF h.ip # Unknown THEN h.ip ELSE h.host IN
    h.host \in Addresses /\ h.source \in Auto /\ Owner(a, hs) \notin {0, h.id}
(* The row a host becomes: named by reverse DNS, or found by its name.     *)
Resolved(h, fwd) ==
    IF h.host \in Addresses
    THEN [h EXCEPT !.name = IF h.source \in Auto /\ ptr[h.host] # Unknown THEN ptr[h.host] ELSE @,
                   !.ip = IF @ = Unknown THEN h.host ELSE @]
    ELSE [h EXCEPT !.ip = IF @ = Unknown /\ h.source # "infra" THEN fwd ELSE @]

JobReads ==
    /\ snap = {} /\ snap' = {hosts}
    /\ UNCHANGED <<hosts, nextId, ptr, schedule, scan, owed, overlapped, raced, changes>>
(* The commit: columns that differ from what was read, and the deletions.  *)
(* A row to be updated that is gone fails the whole of it.                 *)
JobEnds(fwd) ==
    /\ \E hs \in snap :
         LET merged == {h \in hs : Covered(h, hs)}
             after(h) == Resolved(h, fwd)
             touched == {h \in hs \ merged : after(h) # h}
             now(id) == {r \in hosts : r.id = id}
         IN  IF \A h \in touched : now(h.id) # {}
             THEN hosts' = {IF \E h \in touched : h.id = r.id
                            THEN LET h == CHOOSE x \in touched : x.id = r.id IN
                                 [r EXCEPT !.name = IF after(h).name # h.name THEN after(h).name ELSE @,
                                           !.ip = IF after(h).ip # h.ip THEN after(h).ip ELSE @]
                            ELSE r : r \in {x \in hosts : \A m \in merged : m.id # x.id}}
             ELSE UNCHANGED hosts
    /\ snap' = {}
    /\ Kept
    /\ UNCHANGED <<nextId, ptr, schedule, scan, overlapped, raced, changes>>

ScanNext ==
    \/ RunScheduled
    \/ \E s \in Scanners : RunNow(s) \/ ScanFails(s) \/ AddCommits(s) \/ ScanEnds(s)
                           \/ \E found \in SUBSET Addresses : PingsEnd(s, found)
    \/ \E a \in Addresses : AddPicked(a)
    \/ CreateSchedule \/ ToggleSchedule \/ DeleteSchedule
    \/ \E a \in Addresses : AddHost("manual", a, Unknown)
    \/ \E n \in Names : AddHost("manual", n, Unknown) \/ \E a \in Addresses : AddHost("infra", n, a)
    \/ \E h \in hosts : Remove(h) \/ \E a \in Addresses : MoveGuest(h, a)
    \/ JobReads
    \/ \E fwd \in Addresses \cup {Unknown} : JobEnds(fwd)
ScanSpec == ScanInit /\ [][ScanNext]_scanVars
-----------------------------------------------------------------------------
Rows == [id : 1..MaxHosts, source : Auto \cup {"infra"}, host : Addresses \cup Names,
         name : Addresses \cup Names, ip : Addresses \cup {Unknown}]
ScanTypeOK ==
    /\ hosts \subseteq Rows /\ nextId \in 0..MaxHosts
    /\ ptr \in [Addresses -> Names \cup {Unknown}]
    /\ schedule \in [there : BOOLEAN, on : BOOLEAN, auto : BOOLEAN]
    /\ scan \in [Scanners -> [at : {"idle", "ping", "add", "stats"}, auto : BOOLEAN, add : SUBSET Addresses]]
    /\ snap \subseteq SUBSET Rows /\ owed \subseteq Addresses
    /\ overlapped \in BOOLEAN /\ raced \in BOOLEAN /\ changes \in 0..MaxChanges

(* Merging never loses an address: one that was monitored is monitored     *)
(* until somebody takes its host away or moves it, however rows of several *)
(* sources claim it, unless that happens while the job is resolving.       *)
NotLost == raced \/ owed \subseteq Watched(hosts)
(* Scans do not add an address twice, whatever was added since, unless two *)
(* of them were adding at once.                                            *)
NoTwins == overlapped \/ \A g, h \in hosts : g.source = "scanner" /\ h.source = "scanner" /\ g.host = h.host => g = h

-----------------------------------------------------------------------------
(***************************************************************************)
(* The ports found open on a host and what people decide about them        *)
(* (services/port_discovery.py, routers/ping.py).  A scan looks at the     *)
(* network with no session open, reads the rows and commits what differs.  *)
(***************************************************************************)
CONSTANTS
    Ports,
    PortScanners,       \* the job and requests
    MaxPortChanges      \* bound: decisions, edits and ports that open and close

VARIABLES
    net,            \* port -> Closed, Plain, or Tls
    rows,           \* port -> its row: known, last_open, has_ssl, status, ssl_status
    host,           \* check_type and port
    portScan,           \* scanner -> what it is doing, saw, and has read
    seen,           \* what the last scan to commit saw, as a set of at most one
    portsOverlapped,     \* two scans had read the rows at once
    several,        \* two ports were accepted, or the check was edited away
    portChanges

portsVars == <<net, rows, host, portScan, seen, portsOverlapped, several, portChanges>>
Closed == 0
Plain == 1
Tls == 2
None == "none"
PortJob == "job"
IsTls(x) == x = Tls
New == [known |-> FALSE, open |-> FALSE, tls |-> FALSE, status |-> "new", ssl |-> "new"]
PortsBounded == portChanges < MaxPortChanges /\ portChanges' = portChanges + 1
Or(types) == IF types = {} THEN {"icmp"} ELSE types
NoPortScan == [at |-> "idle", saw |-> [p \in Ports |-> Closed], read |-> [p \in Ports |-> New]]

PortsInit ==
    /\ net \in [Ports -> {Closed, Plain, Tls}]
    /\ rows = [p \in Ports |-> New]
    /\ host = [types |-> {"icmp"}, port |-> None]
    /\ portScan = [s \in PortScanners |-> NoPortScan]
    /\ seen = {}
    /\ portsOverlapped = FALSE /\ several = FALSE /\ portChanges = 0

(* scan_host_ports, for the job that scans all hosts and for a request;    *)
(* then the rows as upsert_discovered_ports reads them.                    *)
Scan(s) ==
    /\ portScan[s].at = "idle"
    /\ portScan' = [portScan EXCEPT ![s] = [@ EXCEPT !.at = "scanned", !.saw = net]]
    /\ UNCHANGED <<net, rows, host, seen, portsOverlapped, several, portChanges>>
RunPortDiscovery == Scan(PortJob)
TriggerPortScan(s) == s # PortJob /\ Scan(s)
ReadRows(s) ==
    /\ portScan[s].at = "scanned"
    /\ portScan' = [portScan EXCEPT ![s] = [@ EXCEPT !.at = "read", !.read = rows]]
    /\ portsOverlapped' = (portsOverlapped \/ \E q \in PortScanners : portScan[q].at = "read")
    /\ UNCHANGED <<net, rows, host, seen, several, portChanges>>
(* The commit: a row per open port, the columns that differ from what was  *)
(* read; the unique index refuses a row that another scan has inserted.    *)
After_OpenOnly(old, r, x) ==
    CASE x = Closed -> r
      [] x # Closed /\ old.known -> [r EXCEPT !.open = TRUE, !.tls = @ \/ IsTls(x)]
      [] OTHER -> [New EXCEPT !.known = TRUE, !.open = TRUE, !.tls = IsTls(x)]
After(old, r, x) ==
    CASE x = Closed -> IF old.known /\ old.open THEN [r EXCEPT !.open = FALSE] ELSE r
      [] x # Closed /\ old.known -> [r EXCEPT !.open = IF old.open THEN @ ELSE TRUE, !.tls = @ \/ IsTls(x)]
      [] OTHER -> [New EXCEPT !.known = TRUE, !.open = TRUE, !.tls = IsTls(x)]
Upsert(s) == LET saw == portScan[s].saw  read == portScan[s].read IN
    /\ portScan[s].at = "read"
    /\ IF \E p \in Ports : saw[p] # Closed /\ ~read[p].known /\ rows[p].known
       THEN UNCHANGED <<rows, seen>>
       ELSE rows' = [p \in Ports |-> After(read[p], rows[p], saw[p])] /\ seen' = {saw}
    /\ portScan' = [portScan EXCEPT ![s] = NoPortScan]
    /\ UNCHANGED <<net, host, portsOverlapped, several, portChanges>>

(* update_discovered_port.                                                 *)
MonitorPort(p) ==
    /\ PortsBounded /\ rows[p].known
    /\ host' = [host EXCEPT !.types = @ \cup {"tcp"}, !.port = IF @ = None THEN p ELSE @]
    /\ rows' = [rows EXCEPT ![p].status = "monitored"]
    /\ several' = (several \/ host.port \notin {None, p})
    /\ UNCHANGED <<net, portScan, seen, portsOverlapped>>
UnmonitorPort_Row(p) ==
    /\ PortsBounded /\ rows[p].known
    /\ host' = [host EXCEPT !.types = Or(@ \ {"tcp"})]
    /\ UNCHANGED <<net, rows, portScan, seen, portsOverlapped, several>>
UnmonitorPort(p) ==
    /\ PortsBounded /\ rows[p].known
    /\ host' = [host EXCEPT !.types = Or(@ \ {"tcp"})]
    /\ rows' = [rows EXCEPT ![p].status = "new"]
    /\ several' = (several \/ \E q \in Ports \ {p} : rows[q].status = "monitored")
    /\ UNCHANGED <<net, portScan, seen, portsOverlapped>>
MonitorSsl(p) ==
    /\ PortsBounded /\ rows[p].known
    /\ host' = [host EXCEPT !.types = @ \cup {"https"}]
    /\ rows' = [rows EXCEPT ![p].ssl = "monitored"]
    /\ UNCHANGED <<net, portScan, seen, portsOverlapped, several>>
UnmonitorSsl(p) ==
    /\ PortsBounded /\ rows[p].known
    /\ host' = [host EXCEPT !.types = Or(@ \ {"https"})]
    /\ rows' = [rows EXCEPT ![p].ssl = "new"]
    /\ UNCHANGED <<net, portScan, seen, portsOverlapped, several>>
Dismiss(p) ==
    /\ PortsBounded /\ rows[p].known
    /\ \/ rows' = [rows EXCEPT ![p].status = "dismissed"]
       \/ rows' = [rows EXCEPT ![p].ssl = "dismissed"]
    /\ UNCHANGED <<net, host, portScan, seen, portsOverlapped, several>>
(* The host edited: its ways of being checked.                             *)
EditHost(types) ==
    /\ PortsBounded /\ types # host.types
    /\ host' = [host EXCEPT !.types = types]
    /\ several' = (several \/ "tcp" \notin types)
    /\ UNCHANGED <<net, rows, portScan, seen, portsOverlapped>>

(* The host opens and closes ports.                                        *)
Network(p, x) ==
    /\ PortsBounded
    /\ x # net[p] /\ net' = [net EXCEPT ![p] = x]
    /\ UNCHANGED <<rows, host, portScan, seen, portsOverlapped, several>>

PortsNext ==
    \/ RunPortDiscovery
    \/ \E s \in PortScanners : TriggerPortScan(s) \/ ReadRows(s) \/ Upsert(s)
    \/ \E p \in Ports : \/ MonitorPort(p) \/ UnmonitorPort(p) \/ MonitorSsl(p) \/ UnmonitorSsl(p) \/ Dismiss(p)
                        \/ \E x \in {Closed, Plain, Tls} : Network(p, x)
    \/ \E types \in {{"https"}, {"icmp", "https"}, {"icmp", "tcp"}} : EditHost(types)
PortsSpec == PortsInit /\ [][PortsNext]_portsVars
-----------------------------------------------------------------------------
Marks == [known : BOOLEAN, open : BOOLEAN, tls : BOOLEAN, status : {"new", "monitored", "dismissed"}, ssl : {"new", "monitored", "dismissed"}]
Nets == [Ports -> {Closed, Plain, Tls}]
PortsTypeOK ==
    /\ net \in Nets /\ rows \in [Ports -> Marks]
    /\ host \in [types : SUBSET {"icmp", "tcp", "https"} \ {{}}, port : Ports \cup {None}]
    /\ \A s \in PortScanners : portScan[s].at \in {"idle", "scanned", "read"} /\ portScan[s].saw \in Nets /\ portScan[s].read \in [Ports -> Marks]
    /\ seen \subseteq Nets
    /\ portsOverlapped \in BOOLEAN /\ several \in BOOLEAN /\ portChanges \in 0..MaxPortChanges

(* After a scan the table shows the ports as it found them, though people  *)
(* decided about them meanwhile, unless two scans overlapped: then one may *)
(* fail on the other's rows, or leave a mark that it took to be right.     *)
PortsTrue == \A saw \in seen : portsOverlapped \/ \A p \in Ports :
    rows[p].open = (saw[p] # Closed) /\ (saw[p] # Closed => rows[p].known)
(* A port shown as monitored is checked: the host has a tcp check, and of  *)
(* that port, unless a second port was accepted or the check edited away.  *)
MonitoredChecked == several \/ \A p \in Ports :
    rows[p].status = "monitored" => "tcp" \in host.types /\ host.port = p
=============================================================================
