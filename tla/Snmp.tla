---------------------------------- MODULE Snmp ----------------------------------
(***************************************************************************)
(* SNMP (services/snmp.py, routers/snmp.py): the catalogue of names that   *)
(* MIB files give to OIDs, and the polls.  An import reads the catalogue   *)
(* entry by entry and commits at the end; an OID belongs to the MIB that   *)
(* named it first.  The scheduled polls work through a list of configs     *)
(* they have read, whose objects belong to a session that is closed: what  *)
(* poll_host notes on them is not stored.                                  *)
(***************************************************************************)
EXTENDS Naturals, FiniteSets

CONSTANTS
    Mibs,
    Nodes,          \* names that a MIB may define
    Importers,      \* requests that upload, seed or delete
    Configs,        \* hosts with an SNMP config, in the order of the list
    Interval,       \* poll_interval
    MaxTime, MaxChanges

VARIABLES
    tree,           \* MIB -> node -> the parent it is defined under in the file, or Absent
    mibs,           \* snmp_mibs
    owner,          \* node -> the MIB whose entry names it, or Nobody
    work,           \* importer -> what it is doing
    deleted,        \* nodes whose entry went with a MIB that was deleted
    overlapped,     \* two requests changed the catalogue at once
    cache,          \* get_oid_name -> the nodes it knows, and how long ago it read them
    time,
    config,         \* config -> enabled, there at all, and last_poll as stored
    list,           \* run_snmp_polls -> the configs still to look at, as it read them
    results,        \* configs with a result
    changes

catVars == <<tree, mibs, owner, work, deleted, overlapped, cache>>
pollVars == <<config, list, results>>
vars == <<catVars, time, pollVars, changes>>
Root == "root"
Absent == "absent"
Nobody == "nobody"
Never == 0
Bounded == changes < MaxChanges /\ changes' = changes + 1
Still == mibs = {} /\ \A w \in Importers : work[w].at = "idle"  \* bound: the polls, which use no name, run before the imports
Followed == ~overlapped /\ list = <<>>  \* bound: after requests that overlapped no other begins, nor during the polls

(* parse_mib_text: resolve follows the parents, in the file or well-known, *)
(* and gives up in a circle; the nodes that have an OID.                   *)
Resolves(t, n) ==
    LET up[x \in Nodes \cup {Root, Absent}, seen \in SUBSET Nodes] ==
            CASE x = Root -> TRUE
              [] x = Absent -> FALSE
              [] x \in Nodes -> x \notin seen /\ up[t[x], seen \cup {x}]
    IN  up[n, {}]
Defines(m) == {n \in Nodes : tree[m][n] # Absent /\ Resolves(tree[m], n)}
Reference(t) == {n \in Nodes : \E len \in 1..Cardinality(Nodes) : \E path \in [1..len -> Nodes] :
    path[1] = n /\ t[path[len]] = Root /\ \A i \in 1..(len - 1) : t[path[i]] = path[i + 1]}

Idle == [at |-> "idle", mib |-> Nobody, add |-> {}, read |-> {}]
Init ==
    /\ tree \in [Mibs -> [Nodes -> Nodes \cup {Root, Absent}]]
    /\ mibs = {} /\ owner = [n \in Nodes |-> Nobody]
    /\ work = [w \in Importers |-> Idle]
    /\ deleted = {} /\ overlapped = FALSE
    /\ cache = [names |-> {}, at |-> Never]
    /\ time = 1
    /\ config = [c \in Configs |-> [there |-> TRUE, on |-> TRUE, last |-> Never]]
    /\ list = <<>>
    /\ results = {}
    /\ changes = 0

(* import_mib of an uploaded file, up to the commit: what the MIB had is   *)
(* deleted, and what no other MIB has named is added.                      *)
Missing_Fresh(m) == {n \in Defines(m) : owner[n] = Nobody}
Missing(m) == {n \in Defines(m) : owner[n] \in {Nobody, m}}
Import(w, m) ==
    /\ Bounded
    /\ Followed /\ work[w] = Idle
    /\ work' = [work EXCEPT ![w] = [at |-> "import", mib |-> m, add |-> Missing(m), read |-> mibs]]
    /\ overlapped' = (overlapped \/ \E v \in Importers : work[v] # Idle)
    /\ UNCHANGED <<tree, mibs, owner, deleted, cache, time, pollVars>>
(* The commit.  A row that another request has inserted meanwhile, or the  *)
(* MIB gone that was to be updated, fails the whole of it.                 *)
Fails(w) == LET m == work[w].mib  fresh == m \notin work[w].read IN
    \/ \E n \in work[w].add : owner[n] \notin {Nobody, m}
    \/ fresh /\ m \in mibs
    \/ work[w].at = "import" /\ ~fresh /\ m \notin mibs
ImportEnds(w) == LET m == work[w].mib  add == work[w].add IN
    /\ work[w].at \in {"import", "add"}
    /\ IF Fails(w)
       THEN UNCHANGED <<mibs, owner, deleted>>
       ELSE /\ owner' = [n \in Nodes |-> IF n \in add THEN m ELSE IF work[w].at = "import" /\ owner[n] = m THEN Nobody ELSE owner[n]]
            /\ mibs' = IF m \in work[w].read THEN mibs ELSE mibs \cup {m}
            /\ deleted' = deleted \ add
    /\ work' = [work EXCEPT ![w] = Idle]
    /\ UNCHANGED <<tree, overlapped, cache, time, pollVars, changes>>
(* api_import_from_library: of a MIB that is not there, whose file takes   *)
(* its time to arrive and is imported, or a page of it, from which only    *)
(* what has no name yet is added.                                          *)
Unnamed(m) == {n \in Defines(m) : owner[n] = Nobody}
Download(w, m) ==
    /\ Bounded
    /\ Followed /\ work[w] = Idle /\ m \notin mibs
    /\ work' = [work EXCEPT ![w] = [at |-> "download", mib |-> m, add |-> {}, read |-> mibs]]
    /\ overlapped' = (overlapped \/ \E v \in Importers : work[v] # Idle)
    /\ UNCHANGED <<tree, mibs, owner, deleted, cache, time, pollVars>>
Downloaded(w) == LET m == work[w].mib IN
    /\ work[w].at = "download"
    /\ \/ work' = [work EXCEPT ![w] = [at |-> "import", mib |-> m, add |-> Missing(m), read |-> mibs]]
       \/ work' = [work EXCEPT ![w] = [@ EXCEPT !.at = "add", !.add = Unnamed(m)]]
       \/ work' = [work EXCEPT ![w] = Idle]
    /\ UNCHANGED <<tree, mibs, owner, deleted, overlapped, cache, time, pollVars, changes>>
(* seed_default_oids, of the built-in names of a MIB.                      *)
Seed(w, m) ==
    /\ Bounded
    /\ Followed /\ work[w] = Idle
    /\ work' = [work EXCEPT ![w] = [at |-> "add", mib |-> m, add |-> Unnamed(m), read |-> mibs]]
    /\ overlapped' = (overlapped \/ \E v \in Importers : work[v] # Idle)
    /\ UNCHANGED <<tree, mibs, owner, deleted, cache, time, pollVars>>
(* api_delete_mib: the entries and the MIB, in two statements.             *)
DeleteOids(w, m) ==
    /\ Bounded
    /\ Followed /\ work[w] = Idle /\ m \in mibs
    /\ work' = [work EXCEPT ![w] = [at |-> "delete", mib |-> m, add |-> {n \in Nodes : owner[n] = m}, read |-> mibs]]
    /\ overlapped' = (overlapped \/ \E v \in Importers : work[v] # Idle)
    /\ UNCHANGED <<tree, mibs, owner, deleted, cache, time, pollVars>>
DeleteEnds(w) == LET m == work[w].mib IN
    /\ work[w].at = "delete"
    /\ owner' = [n \in Nodes |-> IF n \in work[w].add /\ owner[n] = m THEN Nobody ELSE owner[n]]
    /\ mibs' = mibs \ {m}
    /\ deleted' = deleted \cup work[w].add
    /\ work' = [work EXCEPT ![w] = Idle]
    /\ UNCHANGED <<tree, overlapped, cache, time, pollVars, changes>>
(* get_oid_name: the names are read again when they are older than the     *)
(* interval of the cache.                                                  *)
NameOids ==
    /\ time - cache.at > Interval
    /\ cache' = [names |-> {n \in Nodes : owner[n] # Nobody}, at |-> time]
    /\ UNCHANGED <<tree, mibs, owner, work, deleted, overlapped, time, pollVars, changes>>
-----------------------------------------------------------------------------
(* run_snmp_polls: the enabled configs; then each that is due by what was  *)
(* read.  A host that does not answer leaves nothing behind.               *)
ListConfigs ==
    /\ list = <<>> /\ Still
    /\ list' = [c \in {x \in Configs : config[x].there /\ config[x].on} |-> config[c].last]
    /\ UNCHANGED <<catVars, time, config, results, changes>>
Due(last) == last = Never \/ time >= last + Interval
PollHost(c, answers) == results' = IF answers THEN results \cup {c} ELSE results
Look(c, answers) ==
    /\ c \in DOMAIN list /\ \A d \in DOMAIN list : c <= d
    /\ PollHost(c, Due(list[c]) /\ answers)
    /\ list' = [d \in DOMAIN list \ {c} |-> list[d]]
    /\ UNCHANGED <<catVars, time, config, changes>>
(* api_poll_host: in the session of the request, which stores last_poll.   *)
PollByHand(c, answers) ==
    /\ Bounded /\ Still /\ config[c].there
    /\ config' = IF answers THEN [config EXCEPT ![c].last = time] ELSE config
    /\ PollHost(c, answers)
    /\ UNCHANGED <<catVars, time, list>>
(* api_add_snmp_host, api_update_snmp_host, api_remove_snmp_host.          *)
EditConfig(c) ==
    /\ Bounded /\ Still
    /\ \/ config[c].there /\ config' = [config EXCEPT ![c].on = ~@]
       \/ config[c].there /\ config' = [config EXCEPT ![c] = [there |-> FALSE, on |-> FALSE, last |-> Never]]
       \/ ~config[c].there /\ config' = [config EXCEPT ![c] = [there |-> TRUE, on |-> TRUE, last |-> Never]]
    /\ UNCHANGED <<catVars, time, list, results>>

Tick ==
    /\ time < MaxTime /\ time' = time + 1
    /\ UNCHANGED <<catVars, pollVars, changes>>

Next ==
    \/ \E w \in Importers : \/ ImportEnds(w) \/ Downloaded(w) \/ DeleteEnds(w)
                            \/ \E m \in Mibs : Import(w, m) \/ Download(w, m) \/ Seed(w, m) \/ DeleteOids(w, m)
    \/ NameOids \/ ListConfigs \/ Tick
    \/ \E c \in Configs : EditConfig(c) \/ \E answers \in BOOLEAN : Look(c, answers) \/ PollByHand(c, answers)
    \/ changes = MaxChanges /\ UNCHANGED vars
Spec == Init /\ [][Next]_vars
-----------------------------------------------------------------------------
TypeOK ==
    /\ tree \in [Mibs -> [Nodes -> Nodes \cup {Root, Absent}]]
    /\ mibs \subseteq Mibs /\ owner \in [Nodes -> Mibs \cup {Nobody}]
    /\ work \in [Importers -> [at : {"idle", "download", "import", "add", "delete"}, mib : Mibs \cup {Nobody}, add : SUBSET Nodes, read : SUBSET Mibs]]
    /\ deleted \subseteq Nodes /\ overlapped \in BOOLEAN
    /\ cache \in [names : SUBSET Nodes, at : 0..MaxTime]
    /\ time \in 1..MaxTime
    /\ config \in [Configs -> [there : BOOLEAN, on : BOOLEAN, last : 0..MaxTime]]
    /\ DOMAIN list \subseteq Configs /\ results \subseteq Configs /\ changes \in 0..MaxChanges

(* What an imported MIB defines has a name: the nodes whose parents lead   *)
(* to a known root, in files with circles and missing parents, unless the  *)
(* entry went with another MIB that had named it first; and an entry is of *)
(* a MIB that is imported, unless two requests overlapped.                 *)
CatalogueNames ==
    /\ \A m \in Mibs : Defines(m) = Reference(tree[m])
    /\ \A m \in mibs : overlapped \/ \A n \in Reference(tree[m]) \ deleted : owner[n] # Nobody
    /\ overlapped \/ \A n \in Nodes : owner[n] \in mibs \cup {Nobody}
=============================================================================
