------------------------------ MODULE Agents -------------------------------
(***************************************************************************)
(* How a machine becomes an agent and stays one (routers/agents.py and the *)
(* installers it serves): the installer enrols with an install token, gets *)
(* the agent's bearer token, downloads the agent and only then writes the  *)
(* configuration; enrolling a known hostname again needs the token it      *)
(* holds and replaces it.  The agent reports with its token, and a queued  *)
(* uninstall goes out with the answer.                                     *)
(*                                                                         *)
(* Every machine here has the same hostname in the same tenant, which is   *)
(* where they meet; the shared enrolment key, hostname patterns and the    *)
(* old hash of the tokens are left out.                                    *)
(***************************************************************************)
EXTENDS Naturals, FiniteSets

CONSTANTS
    Machines,       \* machines of one hostname
    MaxReqs,        \* bound: enrolment requests
    MaxChanges      \* bound: what admins do

\* What the constants are assumed to be
EnrolmentAssumption == MaxReqs \in Nat /\ MaxChanges \in Nat

VARIABLES
    agent,          \* the row of the hostname: [id, token, owner], or None
    issued,         \* tokens and ids handed out so far
    cfg,            \* machine -> token in its configuration, 0 none
    inst,           \* machine -> its installer: idle, waiting for a request, or holding a token
    reqs,           \* enrolment requests under way on the server
    install,        \* the install token: valid or not
    command,        \* pending_command
    report,         \* machine -> the report under way: row id read, command read
    lost,           \* machines that lost an answer with a token, did not keep it, or whose agent was deleted
    dropped,        \* commands whose answer was lost
    queued, done,   \* uninstalls queued, uninstalls carried out
    changes

enrolmentVars == <<agent, issued, cfg, inst, reqs, install, command, report, lost, dropped, queued, done, changes>>

None == [id |-> 0, token |-> 0, owner |-> "none"]
Idle == [pc |-> "idle", n |-> 0]
NoReport == [id |-> 0, cmd |-> FALSE]

(* The installer sends what the configuration holds.                       *)
Install(m) ==
    /\ inst[m] = Idle /\ issued < MaxReqs
    /\ issued' = issued + 1
    /\ inst' = [inst EXCEPT ![m] = [pc |-> "waiting", n |-> issued + 1]]
    /\ reqs' = reqs \cup {[n |-> issued + 1, m |-> m, presented |-> cfg[m], pc |-> "token", found |-> None]}
    /\ UNCHANGED <<agent, cfg, install, command, report, lost, dropped, queued, done, changes>>
(* It is interrupted; the server works on.                                 *)
GiveUp(m) ==
    /\ inst[m].pc = "waiting"
    /\ inst' = [inst EXCEPT ![m] = Idle]
    /\ UNCHANGED <<agent, issued, cfg, reqs, install, command, report, lost, dropped, queued, done, changes>>
(* With the token it downloads the agent, then writes the configuration    *)
(* and starts it ...                                                       *)
WriteConfig(m) ==
    /\ inst[m].pc = "token"
    /\ cfg' = [cfg EXCEPT ![m] = inst[m].n]
    /\ inst' = [inst EXCEPT ![m] = Idle]
    /\ lost' = IF inst[m].n = agent.token THEN lost \ {m} ELSE lost
    /\ UNCHANGED <<agent, issued, reqs, install, command, report, dropped, queued, done, changes>>
(* ... or the download fails and the script ends.                          *)
DownloadFails(m) ==
    /\ inst[m].pc = "token"
    /\ inst' = [inst EXCEPT ![m] = Idle]
    /\ lost' = lost \cup {m}
    /\ UNCHANGED <<agent, issued, cfg, reqs, install, command, report, dropped, queued, done, changes>>

Waiting(r) == inst[r.m] = [pc |-> "waiting", n |-> r.n]
Refuse(r) ==
    /\ reqs' = reqs \ {r}
    /\ inst' = IF Waiting(r) THEN [inst EXCEPT ![r.m] = Idle] ELSE inst
(* agent_enroll: _consume_install_token, in a transaction of its own.      *)
Consume(r) ==
    /\ r.pc = "token"
    /\ \/ install /\ reqs' = (reqs \ {r}) \cup {[r EXCEPT !.pc = "look"]} /\ inst' = inst
       \/ ~install /\ Refuse(r)
    /\ UNCHANGED <<agent, issued, cfg, install, command, report, lost, dropped, queued, done, changes>>
(* _enroll_in_tenant: the row of the hostname is read.                     *)
(* Mutant: whoever asks gets the agent.                                    *)
Proves_Anyone(r) == TRUE
(* Mutant: a configuration without a token is taken for a new machine.     *)
Proves_Empty(r) == r.presented \in {0, agent.token}
Proves(r) == agent = None \/ r.presented = agent.token
LookUp(r) ==
    /\ r.pc = "look"
    /\ \/ Proves(r) /\ reqs' = (reqs \ {r}) \cup {[r EXCEPT !.pc = "commit", !.found = agent]} /\ inst' = inst
       \/ ~Proves(r) /\ Refuse(r)
    /\ UNCHANGED <<agent, issued, cfg, install, command, report, lost, dropped, queued, done, changes>>
(* It is written: a new row unless the unique index refuses it, or a new   *)
(* token in the row that was read unless it is gone.                       *)
Written(r) == IF r.found = None THEN [id |-> r.n, token |-> r.n, owner |-> r.m]
              ELSE [agent EXCEPT !.token = r.n]
Commit(r) ==
    /\ r.pc = "commit"
    /\ \/ /\ agent.id = r.found.id
          /\ agent' = Written(r)
          /\ command' = IF r.found = None THEN FALSE ELSE command
          /\ reqs' = reqs \ {r}
          /\ inst' = IF Waiting(r) THEN [inst EXCEPT ![r.m] = [pc |-> "token", n |-> r.n]] ELSE inst
          /\ lost' = IF Waiting(r) THEN lost ELSE lost \cup {r.m}
       \/ /\ agent.id # r.found.id /\ Refuse(r)
          /\ UNCHANGED <<agent, command, lost>>
    /\ UNCHANGED <<issued, cfg, install, report, dropped, queued, done, changes>>

(* agent_report: _find_agent_by_token, and what _handle_report reads ...   *)
ReportBegin(m) ==
    /\ cfg[m] # 0 /\ cfg[m] = agent.token /\ report[m] = NoReport
    /\ report' = [report EXCEPT ![m] = [id |-> agent.id, cmd |-> command]]
    /\ UNCHANGED <<agent, issued, cfg, inst, reqs, install, command, lost, dropped, queued, done, changes>>
(* ... its commit, which clears the command it read, and its answer, which *)
(* reaches the agent or not.  An agent told to uninstall removes its       *)
(* directory.                                                              *)
(* Mutant: the command is cleared whether it was read or not.              *)
Cleared_Always(m) == FALSE
Cleared(m) == command /\ ~report[m].cmd
ReportEnd(m, answered) ==
    /\ report[m] # NoReport /\ report' = [report EXCEPT ![m] = NoReport]
    /\ IF agent.id # report[m].id THEN UNCHANGED <<command, cfg, inst, dropped, done>>
       ELSE /\ command' = Cleared(m)
            /\ IF answered /\ report[m].cmd
               THEN /\ cfg' = [cfg EXCEPT ![m] = 0] /\ inst' = [inst EXCEPT ![m] = Idle]
                    /\ done' = done + 1 /\ dropped' = dropped
               ELSE /\ dropped' = IF report[m].cmd THEN dropped + 1 ELSE dropped
                    /\ UNCHANGED <<cfg, inst, done>>
    /\ UNCHANGED <<agent, issued, reqs, install, lost, queued, changes>>

(* Admins: revoke_install_token or its expiry, create_install_token,       *)
(* delete_agent, uninstall_agent.                                          *)
Tokens ==
    /\ changes < MaxChanges /\ changes' = changes + 1
    /\ install' = ~install
    /\ UNCHANGED <<agent, issued, cfg, inst, reqs, command, report, lost, dropped, queued, done>>
Delete ==
    /\ changes < MaxChanges /\ changes' = changes + 1
    /\ agent # None /\ agent' = None /\ command' = FALSE /\ queued' = done + dropped
    /\ lost' = Machines
    /\ UNCHANGED <<issued, cfg, inst, reqs, install, report, dropped, done>>
Uninstall ==
    /\ changes < MaxChanges /\ changes' = changes + 1
    /\ agent # None /\ ~command /\ command' = TRUE /\ queued' = queued + 1
    /\ UNCHANGED <<agent, issued, cfg, inst, reqs, install, report, lost, dropped, done>>

EnrolmentInit ==
    /\ agent = None /\ issued = 0 /\ cfg = [m \in Machines |-> 0] /\ inst = [m \in Machines |-> Idle]
    /\ reqs = {} /\ install = TRUE /\ command = FALSE /\ report = [m \in Machines |-> NoReport]
    /\ lost = {} /\ dropped = 0 /\ queued = 0 /\ done = 0 /\ changes = 0
EnrolmentNext ==
    \/ \E m \in Machines : Install(m) \/ GiveUp(m) \/ WriteConfig(m) \/ DownloadFails(m) \/ ReportBegin(m)
    \/ \E m \in Machines, answered \in BOOLEAN : ReportEnd(m, answered)
    \/ \E r \in reqs : Consume(r) \/ LookUp(r) \/ Commit(r)
    \/ Tokens \/ Delete \/ Uninstall
    \/ issued = MaxReqs /\ UNCHANGED enrolmentVars
EnrolmentSpec == EnrolmentInit /\ [][EnrolmentNext]_enrolmentVars

-----------------------------------------------------------------------------
(* Properties.                                                             *)

EnrolmentTypeOK ==
    /\ agent.id \in 0..MaxReqs /\ agent.token \in 0..MaxReqs /\ issued \in 0..MaxReqs
    /\ cfg \in [Machines -> 0..MaxReqs] /\ lost \subseteq Machines
    /\ {install, command} \subseteq BOOLEAN

(* Only the machine that enrolled first under a hostname ever holds the    *)
(* token of its agent, whoever else uses the name or an install token.     *)
NoTakeover ==
    \A m \in Machines :
        agent.token # 0 /\ agent.token \in {cfg[m], IF inst[m].pc = "token" THEN inst[m].n ELSE 0}
            => m = agent.owner

(* A machine holds a token that no longer works only if its agent was      *)
(* deleted, or an answer with its next token was lost on the way or not    *)
(* kept: else, whatever requests cross, the token it has is the agent's.   *)
DeadTokenExplained ==
    \A m \in Machines : cfg[m] # 0 /\ cfg[m] # agent.token
        => m \in lost \/ inst[m].pc = "token"

(* An uninstall is pending, on its way with a report, carried out, or its  *)
(* answer was lost: a report that did not read it never clears it.         *)
CommandKept ==
    queued > done + dropped => command

-----------------------------------------------------------------------------
(***************************************************************************)
(* The update of an agent (agent/src/updater.rs, the version and download  *)
(* routes of routers/agents.py, agent_release.py): the agent asks for the  *)
(* hash of what the server serves and for its signatures, downloads it in  *)
(* a second request, and runs it if its trust mode allows.  What the       *)
(* server has once said about itself is latched, in memory and in a file   *)
(* that may fail to be written.  The script agents compare the hash only.  *)
(*                                                                         *)
(* A binary stands for its bytes and its SHA-256.                          *)
(***************************************************************************)
CONSTANTS
    Binaries,       \* what has been built, scripts included
    Scripts,        \* ... of them, the script agents
    Released,       \* ... signed with a release key this agent knows
    Foreign,        \* ... signed with another release key
    Kinds,          \* subset of {"rust", "script"}: the agents considered
    MaxDeploys,     \* bound: changes of what is served
    MaxFlips        \* bound: changes of what the server says, and lost files

VARIABLES
    served, sig,    \* the binary that is served, and the one its .sig file is for
    cache,          \* _agent_file_cache: the hash and the mtime it was taken at
    multi, probe,   \* multi_tenant_mode() and is_probe
    kind, running,  \* the agent, and what it runs
    key, strict,    \* update_public_key, require_release_signature in its config.json
    trust, saved,   \* TrustState in memory and in update-trust.json
    offer,          \* the version answer the agent works on
    told,           \* what the server has said since the file was last lost
    deploys, flips

updateVars == <<served, sig, cache, multi, probe, kind, running, key, strict, trust, saved, offer, told, deploys, flips>>

Nothing == [hash |-> 0, release |-> 0]
Loose == [multi |-> FALSE, probe |-> FALSE]

(* CI's build is copied over the served file, its signature with it or     *)
(* not; the mtime changes.                                                 *)
Deploy(b, signed) ==
    /\ deploys < MaxDeploys /\ b \notin Scripts \cup {served}
    /\ deploys' = deploys + 1 /\ served' = b
    /\ sig' = IF signed THEN b ELSE sig
    /\ UNCHANGED <<cache, multi, probe, kind, running, key, strict, trust, saved, offer, told, flips>>
ServerSays(mt, pr) ==
    /\ flips < MaxFlips /\ flips' = flips + 1
    /\ <<mt, pr>> # <<multi, probe>> /\ multi' = mt /\ probe' = pr
    /\ UNCHANGED <<served, sig, cache, kind, running, key, strict, trust, saved, offer, told, deploys>>

(* _get_agent_hash, cached by mtime.                                       *)
(* Mutant: cached for good.                                                *)
AgentHash_Forever == IF cache.hash # 0 THEN cache.hash ELSE served
AgentHash == IF cache.hash # 0 /\ cache.mtime = deploys THEN cache.hash ELSE served
(* load_release_signature: none unless it is for exactly these bytes.      *)
ReleaseSignature(hash) == IF sig = hash /\ hash \in Released \cup Foreign THEN sig ELSE 0

(* TrustState.observe: only ever tightened; the file may fail.             *)
(* Mutant: the last answer counts.                                         *)
Latched_Last(mt, pr) == [multi |-> mt, probe |-> trust.probe \/ pr]
Latched(mt, pr) == [multi |-> trust.multi \/ mt, probe |-> trust.probe \/ pr]
Observe(mt, pr) ==
    /\ trust' = Latched(mt, pr)
    /\ \/ saved' = trust' /\ flips' = flips
       \/ trust' # trust /\ saved' = saved /\ flips < MaxFlips /\ flips' = flips + 1
    /\ told' = IF saved' = trust' THEN [multi |-> told.multi \/ mt, probe |-> told.probe \/ pr] ELSE told

(* The answer to a heartbeat.                                              *)
Heartbeat ==
    /\ kind = "rust" /\ offer = Nothing
    /\ Observe(multi, probe)
    /\ UNCHANGED <<served, sig, cache, multi, probe, kind, running, key, strict, offer, deploys>>

(* check_and_update: the version ...                                       *)
Version ==
    /\ offer = Nothing
    /\ cache' = [hash |-> AgentHash, mtime |-> deploys]
    /\ IF kind = "rust" THEN Observe(multi, FALSE) ELSE UNCHANGED <<trust, saved, told, flips>>
    /\ offer' = IF AgentHash = running THEN Nothing
                ELSE [hash |-> AgentHash, release |-> ReleaseSignature(AgentHash)]
    /\ UNCHANGED <<served, sig, multi, probe, kind, running, key, strict, deploys>>
Mode == IF strict \/ trust.multi THEN "release" ELSE IF trust.probe THEN "probe" ELSE "standard"
(* ... authorize_update ...                                                *)
Authorized(b) ==
    \/ offer.release \in Released /\ offer.release = b
    \/ /\ offer.release \notin Released /\ Mode # "release"
       /\ key \/ Mode = "standard"
(* ... the download, whose hash must be the one announced, and apply_update *)
(* and the restart; else nothing happens.                                  *)
Matches(b) == b = offer.hash
Download ==
    /\ offer # Nothing /\ offer' = Nothing
    /\ IF Matches(served) /\ (kind = "script" \/ Authorized(served))
       THEN running' = served /\ trust' = saved
       ELSE UNCHANGED <<running, trust>>
    /\ UNCHANGED <<served, sig, cache, multi, probe, kind, key, strict, saved, told, deploys, flips>>
(* The agent restarts, in the middle of an update or not.                  *)
Restart ==
    /\ flips < MaxFlips /\ flips' = flips + 1
    /\ trust' = saved /\ offer' = Nothing
    /\ UNCHANGED <<served, sig, cache, multi, probe, kind, running, key, strict, saved, told, deploys>>

UpdateInit ==
    /\ kind \in Kinds /\ served \in Binaries /\ running = served /\ sig = served
    /\ (kind = "script" => served \in Scripts) /\ (kind = "rust" => served \notin Scripts)
    /\ cache = [hash |-> 0, mtime |-> 0]
    /\ multi \in BOOLEAN /\ probe = FALSE /\ key \in BOOLEAN /\ strict \in BOOLEAN
    /\ trust = Loose /\ saved = Loose /\ told = Loose /\ offer = Nothing /\ deploys = 0 /\ flips = 0
Runs == kind = "rust" \/ running \in Scripts
UpdateNext ==
    \/ \E b \in Binaries, signed \in BOOLEAN : Deploy(b, signed)
    \/ \E mt, pr \in BOOLEAN : ServerSays(mt, pr)
    \/ Runs /\ (Heartbeat \/ Version \/ Download \/ Restart)
    \/ ~Runs /\ UNCHANGED updateVars
UpdateSpec == UpdateInit /\ [][UpdateNext]_updateVars
(* The agent asks every five minutes.                                      *)
UpdateFairSpec == UpdateSpec /\ WF_updateVars(Runs /\ Version) /\ WF_updateVars(Runs /\ Download)

-----------------------------------------------------------------------------
(* Properties.                                                             *)

UpdateTypeOK ==
    /\ {served, sig, running} \subseteq Binaries /\ offer.hash \in Binaries \cup {0}
    /\ {multi, probe, key, strict, trust.multi, trust.probe, saved.multi, saved.probe} \subseteq BOOLEAN

(* An agent that was told the installation has several tenants, and wrote  *)
(* it down, runs nothing but release-signed binaries from then on,         *)
(* whatever the server says or serves later and whenever it restarts; one  *)
(* that was ever a probe runs nothing that no key has signed.              *)
Tightened ==
    [][running' # running /\ kind = "rust" =>
        /\ told.multi \/ strict => running' \in Released
        /\ told.probe => running' \in Released \/ key]_updateVars

(* A native agent comes to run what is served, if it may: a file replaced  *)
(* between the two requests is only a matter of time.                      *)
Acceptable == kind = "rust" /\ (served \in Released /\ sig = served)
KeepsUp == <>[](Acceptable => running = served)

(* "download + replace + restart if found": a script agent is one that     *)
(* still runs.                                                             *)
ScriptRuns == kind = "script" => running \in Scripts
=============================================================================
