--------------------------- MODULE AgentCollectors ---------------------------
(***************************************************************************)
(* The log collectors of the script agents (static/nodeglow-agent-linux.py *)
(* and -windows.py): once a minute the agent reads what is new in the      *)
(* journal, in the containers' logs, in the event log and in the files it  *)
(* was told to tail, remembers in memory how far it got, and posts what it *)
(* read in one request it never repeats.                                   *)
(*                                                                         *)
(* One source of each kind; what the lines say is left out.  The programs  *)
(* and files that are read are external: journalctl, docker logs and       *)
(* Get-WinEvent give the newest lines first when there are too many.       *)
(***************************************************************************)
EXTENDS Naturals, Sequences, FiniteSetsExt

CONSTANTS
    Kinds,          \* subset of {"journal", "docker", "events", "file"}
    Limit,          \* lines one collection takes at most
    Interval,       \* seconds between collections
    MaxEntries,     \* bound: lines written
    MaxClock,       \* bound: the clock
    MaxFails,       \* bound: failed posts
    MaxRestarts,    \* bound: restarts of the agent, or of the container
    MaxRotations    \* bound: rotations of the file

\* What the constants are assumed to be
CollectAssumption ==
    /\ Kinds \subseteq {"journal", "docker", "events", "file"}
    /\ Limit \in Nat /\ Interval \in Nat /\ MaxClock \in Nat \ {0} /\ MaxRestarts \in Nat

VARIABLES
    kind,           \* the source this behaviour is about
    stamps,         \* the second in which each line was written
    base,           \* lines before the current file, for a file
    clock, last,    \* now, and last_log_send
    pos,            \* cursor, last second or offset; 0 is none
    upto,           \* lines there were at the last collection
    got, twice,     \* lines the server received, and received again
    excused,        \* lines lost in a way the collectors accept
    over, swapped,  \* more than Limit lines were waiting once; rotated and the offset is the old one
    fails, restarts, rotations

vars == <<kind, stamps, base, clock, last, pos, upto, got, twice, excused, over, swapped, fails, restarts, rotations>>

Lines == 1..Len(stamps)
Newest(S) == {i \in S : Cardinality({j \in S : j > i}) < Limit}
Oldest(S) == {i \in S : Cardinality({j \in S : j < i}) < Limit}
Within(n) == {i \in Lines : stamps[i] + n >= clock}

(* get_recent_logs of the Linux agent: after the cursor, or the last       *)
(* minute; the cursor moves to the last line read.                         *)
JournalDue == IF pos = 0 THEN Within(Interval) ELSE {i \in Lines : i > pos}
JournalRead ==
    LET new == Newest(JournalDue)
    IN [lines |-> new, pos |-> IF new = {} THEN pos ELSE Max(new), cut |-> JournalDue \ new]

(* get_docker_logs: since the second of the last line, or the last minute. *)
(* Mutant: the second of the last line is over.                            *)
DockerDue_After == IF pos = 0 THEN Within(Interval) ELSE {i \in Lines : stamps[i] > pos}
DockerDue == IF pos = 0 THEN Within(Interval) ELSE {i \in Lines : stamps[i] >= pos}
DockerRead ==
    LET new == Newest(DockerDue)
    IN [lines |-> new, pos |-> IF new = {} THEN pos ELSE stamps[Max(new)], cut |-> DockerDue \ new]

(* get_recent_logs of the Windows agent: from a second before the newest   *)
(* event, or the last two minutes.                                         *)
EventsDue == IF pos = 0 THEN Within(2 * Interval) ELSE {i \in Lines : stamps[i] + 1 >= pos}
EventsRead ==
    LET new == Newest(EventsDue)
    IN [lines |-> new, pos |-> IF new = {} THEN pos ELSE stamps[Max(new)], cut |-> EventsDue \ new]

(* tail_log_files, get_agent_log_entries: from the offset, or the start of *)
(* a file that is shorter now.  A loop left with lines to go has disabled  *)
(* tell(): the exception is swallowed and the offset stays.                *)
FileDue ==
    LET size == Len(stamps) - base
        off == IF size < pos THEN 0 ELSE pos
    IN {i \in Lines : i > base + off}
(* Mutant: the offset stays whenever the limit is reached.                 *)
FileRead_Full ==
    LET new == Oldest(FileDue)
    IN [lines |-> new, cut |-> {},
        pos |-> IF Cardinality(new) < Limit /\ new # {} THEN Len(stamps) - base ELSE pos]
FileRead ==
    LET new == Oldest(FileDue)
    IN [lines |-> new, cut |-> {},
        pos |-> IF new = FileDue /\ new # {} THEN Len(stamps) - base ELSE pos]
(* Lines of a rotated file that grew past the old offset are not seen.     *)
Outgrown == IF kind = "file" /\ swapped THEN {i \in Lines : base < i /\ i <= base + pos} ELSE {}

Read == CASE kind = "journal" -> JournalRead [] kind = "docker" -> DockerRead
          [] kind = "events" -> EventsRead [] kind = "file" -> FileRead
FirstLook == pos = 0 /\ kind # "file"
Window == IF kind = "events" THEN 2 * Interval ELSE Interval

(* One round of the main loop that finds last_log_send a minute ago, with  *)
(* the answer of send_logs: the positions have moved either way.           *)
Collect(ok) ==
    /\ clock >= last + Interval \/ clock = MaxClock
    /\ last' = clock /\ upto' = Len(stamps)
    /\ pos' = Read.pos /\ swapped' = (swapped /\ Read.pos = pos)
    /\ over' = (over \/ Cardinality(FileDue) > Limit)
    /\ \/ ok /\ got' = got \cup Read.lines /\ twice' = twice \cup (got \cap Read.lines)
          /\ fails' = fails
       \/ ~ok /\ fails < MaxFails /\ fails' = fails + 1 /\ UNCHANGED <<got, twice>>
    /\ excused' = excused \cup Read.cut \cup Outgrown
                    \cup (IF FirstLook THEN Lines \ Within(Window) ELSE {})
                    \cup (IF ok THEN {} ELSE Read.lines)
    /\ UNCHANGED <<kind, stamps, base, clock, restarts, rotations>>

Write ==
    /\ Len(stamps) < MaxEntries
    /\ stamps' = Append(stamps, clock)
    /\ UNCHANGED <<kind, base, clock, last, pos, upto, got, twice, excused, over, swapped, fails, restarts, rotations>>
Tick ==
    /\ clock < MaxClock /\ clock' = clock + 1
    /\ UNCHANGED <<kind, stamps, base, last, pos, upto, got, twice, excused, over, swapped, fails, restarts, rotations>>
(* The agent restarts and knows no position; or the container was down     *)
(* when the agent looked, and its entry was removed.                       *)
Forget ==
    /\ restarts < MaxRestarts /\ restarts' = restarts + 1
    /\ pos' = 0
    /\ UNCHANGED <<kind, stamps, base, clock, last, upto, got, twice, excused, over, swapped, fails, rotations>>
(* The file is rotated: what was not read of it is gone.                   *)
Rotate ==
    /\ kind = "file" /\ rotations < MaxRotations /\ rotations' = rotations + 1
    /\ base' = Len(stamps) /\ swapped' = TRUE
    /\ excused' = excused \cup FileDue \cup Outgrown
    /\ UNCHANGED <<kind, stamps, clock, last, pos, upto, got, twice, over, fails, restarts>>

Init ==
    /\ kind \in Kinds
    /\ stamps = <<>> /\ base = 0 /\ clock = 1 /\ last = 0 /\ pos = 0 /\ upto = 0
    /\ got = {} /\ twice = {} /\ excused = {} /\ over = FALSE /\ swapped = FALSE
    /\ fails = 0 /\ restarts = 0 /\ rotations = 0
Next == (\E ok \in BOOLEAN : Collect(ok)) \/ Write \/ Tick \/ Forget \/ Rotate
Spec == Init /\ [][Next]_vars
(* The main loop goes on for ever.                                         *)
FairSpec == Spec /\ WF_vars(Collect(TRUE)) /\ WF_vars(Tick)

-----------------------------------------------------------------------------
(* Properties.                                                             *)

TypeOK ==
    /\ kind \in Kinds /\ stamps \in Seq(1..MaxClock) /\ base \in 0..Len(stamps)
    /\ upto \in 0..Len(stamps) /\ twice \subseteq got /\ got \cup excused \subseteq Lines
    /\ {over, swapped} \subseteq BOOLEAN /\ pos \in Nat

(* No line that was there at a collection is passed over in silence: it    *)
(* reached the server, or a post failed, or more than the limit came at    *)
(* once, or the file was rotated, or the agent had just started.  Of a     *)
(* file with too many lines the rest stays in reach of the next one.       *)
NothingSkipped ==
    \A i \in 1..upto : i \in got \cup excused \/ (kind = "file" /\ over /\ i \in FileDue)

(* The journal's cursor and a file's offset keep lines from being sent     *)
(* twice while the agent runs, unless a file had more than the limit.      *)
SentOnce == restarts = 0 /\ (kind = "journal" \/ (kind = "file" /\ ~over)) => twice = {}

(* "Read new lines from custom log files. Tracks position between calls":  *)
(* every line of a file that is not rotated is sent in the end.            *)
FileTailed == \A i \in 1..MaxEntries : [](i \in Lines => <>(i \in got \cup excused))
=============================================================================
