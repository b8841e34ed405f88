---------------------------- MODULE AiFeatures -----------------------------
(***************************************************************************)
(* Who decides that data goes to an AI provider, to which one, and whether *)
(* it is redacted (services/ai_config.py, services/ai_client.py,           *)
(* routers/settings/ai.py).  A save writes its settings one by one, each   *)
(* committed; a call reads them one by one and may then wait for one of    *)
(* the slots.  After an upgrade the first process to start switches AI on  *)
(* where a key was already there.                                          *)
(***************************************************************************)
EXTENDS Integers, Sequences, FiniteSets, SequencesExt

CONSTANTS
    Admins, Operators,  \* who saves; only an operator changes the provider and its key
    Calls, Slots,       \* calls of the features, and how many go out at once
    Workers,            \* processes that start
    MaxSaves, MaxSends, MaxStops

AiAssumption == Operators \subseteq Admins /\ Slots \in Nat \ {0}

VARIABLES
    settings,       \* ai_enabled, ai_provider, claude_api_key and ai_redact_enabled as stored
    marker,         \* the upgrade check has run
    worker,         \* process -> how far its start is, and what it has read
    save,           \* admin -> the form and the settings still to be written
    call,           \* call -> how far it is, and what it has read
    sends,          \* what went out to a provider
    wish, chosen,   \* what people decided: AI on, and the pairs of provider and redaction
    mixed,          \* saves overlapped, or one was broken off
    saves, stops

consentVars == <<settings, marker, worker, save, call, sends, wish, chosen, mixed, saves, stops>>
Providers == {"anthropic", "openai"}
Forms == {f \in [on : {"0", "1"}, provider : Providers, key : BOOLEAN, redact : BOOLEAN] : f.key => f.provider = "anthropic"}
Pair(s) == <<s.provider, s.redact>>
NoForm == [on |-> "0", provider |-> "anthropic", key |-> FALSE, redact |-> TRUE]
NoSave == [todo |-> <<>>, form |-> NoForm, was |-> "absent"]
NoCall == [at |-> "idle", on |-> FALSE, provider |-> "anthropic", key |-> FALSE, redact |-> TRUE, clean |-> TRUE, wish |-> FALSE, chosen |-> {}]
Down == [at |-> "down", key |-> FALSE, fresh |-> FALSE]
Followed == ~mixed      \* bound: after saves that overlapped or broke off nothing new begins
Settled == \A w \in Workers : worker[w].at \in {"down", "up"}   \* bound: nobody calls while a process starts
Saving == \E a \in Admins : save[a] # NoSave

(* AIConfig.configured, and load_ai_config's view of the switch.           *)
Configured(provider, key) == provider = "anthropic" => key
IsOn(s) == s.on = "1"

ConsentInit ==
    /\ \E key \in BOOLEAN : settings = [on |-> "absent", provider |-> "anthropic", key |-> key, redact |-> TRUE]
    /\ marker = FALSE
    /\ worker = [w \in Workers |-> Down]
    /\ save = [a \in Admins |-> NoSave]
    /\ call = [c \in Calls |-> NoCall]
    /\ sends = {} /\ wish = FALSE /\ chosen = {<<"anthropic", TRUE>>}
    /\ mixed = FALSE /\ saves = 0 /\ stops = 0
-----------------------------------------------------------------------------
(* migrate_ai_opt_in: the marker is looked for, and the key and the switch *)
(* read; then the marker is inserted, which waits for another process that *)
(* has inserted it and fails once that has committed.                      *)
MigrateRead(w) ==
    /\ Followed /\ worker[w] = Down /\ \A c \in Calls : call[c] = NoCall
    /\ worker' = [worker EXCEPT ![w] = IF marker THEN [Down EXCEPT !.at = "up"]
                                       ELSE [at |-> "claim", key |-> settings.key, fresh |-> settings.on = "absent"]]
    /\ UNCHANGED <<settings, marker, save, call, sends, wish, chosen, mixed, saves, stops>>
MigrateClaim_Late(w) ==
    /\ worker[w].at = "claim"
    /\ worker' = [worker EXCEPT ![w].at = "claimed"]
    /\ UNCHANGED <<settings, marker, save, call, sends, wish, chosen, mixed, saves, stops>>
MigrateClaim(w) ==
    /\ worker[w].at = "claim"
    /\ \A v \in Workers : worker[v].at # "claimed"
    /\ worker' = [worker EXCEPT ![w].at = IF marker THEN "up" ELSE "claimed"]
    /\ UNCHANGED <<settings, marker, save, call, sends, wish, chosen, mixed, saves, stops>>
MigrateCommit(w) == LET enable == worker[w].key /\ worker[w].fresh IN
    /\ worker[w].at = "claimed"
    /\ marker' = TRUE
    /\ settings' = IF enable THEN [settings EXCEPT !.on = "1", !.provider = "anthropic"] ELSE settings
    /\ wish' = (wish \/ (enable /\ ~marker))
    /\ worker' = [worker EXCEPT ![w] = [Down EXCEPT !.at = "up"]]
    /\ UNCHANGED <<save, call, sends, chosen, mixed, saves, stops>>
Stop(w) ==
    /\ worker[w] # Down /\ stops < MaxStops /\ stops' = stops + 1
    /\ worker' = [worker EXCEPT ![w] = Down]
    /\ UNCHANGED <<settings, marker, save, call, sends, wish, chosen, mixed, saves>>
Serving == \E w \in Workers : worker[w].at = "up"
-----------------------------------------------------------------------------
(* save_ai_settings: _merge_form and the checks against what is stored ... *)
NewKey(f) == settings.key \/ f.key
Refused(a, f) ==
    \/ a \notin Operators /\ (f.key \/ f.provider # settings.provider)
    \/ f.on = "1" /\ ~Configured(f.provider, NewKey(f))
Order(a) == IF a \in Operators THEN <<"key", "provider", "redact", "on">> ELSE <<"redact", "on">>
BeginSave(a, f) ==
    /\ Followed /\ Serving /\ save[a] = NoSave
    /\ saves < MaxSaves /\ saves' = saves + 1
    /\ ~Refused(a, f)
    /\ save' = [save EXCEPT ![a] = [todo |-> Order(a), form |-> f, was |-> settings.on]]
    /\ mixed' = (mixed \/ Saving)
    /\ UNCHANGED <<settings, marker, worker, call, sends, wish, chosen, stops>>
(* ... and the settings, each with a commit of its own: the key, the       *)
(* provider, the flags, and the switch when it was not so before.          *)
Stored_OperatorFlags(s, a, k) == LET f == save[a].form IN
    CASE k = "key" -> [s EXCEPT !.key = @ \/ f.key]
      [] k = "provider" -> [s EXCEPT !.provider = f.provider]
      [] k = "redact" -> IF a \in Operators THEN [s EXCEPT !.redact = f.redact] ELSE s
      [] k = "on" -> IF (f.on = "1") # (save[a].was = "1") THEN [s EXCEPT !.on = f.on] ELSE s
Stored(s, a, k) == LET f == save[a].form IN
    CASE k = "key" -> [s EXCEPT !.key = @ \/ f.key]
      [] k = "provider" -> [s EXCEPT !.provider = f.provider]
      [] k = "redact" -> [s EXCEPT !.redact = f.redact]
      [] k = "on" -> IF (f.on = "1") # (save[a].was = "1") THEN [s EXCEPT !.on = f.on] ELSE s
Write(a) == LET f == save[a].form  last == Len(save[a].todo) = 1 IN
    /\ save[a] # NoSave
    /\ settings' = Stored(settings, a, Head(save[a].todo))
    /\ call' = [c \in Calls |-> IF call[c].at = "read" THEN [call[c] EXCEPT !.clean = FALSE] ELSE call[c]]
    /\ save' = [save EXCEPT ![a] = IF last THEN NoSave ELSE [save[a] EXCEPT !.todo = Tail(@)]]
    /\ wish' = IF last THEN f.on = "1" ELSE wish
    /\ chosen' = IF last THEN {<<f.provider, f.redact>>} ELSE chosen
    /\ UNCHANGED <<marker, worker, sends, mixed, saves, stops>>
(* A write fails, or the process goes: what was written stays.             *)
BreakOff(a) ==
    /\ save[a] # NoSave
    /\ stops < MaxStops /\ stops' = stops + 1
    /\ save' = [save EXCEPT ![a] = NoSave]
    /\ mixed' = TRUE
    /\ UNCHANGED <<settings, marker, worker, call, sends, wish, chosen, saves>>
-----------------------------------------------------------------------------
(* load_ai_config: the provider and the switch, and later the flags.       *)
BeginCall(c) ==
    /\ Followed /\ Settled /\ Serving /\ call[c] = NoCall /\ Cardinality(sends) < MaxSends
    /\ call' = [call EXCEPT ![c] = [NoCall EXCEPT !.at = "read", !.on = IsOn(settings), !.provider = settings.provider,
                                    !.key = settings.key, !.wish = wish, !.chosen = chosen]]
    /\ UNCHANGED <<settings, marker, worker, save, sends, wish, chosen, mixed, saves, stops>>
(* _prepare: refused when it is off, not configured, or the endpoint's     *)
(* name now leads where it must not; the prompt is redacted as read.       *)
Prepare(c) ==
    /\ call[c].at = "read"
    /\ \/ /\ call[c].on /\ Configured(call[c].provider, call[c].key)
          /\ call' = [call EXCEPT ![c] = [call[c] EXCEPT !.at = "queue", !.redact = settings.redact,
                                                   !.clean = @ /\ ~Saving /\ ~mixed]]
       \/ /\ ~call[c].on \/ ~Configured(call[c].provider, call[c].key) \/ call[c].provider = "openai"
          /\ call' = [call EXCEPT ![c] = NoCall]
    /\ UNCHANGED <<settings, marker, worker, save, sends, wish, chosen, mixed, saves, stops>>
(* generate_completion, stream_completion: a slot, and the request; the    *)
(* answer or an error gives the slot back.                                 *)
Send(c) ==
    /\ call[c].at = "queue"
    /\ Cardinality({d \in Calls : call[d].at = "sent"}) < Slots
    /\ call' = [call EXCEPT ![c].at = "sent"]
    /\ sends' = sends \cup {[pair |-> Pair(call[c]), clean |-> call[c].clean, wish |-> call[c].wish, chosen |-> call[c].chosen]}
    /\ UNCHANGED <<settings, marker, worker, save, wish, chosen, mixed, saves, stops>>
Answered(c) ==
    /\ call[c].at = "sent"
    /\ call' = [call EXCEPT ![c] = NoCall]
    /\ UNCHANGED <<settings, marker, worker, save, sends, wish, chosen, mixed, saves, stops>>

ConsentNext ==
    \/ \E w \in Workers : MigrateRead(w) \/ MigrateClaim(w) \/ MigrateCommit(w) \/ Stop(w)
    \/ \E a \in Admins : Write(a) \/ BreakOff(a) \/ \E f \in Forms : BeginSave(a, f)
    \/ \E c \in Calls : BeginCall(c) \/ Prepare(c) \/ Send(c) \/ Answered(c)
    \/ (saves = MaxSaves \/ mixed) /\ UNCHANGED consentVars
ConsentSpec == ConsentInit /\ [][ConsentNext]_consentVars
-----------------------------------------------------------------------------
Decisions == SUBSET (Providers \X BOOLEAN)
ConsentTypeOK ==
    /\ settings \in [on : {"absent", "0", "1"}, provider : Providers, key : BOOLEAN, redact : BOOLEAN]
    /\ marker \in BOOLEAN /\ wish \in BOOLEAN /\ chosen \in Decisions
    /\ worker \in [Workers -> [at : {"down", "claim", "claimed", "up"}, key : BOOLEAN, fresh : BOOLEAN]]
    /\ \A a \in Admins : save[a].form \in Forms /\ save[a].was \in {"absent", "0", "1"} /\ Len(save[a].todo) \in 0..4
    /\ \A c \in Calls : call[c].at \in {"idle", "read", "queue", "sent"} /\ call[c].chosen \in Decisions
    /\ sends \subseteq [pair : Providers \X BOOLEAN, clean : BOOLEAN, wish : BOOLEAN, chosen : Decisions]
    /\ mixed \in BOOLEAN /\ saves \in 0..MaxSaves /\ stops \in 0..MaxStops

(* AI is on exactly when the last decision says so: of an admin who saved, *)
(* or of the upgrade before anyone had, which happens once however many    *)
(* processes start, stop and start again; unless saves overlapped or one   *)
(* was broken off.                                                         *)
OptInHonest == ~mixed /\ ~Saving => IsOn(settings) = wish
(* Nothing goes out but under what people had decided when the call began: *)
(* AI on, the provider and the redaction as one save had set them, unless  *)
(* settings were being written while the call was reading them.            *)
SentAsDecided == \A s \in sends : s.clean => s.wish /\ s.pair \in s.chosen

-----------------------------------------------------------------------------
(***************************************************************************)
(* What leaves the process in a request to an AI provider, and what comes  *)
(* back (services/ai_redaction.py, _redacted_request and stream_completion *)
(* of services/ai_client.py).  Values that a pattern finds anywhere in the *)
(* request become placeholders, and are then replaced wherever else they   *)
(* stand; the answer arrives in pieces of any size, and placeholders in it *)
(* are turned back, though a piece may end inside one.                     *)
(*                                                                         *)
(* A text is a sequence of words; a word is a value, with the kind the     *)
(* patterns find it as where it stands, if any.  An answer is a sequence   *)
(* of "<", ">", bodies of placeholders and other text, each one character  *)
(* long.                                                                   *)
(***************************************************************************)
CONSTANTS
    Values,         \* values a text may hold
    Short,          \* those too short to be replaced where no pattern finds them
    Generic,        \* those that stay: service accounts, loopback addresses
    Kinds,          \* kinds of placeholders; "SECRET" is never turned back
    MaxWords,       \* words of a request, over its system prompt and messages
    MaxAnswer,      \* bound: characters of the answer
    MaxDelta,       \* characters of a piece of it
    MaxPlaceholder  \* _MAX_PLACEHOLDER_LEN

VARIABLES
    request,        \* the words, in the order of the messages
    issued,         \* placeholders: <<kind, value>> in the order they were made
    sent,           \* the words that leave
    answer,         \* what has arrived of the answer
    buf, shown,     \* what the restorer holds back, and what it has let through
    over            \* whether the answer has ended

redactionVars == <<request, issued, sent, answer, buf, shown, over>>
Plain == "plain"
Words == [val : Values, as : Kinds \cup {Plain}]
Texts == UNION {[1..n -> Words] : n \in 1..MaxWords}
Found(w) == w.as # Plain /\ w.val \notin Generic
(* The n-th placeholder made, and the words that are left as they are.     *)
Holder(n) == [ph |-> n, val |-> "none"]
Word(v) == [ph |-> 0, val |-> v]

RedactionInit ==
    /\ request \in Texts
    /\ issued = <<>> /\ sent = <<>>
    /\ answer = <<>> /\ buf = <<>> /\ shown = <<>> /\ over = FALSE

(* Redactor.placeholder: one for each kind and value, made when the value  *)
(* is met first.                                                           *)
Met(ws) == FoldLeft(LAMBDA seq, w : IF Found(w) /\ ~Contains(seq, <<w.as, w.val>>) THEN Append(seq, <<w.as, w.val>>) ELSE seq, <<>>, ws)
PlaceOf(made, pair) == CHOOSE n \in DOMAIN made : made[n] = pair
(* redact_many: what the patterns find, then every value found that stands *)
(* elsewhere.  Of several placeholders for a value the last made is taken. *)
Propagated_FoundOnly(made, w) == Word(w.val)
Propagated(made, w) ==
    LET own == {n \in DOMAIN made : made[n][2] = w.val /\ w.val \notin Short}
    IN  IF own = {} THEN Word(w.val) ELSE Holder(CHOOSE n \in own : \A k \in own : k <= n)
Redacted(made, w) == IF Found(w) THEN Holder(PlaceOf(made, <<w.as, w.val>>)) ELSE Propagated(made, w)
(* _redacted_request: one pass over the system prompt and all messages.    *)
Redact ==
    /\ sent = <<>>
    /\ issued' = Met(request)
    /\ sent' = [i \in DOMAIN request |-> Redacted(Met(request), request[i])]
    /\ UNCHANGED <<request, answer, buf, shown, over>>
-----------------------------------------------------------------------------
(* restore: a placeholder that was made, and may be turned back, becomes   *)
(* its value.                                                              *)
Body(n) == [body |-> n]
Open == [body |-> -1]
Close == [body |-> -2]
Text == [body |-> -3]
Value(v) == [value |-> v]
Restorable(made, c) == c.body \in DOMAIN made /\ made[c.body][1] # "SECRET"
Hit(made, s, i) == i \in 2..(Len(s) - 1) /\ s[i - 1] = Open /\ Restorable(made, s[i]) /\ s[i + 1] = Close
Restore(made, s) ==
    LET at(i) == IF Hit(made, s, i) THEN <<Value(made[s[i].body][2])>>
                 ELSE IF Hit(made, s, i + 1) \/ Hit(made, s, i - 1) THEN <<>> ELSE <<s[i]>>
    IN  FlattenSeq([i \in DOMAIN s |-> at(i)])
(* StreamRestorer.feed: what follows the last "<" is held back while it    *)
(* may still become a placeholder.                                         *)
LastOpen(s) == LET opens == {i \in DOMAIN s : s[i] = Open} IN IF opens = {} THEN 0 ELSE CHOOSE i \in opens : \A j \in opens : j <= i
HeldFrom_Short(s) == LET i == LastOpen(s) IN
    IF i # 0 /\ ~Contains(SubSeq(s, i, Len(s)), Close) /\ Len(s) - i < 1 THEN i ELSE Len(s) + 1
HeldFrom(s) == LET i == LastOpen(s) IN
    IF i # 0 /\ ~Contains(SubSeq(s, i, Len(s)), Close) /\ Len(s) - i + 1 < MaxPlaceholder THEN i ELSE Len(s) + 1
Characters == {Open, Close, Text} \cup {Body(n) : n \in 1..(Len(issued) + 1)}
Feed(delta) == LET all == buf \o delta  from == HeldFrom(all) IN
    /\ sent # <<>> /\ ~over /\ Len(answer) + Len(delta) <= MaxAnswer
    /\ answer' = answer \o delta
    /\ shown' = shown \o Restore(issued, SubSeq(all, 1, from - 1))
    /\ buf' = SubSeq(all, from, Len(all))
    /\ UNCHANGED <<request, issued, sent, over>>
Flush ==
    /\ sent # <<>> /\ ~over /\ over' = TRUE
    /\ shown' = shown \o Restore(issued, buf) /\ buf' = <<>>
    /\ UNCHANGED <<request, issued, sent, answer>>

RedactionNext ==
    \/ Redact \/ Flush
    \/ \E n \in 1..MaxDelta : \E delta \in [1..n -> Characters] : Feed(delta)
    \/ over /\ UNCHANGED redactionVars
RedactionSpec == RedactionInit /\ [][RedactionNext]_redactionVars
-----------------------------------------------------------------------------
RedactionTypeOK ==
    /\ request \in Texts
    /\ \A n \in DOMAIN issued : issued[n] \in Kinds \X Values
    /\ \A i \in DOMAIN sent : sent[i].ph \in 0..Len(issued)
    /\ over \in BOOLEAN /\ Len(answer) <= MaxAnswer /\ Len(buf) < MaxPlaceholder

(* A value that a pattern finds in any message leaves in none of them, not *)
(* even where nothing gives it away, unless it is too short to be looked   *)
(* for; and a placeholder means the same value wherever it stands.         *)
NothingLeaves == sent # <<>> => \A i, j \in DOMAIN request :
    /\ Found(request[i]) /\ request[i].val \notin Short => sent[j].val # request[i].val
    /\ sent[i].ph # 0 /\ sent[i].ph = sent[j].ph => request[i].val = request[j].val
(* However the answer is cut into pieces, what is shown is the whole of it *)
(* restored at once.                                                       *)
StreamExact == over \/ buf = <<>> => shown = Restore(issued, answer)
(* A secret is not shown, unless it was also found as something else.      *)
SecretsHidden == \A i \in DOMAIN shown : \A v \in Values :
    shown[i] = Value(v) => \E n \in DOMAIN issued : issued[n][2] = v /\ issued[n][1] # "SECRET"
=============================================================================
