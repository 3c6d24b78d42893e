------------------------------- MODULE Tuning -------------------------------
(***************************************************************************)
(* How the strategy's parameters change: the review of the day by an LLM   *)
(* (dags/postmarket/trade_review.py, plugins/llm/review.py), the tuner     *)
(* behind it (dags/postmarket/param_adjustment.py,                         *)
(* plugins/analysis/param_tuner.py), the table of suggestions, the users   *)
(* who approve or reject them and the administrators who type values       *)
(* (api/v1/strategy_config.py), and the command line the process manager   *)
(* builds from the result for the trader.                                  *)
(*                                                                         *)
(* A request is a transaction that reads, checks and commits in separate   *)
(* steps.  A task of a pipeline that is killed is run again from its       *)
(* beginning.  Numbers are in tenths, times of day are HHMM numbers.       *)
(***************************************************************************)
EXTENDS FiniteSetsExt, Lists

CONSTANTS
    Users,          \* of the web interface
    Admins,         \* those among them who may type a value
    Replies,        \* what the LLM may answer: sequences of suggestions
    WinPercents,    \* win rates of the day's trades, 50 without a record
    Typed,          \* [key, value] an administrator may type
    Seed,           \* the rows of strategy_config after the migration
    GeneratedIds,   \* does the database give the id of a suggestion?
    MaxDays, MaxRows   \* bounds

ASSUME TuningAssumption ==
    /\ Admins \subseteq Users
    /\ \A new \in Typed : new = [key |-> new.key, value |-> new.value]
    /\ \A reply \in Replies : reply = [i \in 1..Len(reply) |-> reply[i]]
    /\ \A reply \in Replies : Len(reply) \in Nat /\ \A i \in 1..Len(reply) :
          reply[i].value.kind = "number" => reply[i].value.n \in Int
    /\ \A k \in DOMAIN Seed : Seed[k].by \in {"system", "user", "llm"}
    /\ GeneratedIds \in BOOLEAN
    /\ MaxDays \in Nat \ {0} /\ MaxRows \in Nat

VARIABLES
    day,
    review,    \* the suggestions in the file of today's review, none without it
    writing,   \* the pipeline that reviews: [step, reply, tries]
    tuning,    \* the pipeline that tunes: [step, draft, tries]
    table,     \* strategy_config_suggestions, in the order of insertion
    config,    \* strategy_config: key -> [value, by]
    request,   \* user -> the request that is being served
    approved   \* history: rows of the table whose approval was committed

pipelineVars == <<day, review, writing, tuning>>
webVars      == <<config, request, approved>>
vars == <<pipelineVars, table, webVars>>

-----------------------------------------------------------------------------
(* Values and what the code makes of them                                  *)

Number(n) == [kind |-> "number", n |-> n]
Words     == [kind |-> "words"]            \* a text that is no number or time
\* "HH:MM", "H:MM" when it is short, " HH:MM" when it is padded.
Clock(at)       == [kind |-> "clock", at |-> at, form |-> "full"]
ShortClock(at)  == [kind |-> "clock", at |-> at, form |-> "short"]
PaddedClock(at) == [kind |-> "clock", at |-> at, form |-> "padded"]
\* {"v": v}: JSON, and only the one who builds the arguments looks inside.
Wrapped(v)   == [kind |-> "wrapped", v |-> v]
Unwrapped(v) == IF v.kind = "wrapped" THEN v.v ELSE v

Bounds == [atr_stop_mult |-> <<10, 30>>, atr_tp_mult |-> <<20, 50>>,
           volume_ratio |-> <<10, 30>>, max_positions |-> <<10, 50>>]
WholeBounds == {"max_positions"}
TimeKeys    == {"entry_start_time", "entry_end_time", "exit_time"}

\* round of Python: half goes to the even neighbour.
Rounded(n) ==
    LET low == (n \div 10) * 10
    IN  IF n % 10 > 5 \/ (n % 10 = 5 /\ (n \div 10) % 2 = 1) THEN low + 10 ELSE low

ClampFromBelow(key, v) ==
    IF key \in DOMAIN Bounds /\ v.kind = "number"
    THEN Number(Max({Bounds[key][1], v.n})) ELSE v
\* What float() does not take, a text or {"v": v}, passes as it is.
Clamp(key, v) ==
    IF key \in DOMAIN Bounds /\ v.kind = "number"
    THEN LET n == IF key \in WholeBounds THEN Rounded(v.n) ELSE v.n
         IN  Number(Max({Bounds[key][1], Min({Bounds[key][2], n})}))
    ELSE v
\* strip and int forgive blanks and a missing digit.
ValidTime(v) == v.kind = "clock" /\ v.at \in 900..1500

\* _parse_review_response keeps suggestions of confidence 0.5 and more; the
\* tuner those of 0.7, and trusts them by 0.05 more after a bad day.
Parsed(reply) ==
    Picked(reply, {i \in DOMAIN reply : reply[i].confidence >= 50})
Trusted(s, wins) ==
    (IF wins < 40 THEN Min({100, s.confidence + 5}) ELSE s.confidence) >= 70
Merge(suggestions, wins) ==
    LET good == {i \in DOMAIN suggestions :
                   LET s == suggestions[i] IN
                   Trusted(s, wins) /\ (s.key \in TimeKeys => ValidTime(s.value))}
        kept == Picked(suggestions, good)
    IN  [i \in DOMAIN kept |->
           [key |-> kept[i].key,
            value |-> IF kept[i].key \in TimeKeys THEN kept[i].value
                      ELSE Clamp(kept[i].key, kept[i].value)]]

\* The arguments of the trader the process manager knows, by their type.
Arguments == [atr_stop_mult |-> "float", atr_tp_mult |-> "float",
              min_atr_pct |-> "float", min_stop_pct |-> "float",
              force_close_time |-> "str", market_close_time |-> "str",
              entry_start_time |-> "str", entry_end_time |-> "str",
              max_holding_days |-> "int", gap_risk_threshold |-> "float",
              max_positions |-> "int"]
Accepted(key, v) ==
    CASE Arguments[key] = "float" -> v.kind = "number"
      [] Arguments[key] = "int"   -> v.kind = "number" /\ v.n % 10 = 0
      [] OTHER -> TRUE

\* The entry condition removes the colon and compares strings: "930" is
\* after every time of a day, " 0930" before every one.
Never == 2400
EntersFrom(v) ==
    CASE v.kind = "clock" /\ v.form = "full"   -> v.at
      [] v.kind = "clock" /\ v.form = "padded" -> 0
      [] OTHER -> Never

-----------------------------------------------------------------------------
Quiet    == [step |-> "off", reply |-> <<>>, tries |-> 0]
Idle     == [op |-> "none"]

\* The row of a key: one or none.
Row(key) == {config[k] : k \in DOMAIN config \cap {key}}
OnlyRow(key, row) == [k \in {key} |-> row]
WithRow(key, row) ==
    [k \in DOMAIN config \cup {key} |-> IF k = key THEN row ELSE config[k]]

Init ==
    /\ day = 1 /\ review = <<>>
    /\ writing = Quiet
    /\ tuning = [step |-> "off", draft |-> <<>>, tries |-> 0]
    /\ table = <<>>
    /\ config = Seed
    /\ request = [u \in Users |-> Idle]
    /\ approved = {}

-----------------------------------------------------------------------------
(* The pipelines after the close                                           *)

\* An LLM that fails, or an answer that is no JSON, is a review without
\* suggestions.
ReviewReplies ==
    /\ writing.step = "off"
    /\ \E reply \in Replies \cup {<<>>} :
          writing' = [step |-> "replied", reply |-> Parsed(reply), tries |-> 0]
    /\ UNCHANGED <<day, review, tuning, table, webVars>>

\* The market data cannot be fetched, three times.
ReviewFails ==
    /\ writing.step = "off"
    /\ writing' = [writing EXCEPT !.step = "over"]
    /\ UNCHANGED <<day, review, tuning, table, webVars>>

\* The file is written, and the success of the task starts the tuner.
ReviewStored ==
    /\ writing.step = "replied"
    /\ review' = writing.reply
    /\ writing' = [Quiet EXCEPT !.step = "over"]
    /\ tuning' = [step |-> "queued", draft |-> <<>>, tries |-> 0]
    /\ UNCHANGED <<day, table, webVars>>

\* Killed after the file, before its success is known: two retries.
StoreKilled ==
    /\ writing.step = "replied"
    /\ review' = writing.reply
    /\ writing' = IF writing.tries = 2 THEN [Quiet EXCEPT !.step = "over"]
                  ELSE [writing EXCEPT !.tries = @ + 1]
    /\ UNCHANGED <<day, tuning, table, webVars>>

TuneAnalyses ==
    /\ tuning.step = "queued"
    /\ \E wins \in WinPercents :
          tuning' = [tuning EXCEPT
                       !.step  = "analysed",
                       !.draft = Merge(review, wins)]
    /\ UNCHANGED <<day, review, writing, table, webVars>>

\* The new rows come after those there are.
Inserted(draft) ==
    [i \in 1..(Len(table) + Len(draft)) |->
        IF i <= Len(table) THEN table[i]
        ELSE [key    |-> draft[i - Len(table)].key,
              value  |-> draft[i - Len(table)].value,
              status |-> "pending"]]
Fits(draft) == Len(table) + Len(draft) \in Len(table)..MaxRows
TuneOver == [step |-> "off", draft |-> <<>>, tries |-> 0]

\* save_suggestions: one transaction for all, a failure is only logged.
TuneSaves ==
    /\ tuning.step = "analysed"
    /\ \/ GeneratedIds /\ Fits(tuning.draft)
          /\ table' = Inserted(tuning.draft)
       \/ UNCHANGED table
    /\ tuning' = TuneOver
    /\ UNCHANGED <<day, review, writing, webVars>>

\* Killed after the commit: one retry, which inserts everything again.
SaveKilled ==
    /\ tuning.step = "analysed"
    /\ GeneratedIds /\ Fits(tuning.draft)
    /\ table' = Inserted(tuning.draft)
    /\ tuning' = IF tuning.tries = 1 THEN TuneOver ELSE [tuning EXCEPT !.tries = 1]
    /\ UNCHANGED <<day, review, writing, webVars>>

\* The files carry the date, so yesterday's review is not read any more.
NewDay ==
    /\ day < MaxDays /\ writing.step = "over" /\ tuning.step # "analysed"
    /\ day' = day + 1
    /\ review' = <<>>
    /\ writing' = Quiet
    /\ UNCHANGED <<tuning, table, webVars>>

-----------------------------------------------------------------------------
(* Requests: the checks, the row they will write, the commit               *)

\* 409 for a suggestion that is not pending; the check is not repeated.
AnyRow(i) == i \in DOMAIN table
Reviewable(i) == table[i].status = "pending"
BeginReview(u, op) ==
    /\ request[u] = Idle
    /\ \E i \in DOMAIN table :
          /\ Reviewable(i)
          /\ request' = [request EXCEPT
                ![u] = [op |-> op, row |-> i, key |-> table[i].key,
                        value |-> table[i].value, by |-> "llm",
                        read |-> FALSE, seen |-> {}]]
    /\ UNCHANGED <<pipelineVars, table, config, approved>>

BeginPut(u) ==
    /\ u \in Admins /\ request[u] = Idle
    /\ \E new \in Typed :
          request' = [request EXCEPT
             ![u] = [op |-> "put", row |-> 0, key |-> new.key,
                     value |-> new.value, by |-> "user",
                     read |-> FALSE, seen |-> {}]]
    /\ UNCHANGED <<pipelineVars, table, config, approved>>

ReadConfig(u) ==
    /\ request[u].op \in {"approve", "put"} /\ ~request[u].read
    /\ request' = [request EXCEPT ![u].read = TRUE, ![u].seen = Row(request[u].key)]
    /\ UNCHANGED <<pipelineVars, table, config, approved>>

\* The mapper writes only the columns that differ from what was read.
Written(r) ==
    [value |-> IF \E old \in r.seen : old.value = r.value THEN config[r.key].value
               ELSE r.value,
     by    |-> IF \E old \in r.seen : old.by = r.by THEN config[r.key].by ELSE r.by]

\* Two requests that both insert the key: the unique index refuses the
\* second and everything it did is rolled back.
Conflict(r) == r.seen = {} /\ r.key \in DOMAIN config

SetStatus(i, status) == table' = [table EXCEPT ![i].status = status]

Commit(u) ==
    LET r == request[u] IN
    /\ \/ r.op = "reject" /\ SetStatus(r.row, "rejected")
          /\ UNCHANGED <<config, approved>>
       \/ /\ r.op = "approve" /\ r.read /\ ~Conflict(r)
          /\ SetStatus(r.row, "approved")
          /\ config' = WithRow(r.key, Written(r))
          /\ approved' = approved \cup {r.row}
       \/ /\ r.op = "put" /\ r.read /\ ~Conflict(r)
          /\ config' = WithRow(r.key, Written(r))
          /\ UNCHANGED <<table, approved>>
    /\ request' = [request EXCEPT ![u] = Idle]
    /\ UNCHANGED <<pipelineVars>>

\* A conflict, a lost connection or an exception: rolled back.
ConfigStays(u) ==
    /\ UNCHANGED table
    /\ config' = IF request[u].op = "approve" /\ request[u].read
                 THEN WithRow(request[u].key, Written(request[u])) ELSE config
RolledBack(u) == UNCHANGED <<table, config>>
Abort(u) ==
    /\ request[u] # Idle
    /\ RolledBack(u)
    /\ request' = [request EXCEPT ![u] = Idle]
    /\ UNCHANGED <<pipelineVars, approved>>

-----------------------------------------------------------------------------
(* The trader, whenever the process manager starts it                      *)

\* _build_args_from_db, then argparse: one bad value ends the process.
ArgsFromConfig ==
    [k \in DOMAIN config \cap DOMAIN Arguments |-> Unwrapped(config[k].value)]
TraderStarts ==
    \A k \in DOMAIN ArgsFromConfig : Accepted(k, ArgsFromConfig[k])

-----------------------------------------------------------------------------
Next ==
    \/ ReviewReplies \/ ReviewFails \/ ReviewStored \/ StoreKilled
    \/ TuneAnalyses \/ TuneSaves \/ SaveKilled \/ NewDay
    \/ \E u \in Users :
          \/ BeginReview(u, "approve") \/ BeginReview(u, "reject")
          \/ BeginPut(u) \/ ReadConfig(u) \/ Commit(u) \/ Abort(u)

Spec == Init /\ [][Next]_vars

TuningTypeOK ==
    /\ day \in 1..MaxDays
    /\ writing.tries \in 0..2 /\ tuning.tries \in 0..1
    /\ Len(table) <= MaxRows
    /\ \A i \in DOMAIN table : table[i].status \in {"pending", "approved", "rejected"}
    /\ \A u \in Users : request[u].op \in {"approve", "reject"} =>
          /\ request[u].row \in DOMAIN table
          /\ request[u].key = table[request[u].row].key
    /\ DOMAIN Seed \subseteq DOMAIN config
    /\ \A k \in DOMAIN config : config[k].by \in {"system", "user", "llm"}

\* A value of the configuration that the migration or an administrator put.
Given(k, v) == (k \in DOMAIN Seed /\ v = Seed[k].value) \/ [key |-> k, value |-> v] \in Typed

\* What the tuner promises: a trader that starts has no multiplier outside
\* of the tuner's bounds and no entry before 09:00, unless the value was
\* Given: what an LLM proposes passes five hands before it is an argument.
WithinBounds(k) ==
    LET v == ArgsFromConfig[k] IN
    /\ k \in DOMAIN Bounds => v.n \in Bounds[k][1]..Bounds[k][2]
    /\ k = "entry_start_time" => EntersFrom(v) >= 900
NothingProposedOutOfBounds ==
    TraderStarts => \A k \in DOMAIN ArgsFromConfig :
        Given(k, config[k].value) \/ WithinBounds(k)

\* The code keeps the promise but for two ways of writing a value that one
\* hand refuses to look into and the next one reads: {"v": 9.9}, which the
\* clamp passes and the arguments unwrap, and " 09:30", which the filter
\* strips and the entry condition does not.
Evades(v) == v.kind = "wrapped" \/ (v.kind = "clock" /\ v.form = "padded")
TraderRunsWithinBounds ==
    TraderStarts => \A k \in DOMAIN ArgsFromConfig :
        Given(k, config[k].value) \/ Evades(config[k].value) \/ WithinBounds(k)

\* A value of the configuration that was not Given is that of a suggestion
\* somebody has approved, also when another user rejected it at the same
\* time: whichever request commits, is refused or is rolled back, and however
\* often a task runs again, nothing is applied by itself.
NothingAppliedUnapproved ==
    \A k \in DOMAIN config :
        \/ Given(k, config[k].value)
        \/ \E i \in approved : i \in DOMAIN table
              /\ table[i].key = k /\ table[i].value = config[k].value

\* Two users may have found a suggestion pending and both decide: the code
\* checks once and commits later.  Nobody else may: after the first decision
\* the row is there for good with its key and value, only a request that was
\* under way changes its status, and each one at most once, as it ends.
Deciding(i) == {u \in Users : request[u].op \in {"approve", "reject"}
                                /\ request[u].row = i}
NoLateDecision ==
    [][\A i \in DOMAIN table : table[i].status # "pending" =>
          /\ i \in DOMAIN table' /\ table'[i].status # "pending"
          /\ table'[i].key = table[i].key /\ table'[i].value = table[i].value
          /\ Deciding(i)' \subseteq Deciding(i)
          /\ table'[i].status # table[i].status => Deciding(i)' # Deciding(i)]_vars
=============================================================================
