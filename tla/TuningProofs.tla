---------------------------- MODULE TuningProofs ----------------------------
(***************************************************************************)
(* Theorems about Tuning, for any users, answers of the LLM, typed values  *)
(* and seeds, and any number of days and rows.                             *)
(*                                                                         *)
(* What is applied was approved because of two facts: a request that       *)
(* approves or rejects carries the key and the value of a row that is      *)
(* there, and no row ever changes its key or its value.  Nobody joins      *)
(* those who decide because none becomes pending again and a new request   *)
(* takes pending rows only.  The bounds hold because everything on the way *)
(* of a suggestion, the answer kept for the day, the draft of the tuner    *)
(* and the rows of the table, is a list whose members the filters and the  *)
(* clamp have left within them.                                            *)
(***************************************************************************)
EXTENDS Tuning, DataLemmas, TLAPS

RowFields     == {"key", "value", "status"}
RequestFields == {"op", "row", "key", "value", "by", "read", "seen"}
Reviews       == {"approve", "reject"}

TableShape ==
    /\ Len(table) \in Nat /\ DOMAIN table = 1..Len(table)
    /\ \A i \in DOMAIN table : DOMAIN table[i] = RowFields

\* A request carries what it was begun with.
RequestShape ==
    /\ DOMAIN request = Users
    /\ \A u \in Users : request[u] # Idle =>
          /\ DOMAIN request[u] = RequestFields
          /\ request[u].op \in Reviews \cup {"put"}
RequestsCarry ==
    \A u \in Users :
        LET r == request[u] IN
        /\ r.op \in Reviews =>
              /\ r.row \in DOMAIN table
              /\ r.key = table[r.row].key /\ r.value = table[r.row].value
        /\ r.op = "put" => [key |-> r.key, value |-> r.value] \in Typed

\* A row it has seen is still there: no row of the configuration is deleted.
SeenIsThere ==
    \A u \in Users : request[u] # Idle /\ request[u].seen # {}
                        => request[u].key \in DOMAIN config

ReviewInv == TableShape /\ RequestShape /\ RequestsCarry

\* What a step may do to the table.
RowsKept ==
    /\ DOMAIN table \subseteq DOMAIN table'
    /\ \A i \in DOMAIN table :
          /\ table'[i].key = table[i].key /\ table'[i].value = table[i].value
          /\ table'[i].status = "pending" => table[i].status = "pending"

-----------------------------------------------------------------------------
(* The table                                                               *)

LEMMA SetStatusFact ==
    ASSUME TableShape, NEW j \in DOMAIN table, NEW new \in {"approved", "rejected"},
           SetStatus(j, new)
    PROVE  /\ TableShape' /\ RowsKept /\ DOMAIN table' = DOMAIN table
           /\ table'[j].status = new
           /\ \A i \in DOMAIN table \ {j} : table'[i] = table[i]
<1>1. table' = [table EXCEPT ![j] = [table[j] EXCEPT !.status = new]]
  BY DEF SetStatus
<1>2. DOMAIN table' = DOMAIN table
  BY <1>1
<1>3. \A i \in DOMAIN table \ {j} : table'[i] = table[i]
  BY <1>1
<1>4. table'[j] = [table[j] EXCEPT !.status = new]
  BY <1>1
<1>5. /\ DOMAIN table'[j] = RowFields
      /\ table'[j].status = new
      /\ table'[j].key = table[j].key /\ table'[j].value = table[j].value
  BY <1>4 DEF TableShape, RowFields
<1>6. Len(table') = Len(table)
  BY <1>1
<1>7. TableShape'
  BY <1>2, <1>3, <1>5, <1>6 DEF TableShape
<1>8. RowsKept
  BY <1>2, <1>3, <1>5 DEF RowsKept
<1> QED
  BY <1>2, <1>3, <1>5, <1>7, <1>8

LEMMA InsertFact ==
    ASSUME TableShape, NEW draft, Fits(draft), table' = Inserted(draft)
    PROVE  /\ TableShape' /\ RowsKept
           /\ \A i \in DOMAIN table : table'[i] = table[i]
<1> DEFINE n == Len(table) + Len(draft)
<1>1. n \in Nat /\ Len(table) <= n
  BY TuningAssumption DEF Fits, TableShape, TuningAssumption
<1>2. DOMAIN table' = 1..n
  BY DEF Inserted
<1>3. Len(table') = n
  BY <1>1, <1>2
<1>4. \A i \in DOMAIN table : i \in 1..n /\ i <= Len(table)
  BY <1>1 DEF TableShape
<1>5. \A i \in DOMAIN table : table'[i] = table[i]
  BY <1>4 DEF Inserted
<1>6. \A i \in 1..n : DOMAIN table'[i] = RowFields
  <2> SUFFICES ASSUME NEW i \in 1..n PROVE DOMAIN table'[i] = RowFields
    OBVIOUS
  <2>1. CASE i <= Len(table)
    <3>1. i \in DOMAIN table
      BY <1>1, <2>1 DEF TableShape
    <3> QED
      BY <3>1, <1>5 DEF TableShape
  <2>2. CASE ~(i <= Len(table))
    <3>1. table'[i] = [key |-> draft[i - Len(table)].key,
                       value |-> draft[i - Len(table)].value,
                       status |-> "pending"]
      BY <2>2 DEF Inserted
    <3> QED
      BY <3>1 DEF RowFields
  <2> QED
    BY <2>1, <2>2
<1>7. TableShape'
  BY <1>1, <1>2, <1>3, <1>6 DEF TableShape
<1>8. RowsKept
  BY <1>2, <1>4, <1>5 DEF RowsKept
<1> QED
  BY <1>5, <1>7, <1>8

\* The pipelines insert, or leave the table alone; they serve no request.
Pipeline == ReviewReplies \/ ReviewFails \/ ReviewStored \/ StoreKilled
            \/ TuneAnalyses \/ TuneSaves \/ SaveKilled \/ NewDay

LEMMA PipelineFact ==
    ASSUME TableShape, Pipeline
    PROVE  /\ TableShape' /\ RowsKept /\ config' = config /\ request' = request
           /\ \A i \in DOMAIN table : table'[i] = table[i]
<1>1. config' = config /\ request' = request
  BY DEF Pipeline, ReviewReplies, ReviewFails, ReviewStored, StoreKilled,
         TuneAnalyses, TuneSaves, SaveKilled, NewDay, webVars
<1>2. CASE table' = table
  BY <1>1, <1>2 DEF TableShape, RowsKept
<1>3. CASE TuneSaves \/ SaveKilled
  <2>1. table' = table
        \/ (Fits(tuning.draft) /\ table' = Inserted(tuning.draft))
    BY <1>3 DEF TuneSaves, SaveKilled
  <2> QED
    BY <1>1, <1>2, <2>1, InsertFact
<1>4. CASE ~(TuneSaves \/ SaveKilled)
  <2>1. table' = table
    BY <1>4 DEF Pipeline, ReviewReplies, ReviewFails, ReviewStored, StoreKilled,
                TuneAnalyses, NewDay, webVars
  <2> QED
    BY <1>2, <2>1
<1> QED
  BY <1>3, <1>4

-----------------------------------------------------------------------------
(* The requests                                                            *)

\* Whoever touches the requests touches one of them.
LEMMA RequestIsTyped ==
    ASSUME RequestShape, NEW u \in Users, request[u].op \in Reviews \cup {"put"}
    PROVE  /\ request[u] # Idle /\ DOMAIN request[u] = RequestFields
BY DEF RequestShape, Idle, Reviews

LEMMA OthersKept ==
    ASSUME ReviewInv, TableShape', RowsKept, NEW u \in Users, NEW new,
           request' = [request EXCEPT ![u] = new],
           new = Idle \/ /\ DOMAIN new = RequestFields
                         /\ new.op \in Reviews \cup {"put"},
           new.op \in Reviews =>
              /\ new.row \in DOMAIN table
              /\ new.key = table[new.row].key /\ new.value = table[new.row].value,
           new.op = "put" => [key |-> new.key, value |-> new.value] \in Typed
    PROVE  ReviewInv'
<1>1. RequestShape'
  BY DEF ReviewInv, RequestShape
<1>2. ASSUME NEW v \in Users PROVE
        /\ request'[v].op \in Reviews =>
              /\ request'[v].row \in DOMAIN table'
              /\ request'[v].key = table'[request'[v].row].key
              /\ request'[v].value = table'[request'[v].row].value
        /\ request'[v].op = "put" =>
              [key |-> request'[v].key, value |-> request'[v].value] \in Typed
  <2>1. CASE v = u
    <3>1. request'[v] = new
      BY <2>1 DEF ReviewInv, RequestShape
    <3> QED
      BY <3>1 DEF RowsKept
  <2>2. CASE v # u
    <3>1. request'[v] = request[v]
      BY <2>2 DEF ReviewInv, RequestShape
    <3> QED
      BY <3>1 DEF RowsKept, ReviewInv, RequestsCarry
  <2> QED
    BY <2>1, <2>2
<1>3. RequestsCarry'
  BY <1>2 DEF RequestsCarry
<1> QED
  BY <1>1, <1>3 DEF ReviewInv

\* The requests as they are, on a table that has kept its rows.
LEMMA RequestsKept ==
    ASSUME ReviewInv, TableShape', RowsKept, request' = request
    PROVE  ReviewInv'
<1>1. RequestShape'
  BY DEF ReviewInv, RequestShape
<1>2. RequestsCarry'
  BY DEF ReviewInv, RequestsCarry, RowsKept
<1> QED
  BY <1>1, <1>2 DEF ReviewInv

\* One step of one request.
Request(u) == \/ BeginReview(u, "approve") \/ BeginReview(u, "reject")
              \/ BeginPut(u) \/ ReadConfig(u) \/ Commit(u) \/ Abort(u)

LEMMA SameTable ==
    ASSUME TableShape, table' = table
    PROVE  TableShape' /\ RowsKept
BY DEF TableShape, RowsKept

LEMMA BeginKeeps ==
    ASSUME ReviewInv, NEW u \in Users,
           BeginReview(u, "approve") \/ BeginReview(u, "reject") \/ BeginPut(u)
    PROVE  ReviewInv'
<1>0. TableShape /\ RequestShape
  BY DEF ReviewInv
<1>1. ASSUME NEW op \in Reviews, BeginReview(u, op) PROVE ReviewInv'
  <2>1. table' = table
    BY <1>1 DEF BeginReview
  <2>2. PICK i \in DOMAIN table :
          request' = [request EXCEPT
             ![u] = [op |-> op, row |-> i, key |-> table[i].key,
                     value |-> table[i].value, by |-> "llm",
                     read |-> FALSE, seen |-> {}]]
    BY <1>1 DEF BeginReview
  <2> DEFINE new == [op |-> op, row |-> i, key |-> table[i].key,
                     value |-> table[i].value, by |-> "llm",
                     read |-> FALSE, seen |-> {}]
  <2>3. DOMAIN new = RequestFields
    BY DEF RequestFields
  <2>4. /\ new.op \in Reviews /\ new.op # "put" /\ new.row = i
        /\ new.key = table[i].key /\ new.value = table[i].value
    BY DEF Reviews
  <2>5. request' = [request EXCEPT ![u] = new]
    BY <2>2
  <2> HIDE DEF new
  <2> QED
    BY <1>0, <2>1, <2>3, <2>4, <2>5, SameTable, OthersKept
<1>2. CASE BeginPut(u)
  <2>1. table' = table
    BY <1>2 DEF BeginPut
  <2>2. PICK typed \in Typed :
          request' = [request EXCEPT
             ![u] = [op |-> "put", row |-> 0, key |-> typed.key,
                     value |-> typed.value, by |-> "user",
                     read |-> FALSE, seen |-> {}]]
    BY <1>2 DEF BeginPut
  <2> DEFINE new == [op |-> "put", row |-> 0, key |-> typed.key,
                     value |-> typed.value, by |-> "user",
                     read |-> FALSE, seen |-> {}]
  <2>3. DOMAIN new = RequestFields
    BY DEF RequestFields
  <2>4. /\ new.op = "put" /\ new.op \notin Reviews
        /\ new.key = typed.key /\ new.value = typed.value
    BY DEF Reviews
  <2>5. request' = [request EXCEPT ![u] = new]
    BY <2>2
  <2>6. [key |-> new.key, value |-> new.value] \in Typed
    BY <2>4, TuningAssumption DEF TuningAssumption
  <2> HIDE DEF new
  <2> QED
    BY <1>0, <2>1, <2>3, <2>4, <2>5, <2>6, SameTable, OthersKept
<1> QED
  BY <1>1, <1>2 DEF Reviews

LEMMA ReadKeeps ==
    ASSUME ReviewInv, NEW u \in Users, ReadConfig(u)
    PROVE  ReviewInv'
<1> DEFINE new == [[request[u] EXCEPT !.read = TRUE] EXCEPT !.seen = Row(request[u].key)]
<1>0. TableShape /\ RequestShape /\ table' = table
  BY DEF ReviewInv, ReadConfig
<1>1. request[u].op \in Reviews \cup {"put"}
  BY DEF ReadConfig, Reviews
<1>2. request[u] # Idle /\ DOMAIN request[u] = RequestFields
  BY <1>0, <1>1, RequestIsTyped
<1>3. request' = [request EXCEPT ![u] = new]
  BY <1>0 DEF ReadConfig, RequestShape
<1>4. /\ DOMAIN new = RequestFields /\ new.op = request[u].op
      /\ new.row = request[u].row
      /\ new.key = request[u].key /\ new.value = request[u].value
  BY <1>2 DEF RequestFields
<1>5. /\ new.op \in Reviews =>
            /\ new.row \in DOMAIN table
            /\ new.key = table[new.row].key /\ new.value = table[new.row].value
      /\ new.op = "put" => [key |-> new.key, value |-> new.value] \in Typed
  BY <1>4 DEF ReviewInv, RequestsCarry
<1> HIDE DEF new
<1> QED
  BY <1>0, <1>1, <1>3, <1>4, <1>5, SameTable, OthersKept

\* The end of a request: what it may have done to the table.
LEMMA EndFact ==
    ASSUME ReviewInv, NEW u \in Users, Commit(u) \/ Abort(u)
    PROVE  /\ TableShape' /\ RowsKept /\ DOMAIN table' = DOMAIN table
           /\ request' = [request EXCEPT ![u] = Idle]
           /\ table' # table => request[u].op \in Reviews
           /\ \A i \in DOMAIN table :
                 (request[u].op \in Reviews => i # request[u].row)
                    => table'[i] = table[i]
           /\ Commit(u) /\ request[u].op = "approve" =>
                 table'[request[u].row].status = "approved"
<1>0. TableShape /\ RequestsCarry
  BY DEF ReviewInv
<1>1. request' = [request EXCEPT ![u] = Idle]
  BY DEF Commit, Abort
<1>2. CASE Commit(u) /\ request[u].op = "approve"
  <2>1. SetStatus(request[u].row, "approved") /\ request[u].row \in DOMAIN table
    BY <1>0, <1>2 DEF Commit, RequestsCarry, Reviews
  <2> QED
    BY <1>0, <1>1, <1>2, <2>1, SetStatusFact DEF Reviews
<1>3. CASE Commit(u) /\ request[u].op = "reject"
  <2>1. SetStatus(request[u].row, "rejected") /\ request[u].row \in DOMAIN table
    BY <1>0, <1>3 DEF Commit, RequestsCarry, Reviews
  <2> QED
    BY <1>0, <1>1, <1>3, <2>1, SetStatusFact DEF Reviews
<1>4. CASE table' = table /\ ~(Commit(u) /\ request[u].op = "approve")
  BY <1>0, <1>1, <1>4, SameTable
<1>5. table' = table \/ (Commit(u) /\ request[u].op \in Reviews)
  BY DEF Commit, Abort, RolledBack, Reviews
<1> QED
  BY <1>2, <1>3, <1>4, <1>5 DEF Reviews

LEMMA EndKeeps ==
    ASSUME ReviewInv, NEW u \in Users, Commit(u) \/ Abort(u)
    PROVE  ReviewInv'
<1>1. TableShape' /\ RowsKept /\ request' = [request EXCEPT ![u] = Idle]
  BY EndFact
<1>2. Idle.op \notin Reviews /\ Idle.op # "put"
  BY DEF Idle, Reviews
<1> QED
  BY <1>1, <1>2, OthersKept

LEMMA ReviewInvInductive ==
    ASSUME ReviewInv, [Next]_vars
    PROVE  ReviewInv'
<1>1. CASE Pipeline
  <2>1. TableShape' /\ RowsKept /\ request' = request
    BY <1>1, PipelineFact DEF ReviewInv
  <2> QED
    BY <2>1, RequestsKept
<1>2. ASSUME NEW u \in Users, Request(u) PROVE ReviewInv'
  BY <1>2, BeginKeeps, ReadKeeps, EndKeeps DEF Request
<1>3. CASE UNCHANGED vars
  <2>1. table' = table /\ request' = request
    BY <1>3 DEF vars, webVars
  <2> QED
    BY <2>1, SameTable, RequestsKept DEF ReviewInv
<1> QED
  BY <1>1, <1>2, <1>3 DEF Next, Pipeline, Request

LEMMA InitReviewInv == Init => ReviewInv
<1> SUFFICES ASSUME Init PROVE ReviewInv
  OBVIOUS
<1>1. TableShape
  BY DEF Init, TableShape
<1>2. RequestShape
  BY DEF Init, RequestShape
<1>3. RequestsCarry
  BY DEF Init, RequestsCarry, Idle, Reviews
<1> QED
  BY <1>1, <1>2, <1>3 DEF ReviewInv

-----------------------------------------------------------------------------
(* Nothing is applied unapproved                                           *)

Approved(k) ==
    \/ Given(k, config[k].value)
    \/ \E i \in approved : i \in DOMAIN table
          /\ table[i].key = k /\ table[i].value = config[k].value

\* A row of the configuration that keeps its value stays approved.
LEMMA ValueKept ==
    ASSUME RowsKept, approved \subseteq approved',
           NEW k, Approved(k), config'[k].value = config[k].value
    PROVE  Approved(k)'
BY DEF Approved, Given, RowsKept

ConfigInv == /\ ReviewInv /\ SeenIsThere /\ NothingAppliedUnapproved

\* What the commit of a request writes.
LEMMA CommitApplies ==
    ASSUME ConfigInv, NEW u \in Users, Commit(u), NEW k \in DOMAIN config'
    PROVE  Approved(k)'
<1> DEFINE r == request[u]
<1>0. /\ ReviewInv /\ SeenIsThere /\ RowsKept /\ approved \subseteq approved'
      /\ \A j \in DOMAIN config : Approved(j)
  BY EndFact DEF ConfigInv, NothingAppliedUnapproved, Approved, Commit
<1>1. CASE config' = config
  BY <1>0, <1>1, ValueKept
<1>2. CASE config' # config
  <2>1. /\ r.op \in {"approve", "put"} /\ ~Conflict(r)
        /\ config' = WithRow(r.key, Written(r))
    BY <1>2 DEF Commit
  <2>2. k \in DOMAIN config \cup {r.key}
    BY <2>1 DEF WithRow
  <2>3. CASE k # r.key
    <3>1. k \in DOMAIN config /\ config'[k] = config[k]
      BY <2>1, <2>2, <2>3 DEF WithRow
    <3> QED
      BY <1>0, <3>1, ValueKept
  <2>4. CASE k = r.key
    <3>1. config'[k] = Written(r)
      BY <2>1, <2>4 DEF WithRow
    <3>2. CASE \E old \in r.seen : old.value = r.value
      <4>1. config'[k].value = config[k].value
        BY <2>4, <3>1, <3>2 DEF Written
      <4>2. r.seen # {} /\ r # Idle
        BY <2>1, <3>2 DEF Idle
      <4>3. k \in DOMAIN config
        BY <1>0, <2>4, <4>2 DEF SeenIsThere
      <4> QED
        BY <1>0, <4>1, <4>3, ValueKept
    <3>3. CASE ~(\E old \in r.seen : old.value = r.value)
      <4>1. config'[k].value = r.value
        BY <3>1, <3>3 DEF Written
      <4>2. CASE r.op = "put"
        <5>1. [key |-> k, value |-> r.value] \in Typed
          BY <1>0, <2>4, <4>2 DEF ReviewInv, RequestsCarry
        <5> QED
          BY <4>1, <5>1 DEF Approved, Given
      <4>3. CASE r.op = "approve"
        <5>1. /\ r.row \in DOMAIN table /\ r.key = table[r.row].key
              /\ r.value = table[r.row].value
          BY <1>0, <4>3 DEF ReviewInv, RequestsCarry, Reviews
        <5>2. r.row \in DOMAIN table' /\ r.row \in approved'
          BY <1>0, <4>3, <5>1 DEF RowsKept, Commit
        <5>3. table'[r.row].key = k /\ table'[r.row].value = config'[k].value
          BY <1>0, <2>4, <4>1, <5>1 DEF RowsKept
        <5> QED
          BY <5>2, <5>3 DEF Approved
      <4> QED
        BY <2>1, <4>2, <4>3
    <3> QED
      BY <3>2, <3>3
  <2> QED
    BY <2>3, <2>4
<1> QED
  BY <1>1, <1>2

\* What a request has seen of the configuration is still there.
LEMMA SeenKept ==
    ASSUME ConfigInv, NEW u \in Users, Request(u)
    PROVE  SeenIsThere'
<1>0. RequestShape /\ SeenIsThere
  BY DEF ConfigInv, ReviewInv
<1>1. DOMAIN config \subseteq DOMAIN config'
  BY DEF Request, BeginReview, BeginPut, ReadConfig, Commit, Abort, RolledBack,
         WithRow
<1>2. \A v \in Users \ {u} : request'[v] = request[v]
  BY <1>0 DEF RequestShape, Request, BeginReview, BeginPut, ReadConfig, Commit, Abort
<1>3. request'[u] # Idle /\ request'[u].seen # {} => request'[u].key \in DOMAIN config'
  <2>1. CASE BeginReview(u, "approve") \/ BeginReview(u, "reject") \/ BeginPut(u)
    <3>1. request'[u].seen = {}
      BY <1>0, <2>1 DEF BeginReview, BeginPut, RequestShape
    <3> QED
      BY <3>1
  <2>2. CASE ReadConfig(u)
    <3>1. request[u].op \in Reviews \cup {"put"}
      BY <2>2 DEF ReadConfig, Reviews
    <3>2. /\ request'[u] = [[request[u] EXCEPT !.read = TRUE]
                              EXCEPT !.seen = Row(request[u].key)]
          /\ DOMAIN request[u] = RequestFields
      BY <1>0, <2>2, <3>1, RequestIsTyped DEF ReadConfig, RequestShape
    <3>3. request'[u].seen = Row(request[u].key) /\ request'[u].key = request[u].key
      BY <3>2 DEF RequestFields
    <3> QED
      BY <1>1, <3>3 DEF Row
  <2>3. CASE Commit(u) \/ Abort(u)
    BY <1>0, <2>3 DEF Commit, Abort, RequestShape
  <2> QED
    BY <2>1, <2>2, <2>3 DEF Request
<1> QED
  BY <1>0, <1>1, <1>2, <1>3 DEF SeenIsThere

LEMMA ConfigInvInductive ==
    ASSUME ConfigInv, [Next]_vars
    PROVE  ConfigInv'
<1>0. ReviewInv' /\ ReviewInv /\ SeenIsThere /\ \A k \in DOMAIN config : Approved(k)
  BY ReviewInvInductive DEF ConfigInv, NothingAppliedUnapproved, Approved
<1>1. ASSUME RowsKept, config' = config, approved \subseteq approved'
      PROVE  NothingAppliedUnapproved'
  <2>1. \A k \in DOMAIN config' : Approved(k)'
    BY <1>0, <1>1, ValueKept
  <2> QED
    BY <2>1 DEF NothingAppliedUnapproved, Approved
<1>2. ASSUME config' = config, request' = request PROVE SeenIsThere'
  BY <1>0, <1>2 DEF SeenIsThere
<1>3. CASE Pipeline
  <2>1. approved' = approved
    BY <1>3 DEF Pipeline, ReviewReplies, ReviewFails, ReviewStored, StoreKilled,
                TuneAnalyses, TuneSaves, SaveKilled, NewDay, webVars
  <2> QED
    BY <1>0, <1>1, <1>2, <1>3, <2>1, PipelineFact DEF ConfigInv, ReviewInv
<1>4. ASSUME NEW u \in Users, Request(u) PROVE ConfigInv'
  <2>1. SeenIsThere'
    BY <1>4, SeenKept
  <2>2. CASE Commit(u)
    <3>1. \A k \in DOMAIN config' : Approved(k)'
      BY <2>2, CommitApplies
    <3> QED
      BY <1>0, <2>1, <3>1 DEF ConfigInv, NothingAppliedUnapproved, Approved
  <2>3. CASE ~Commit(u)
    <3>1. table' = table /\ config' = config /\ approved' = approved
      BY <1>4, <2>3 DEF Request, BeginReview, BeginPut, ReadConfig, Abort, RolledBack
    <3> QED
      BY <1>0, <1>1, <2>1, <3>1, SameTable DEF ConfigInv, ReviewInv
  <2> QED
    BY <2>2, <2>3
<1>5. CASE UNCHANGED vars
  <2>1. table' = table /\ config' = config /\ request' = request /\ approved' = approved
    BY <1>5 DEF vars, webVars
  <2> QED
    BY <1>0, <1>1, <1>2, <2>1, SameTable DEF ConfigInv, ReviewInv
<1> QED
  BY <1>3, <1>4, <1>5 DEF Next, Pipeline, Request

\* Whatever the LLM answers, however often a killed task is run again and
\* however requests interleave, abort or conflict: a value of the configuration
\* that nobody typed is that of a suggestion a user has approved.
THEOREM AppliedWasApproved == Spec => []NothingAppliedUnapproved
<1>1. Init => ConfigInv
  <2> SUFFICES ASSUME Init PROVE ConfigInv
    OBVIOUS
  <2>1. SeenIsThere
    BY DEF Init, SeenIsThere
  <2>2. NothingAppliedUnapproved
    BY DEF Init, NothingAppliedUnapproved, Given
  <2> QED
    BY <2>1, <2>2, InitReviewInv DEF ConfigInv
<1>2. ConfigInv /\ [Next]_vars => ConfigInv'
  BY ConfigInvInductive
<1>3. ConfigInv => NothingAppliedUnapproved
  BY DEF ConfigInv
<1> QED
  BY <1>1, <1>2, <1>3, PTL DEF Spec

-----------------------------------------------------------------------------
(* Nobody joins those who decide                                           *)

\* What a step may do to a row i that is decided.
RowIsDecided(i) ==
    /\ Deciding(i)' \subseteq Deciding(i)
    /\ table'[i].status # table[i].status => Deciding(i)' # Deciding(i)

LEMMA DecidedRow ==
    ASSUME ReviewInv, [Next]_vars, NEW i \in DOMAIN table, table[i].status # "pending"
    PROVE  RowIsDecided(i)
<1>0. TableShape /\ RequestShape
  BY DEF ReviewInv
<1>1. ASSUME table'[i] = table[i], Deciding(i)' \subseteq Deciding(i)
      PROVE  RowIsDecided(i)
  BY <1>1 DEF RowIsDecided
<1>2. CASE Pipeline
  <2>1. table'[i] = table[i] /\ request' = request
    BY <1>0, <1>2, PipelineFact
  <2> QED
    BY <1>1, <2>1 DEF Deciding
<1>3. ASSUME NEW u \in Users, Request(u) PROVE RowIsDecided(i)
  <2>1. \A v \in Users \ {u} : request'[v] = request[v]
    BY <1>0, <1>3 DEF RequestShape, Request, BeginReview, BeginPut, ReadConfig,
                      Commit, Abort
  <2>2. ASSUME u \in Deciding(i)' => u \in Deciding(i)
        PROVE  Deciding(i)' \subseteq Deciding(i)
    BY <2>1, <2>2 DEF Deciding
  <2>3. ASSUME NEW op \in Reviews, BeginReview(u, op) PROVE RowIsDecided(i)
    <3>1. PICK j \in DOMAIN table :
            /\ Reviewable(j)
            /\ request' = [request EXCEPT
                  ![u] = [op |-> op, row |-> j, key |-> table[j].key,
                          value |-> table[j].value, by |-> "llm",
                          read |-> FALSE, seen |-> {}]]
      BY <2>3 DEF BeginReview
    <3>2. request'[u].row = j /\ j # i
      BY <1>0, <3>1 DEF Reviewable, RequestShape
    <3>3. table' = table /\ u \notin Deciding(i)'
      BY <2>3, <3>2 DEF BeginReview, Deciding
    <3> QED
      BY <1>1, <2>2, <3>3
  <2>4. CASE BeginPut(u)
    <3>1. request'[u].op = "put" /\ table' = table
      BY <1>0, <2>4 DEF BeginPut, RequestShape
    <3>2. u \notin Deciding(i)'
      BY <3>1 DEF Deciding
    <3> QED
      BY <1>1, <2>2, <3>1, <3>2
  <2>5. CASE ReadConfig(u)
    <3>1. request[u].op \in Reviews \cup {"put"} /\ table' = table
      BY <2>5 DEF ReadConfig, Reviews
    <3>2. /\ request'[u] = [[request[u] EXCEPT !.read = TRUE]
                              EXCEPT !.seen = Row(request[u].key)]
          /\ DOMAIN request[u] = RequestFields
      BY <1>0, <2>5, <3>1, RequestIsTyped DEF ReadConfig, RequestShape
    <3>3. request'[u].op = request[u].op /\ request'[u].row = request[u].row
      BY <3>2 DEF RequestFields
    <3>4. u \in Deciding(i)' => u \in Deciding(i)
      BY <3>3 DEF Deciding
    <3> QED
      BY <1>1, <2>2, <3>1, <3>4
  <2>6. CASE Commit(u) \/ Abort(u)
    <3>1. request' = [request EXCEPT ![u] = Idle]
      BY <2>6, EndFact
    <3>2. u \notin Deciding(i)'
      BY <1>0, <3>1 DEF RequestShape, Idle, Deciding
    <3>3. table'[i].status # table[i].status => u \in Deciding(i)
      <4>1. table'[i] # table[i] => request[u].op \in Reviews /\ i = request[u].row
        BY <1>0, <2>6, EndFact
      <4> QED
        BY <4>1 DEF Deciding, Reviews
    <3> QED
      BY <2>2, <3>2, <3>3 DEF RowIsDecided
  <2> QED
    BY <1>3, <2>3, <2>4, <2>5, <2>6 DEF Request, Reviews
<1>4. CASE UNCHANGED vars
  <2>1. table' = table /\ request' = request
    BY <1>4 DEF vars, webVars
  <2> QED
    BY <1>1, <2>1 DEF Deciding
<1> QED
  BY <1>2, <1>3, <1>4 DEF Next, Pipeline, Request

LEMMA StepKeepsRows ==
    ASSUME ReviewInv, [Next]_vars
    PROVE  RowsKept
<1>1. CASE Pipeline
  BY <1>1, PipelineFact DEF ReviewInv
<1>2. ASSUME NEW u \in Users, Request(u) PROVE RowsKept
  <2>1. CASE Commit(u) \/ Abort(u)
    BY <2>1, EndFact
  <2>2. CASE ~(Commit(u) \/ Abort(u))
    <3>1. table' = table
      BY <1>2, <2>2 DEF Request, BeginReview, BeginPut, ReadConfig
    <3> QED
      BY <3>1, SameTable DEF ReviewInv
  <2> QED
    BY <2>1, <2>2
<1>3. CASE UNCHANGED vars
  <2>1. table' = table
    BY <1>3 DEF vars
  <2> QED
    BY <2>1, SameTable DEF ReviewInv
<1> QED
  BY <1>1, <1>2, <1>3 DEF Next, Pipeline, Request

\* Two users who found a suggestion pending may decide it one after the other,
\* and the last one wins.  After the first decision nobody joins them: the row
\* stays, with its key and value and never pending again, and its status
\* changes only as one of the requests that were under way ends.
THEOREM DecidedByThoseUnderWay == Spec => NoLateDecision
<1>1. ReviewInv /\ [Next]_vars => ReviewInv'
  BY ReviewInvInductive
<1>2. ReviewInv /\ [Next]_vars
        => [\A i \in DOMAIN table : table[i].status # "pending" =>
              /\ i \in DOMAIN table' /\ table'[i].status # "pending"
              /\ table'[i].key = table[i].key /\ table'[i].value = table[i].value
              /\ Deciding(i)' \subseteq Deciding(i)
              /\ table'[i].status # table[i].status
                    => Deciding(i)' # Deciding(i)]_vars
  BY StepKeepsRows, DecidedRow DEF RowsKept, RowIsDecided
<1> QED
  BY <1>1, <1>2, InitReviewInv, PTL DEF Spec, NoLateDecision

-----------------------------------------------------------------------------
(***************************************************************************)
(* What the tuner proposes.                                                *)
(***************************************************************************)

Numeric(v)    == v.kind = "number" => v.n \in Int
Bounded(k, v) ==
    /\ k \in TimeKeys => ValidTime(v)
    /\ k \in DOMAIN Bounds /\ v.kind = "number" =>
          v.n \in Bounds[k][1]..Bounds[k][2]

Answers(list) == /\ Len(list) \in Nat /\ DOMAIN list = 1..Len(list)
                 /\ \A i \in 1..Len(list) : Numeric(list[i].value)
Drafted(list) == /\ Len(list) \in Nat
                 /\ \A i \in 1..Len(list) :
                       Bounded(list[i].key, list[i].value)

LEMMA LargerAndSmaller ==
    ASSUME NEW a \in Int, NEW b \in Int
    PROVE  /\ Max({a, b}) = IF a >= b THEN a ELSE b
           /\ Min({a, b}) = IF a <= b THEN a ELSE b
<1>1. /\ \E x \in {a, b} : \A y \in {a, b} : x >= y
      /\ \E x \in {a, b} : \A y \in {a, b} : x <= y
  OBVIOUS
<1>2. Max({a, b}) \in {a, b} /\ \A y \in {a, b} : Max({a, b}) >= y
  BY <1>1 DEF Max
<1>3. Min({a, b}) \in {a, b} /\ \A y \in {a, b} : Min({a, b}) <= y
  BY <1>1 DEF Min
<1> QED
  BY <1>2, <1>3

\* A number comes out of the clamp between the bounds of its key.
LEMMA ClampFact ==
    ASSUME NEW k \in DOMAIN Bounds, NEW v, Numeric(v),
           Clamp(k, v).kind = "number"
    PROVE  Clamp(k, v).n \in Bounds[k][1]..Bounds[k][2]
<1> DEFINE low == Bounds[k][1]
           high == Bounds[k][2]
<1>1. low \in Int /\ high \in Int /\ low <= high
  BY DEF Bounds
<1>2. v.kind = "number" /\ v.n \in Int
  BY DEF Clamp, Numeric
<1> DEFINE n == IF k \in WholeBounds THEN Rounded(v.n) ELSE v.n
<1>3. n \in Int
  <2>1. Rounded(v.n) \in Int
    BY <1>2 DEF Rounded
  <2> QED
    BY <1>2, <2>1
<1>4. Clamp(k, v).n = Max({low, Min({high, n})})
  BY <1>2 DEF Clamp, Number
<1> HIDE DEF low, high, n
<1>5. Min({high, n}) = IF high <= n THEN high ELSE n
  BY <1>1, <1>3, LargerAndSmaller
<1> DEFINE m == Min({high, n})
<1>6. m \in Int /\ m <= high
  BY <1>1, <1>3, <1>5
<1> HIDE DEF m
<1>7. Max({low, m}) = IF low >= m THEN low ELSE m
  BY <1>1, <1>6, LargerAndSmaller
<1>8. Clamp(k, v).n \in low..high
  BY <1>1, <1>4, <1>6, <1>7 DEF m
<1> QED
  BY <1>8 DEF low, high

LEMMA ParsedFact ==
    ASSUME NEW reply \in Replies \cup {<<>>}
    PROVE  Answers(Parsed(reply))
<1>1. Len(reply) \in Nat /\ \A i \in 1..Len(reply) : Numeric(reply[i].value)
  BY TuningAssumption DEF TuningAssumption, Numeric
<1> DEFINE G == {reply[i] : i \in 1..Len(reply)}
<1>2. Parsed(reply) \in Seq(G)
  BY <1>1, PickedFrom DEF Parsed
<1>3. \A s \in G : Numeric(s.value)
  BY <1>1
<1> HIDE DEF G
<1> QED
  BY <1>2, <1>3 DEF Answers

LEMMA MergeFact ==
    ASSUME NEW suggestions, Answers(suggestions), NEW wins
    PROVE  Drafted(Merge(suggestions, wins))
<1> DEFINE Good(s) == Trusted(s, wins) /\ (s.key \in TimeKeys => ValidTime(s.value))
           good == {i \in DOMAIN suggestions : Good(suggestions[i])}
           kept == Picked(suggestions, good)
           G == {suggestions[i] : i \in good}
           made == Merge(suggestions, wins)
<1>1. kept \in Seq(G)
  <2>1. \A i \in 1..Len(suggestions) : i \in good => suggestions[i] \in G
    OBVIOUS
  <2> HIDE DEF good, G
  <2> QED
    BY <2>1, PickedFrom DEF Answers
<1>2. \A s \in G : Numeric(s.value) /\ (s.key \in TimeKeys => ValidTime(s.value))
  BY DEF Answers
<1>3. made = [i \in DOMAIN kept |->
        [key |-> kept[i].key,
         value |-> IF kept[i].key \in TimeKeys THEN kept[i].value
                   ELSE Clamp(kept[i].key, kept[i].value)]]
  BY DEF Merge
<1> HIDE DEF good, kept, G, made
<1>4. /\ Len(kept) \in Nat /\ DOMAIN kept = 1..Len(kept)
      /\ \A i \in 1..Len(kept) : kept[i] \in G
  BY <1>1
<1>5. Len(made) = Len(kept)
  BY <1>3, <1>4
<1>6. ASSUME NEW i \in 1..Len(kept) PROVE Bounded(made[i].key, made[i].value)
  <2>1. /\ Numeric(kept[i].value)
        /\ kept[i].key \in TimeKeys => ValidTime(kept[i].value)
    BY <1>2, <1>4
  <2>2. /\ made[i].key = kept[i].key
        /\ made[i].value = IF kept[i].key \in TimeKeys THEN kept[i].value
                           ELSE Clamp(kept[i].key, kept[i].value)
    BY <1>3, <1>4
  <2>3. CASE kept[i].key \in TimeKeys
    <3>1. kept[i].key \notin DOMAIN Bounds
      BY <2>3 DEF TimeKeys, Bounds
    <3> QED
      BY <2>1, <2>2, <2>3, <3>1 DEF Bounded
  <2>4. CASE kept[i].key \notin TimeKeys
    <3> DEFINE k == kept[i].key
               v == kept[i].value
    <3>1. k \in DOMAIN Bounds /\ Clamp(k, v).kind = "number" =>
             Clamp(k, v).n \in Bounds[k][1]..Bounds[k][2]
      BY <2>1, ClampFact
    <3>2. made[i].key = k /\ made[i].value = Clamp(k, v) /\ k \notin TimeKeys
      BY <2>2, <2>4
    <3> HIDE DEF k, v
    <3> QED
      BY <3>1, <3>2 DEF Bounded
  <2> QED
    BY <2>3, <2>4
<1> QED
  BY <1>4, <1>5, <1>6 DEF Drafted, made

(***************************************************************************)
(* The pipelines and the table.                                            *)
(***************************************************************************)

WritingShape == /\ DOMAIN writing = {"step", "reply", "tries"}
                /\ writing.tries \in 0..2 /\ Answers(writing.reply)
TuningShape  == /\ DOMAIN tuning = {"step", "draft", "tries"}
                /\ tuning.tries \in 0..1 /\ Drafted(tuning.draft)
RowsTyped    == /\ Len(table) <= MaxRows
                /\ \A i \in DOMAIN table :
                      /\ Bounded(table[i].key, table[i].value)
                      /\ table[i].status \in {"pending", "approved", "rejected"}
PipesInv     == /\ day \in 1..MaxDays /\ Answers(review)
                /\ WritingShape /\ TuningShape /\ RowsTyped

LEMMA NoAnswers == Answers(<<>>) /\ Drafted(<<>>)
BY DEF Answers, Drafted

\* What is inserted is bounded, and fits.
LEMMA InsertTyped ==
    ASSUME TableShape, RowsTyped, NEW draft, Drafted(draft), Fits(draft),
           table' = Inserted(draft)
    PROVE  RowsTyped'
<1> DEFINE n == Len(table) + Len(draft)
<1>1. /\ n \in Nat /\ n <= MaxRows /\ Len(table) \in Nat /\ Len(draft) \in Nat
  BY TuningAssumption DEF Fits, TableShape, Drafted, TuningAssumption
<1>2. DOMAIN table' = 1..n /\ Len(table') = n
  <2>1. DOMAIN table' = 1..n
    BY DEF Inserted
  <2> QED
    BY <1>1, <2>1
<1>3. ASSUME NEW i \in 1..n
      PROVE  /\ Bounded(table'[i].key, table'[i].value)
             /\ table'[i].status \in {"pending", "approved", "rejected"}
  <2>1. CASE i <= Len(table)
    <3>1. i \in DOMAIN table /\ table'[i] = table[i]
      BY <1>1, <2>1 DEF Inserted, TableShape
    <3> QED
      BY <3>1 DEF RowsTyped
  <2>2. CASE ~(i <= Len(table))
    <3> DEFINE j == i - Len(table)
    <3>1. j \in 1..Len(draft)
      BY <1>1, <2>2
    <3>2. table'[i] = [key |-> draft[j].key, value |-> draft[j].value,
                       status |-> "pending"]
      BY <2>2 DEF Inserted
    <3> HIDE DEF j
    <3> QED
      BY <3>1, <3>2 DEF Drafted
  <2> QED
    BY <2>1, <2>2
<1> QED
  BY <1>1, <1>2, <1>3 DEF RowsTyped

LEMMA PipesPipeline ==
    ASSUME TableShape, PipesInv, Pipeline
    PROVE  PipesInv'
<1> USE DEF PipesInv
<1>1. CASE ReviewReplies
  <2>1. PICK reply \in Replies \cup {<<>>} :
          writing' = [step |-> "replied", reply |-> Parsed(reply), tries |-> 0]
    BY <1>1 DEF ReviewReplies
  <2>2. WritingShape'
    BY <2>1, ParsedFact DEF WritingShape
  <2> QED
    BY <1>1, <2>2 DEF ReviewReplies, TuningShape, RowsTyped
<1>2. CASE ReviewFails
  BY <1>2 DEF ReviewFails, WritingShape, TuningShape, RowsTyped
<1>3. CASE ReviewStored
  BY <1>3, NoAnswers
  DEF ReviewStored, Quiet, WritingShape, TuningShape, RowsTyped
<1>4. CASE StoreKilled
  <2>1. WritingShape'
    <3>1. CASE writing.tries = 2
      BY <1>4, <3>1, NoAnswers DEF StoreKilled, Quiet, WritingShape
    <3>2. CASE writing.tries # 2
      <4>1. writing' = [writing EXCEPT !.tries = writing.tries + 1]
        BY <1>4, <3>2 DEF StoreKilled
      <4>2. writing.tries + 1 \in 0..2
        BY <3>2 DEF WritingShape
      <4> QED
        BY <4>1, <4>2 DEF WritingShape
    <3> QED
      BY <3>1, <3>2
  <2> QED
    BY <1>4, <2>1 DEF StoreKilled, WritingShape, TuningShape, RowsTyped
<1>5. CASE TuneAnalyses
  <2>1. PICK wins \in WinPercents :
          tuning' = [[tuning EXCEPT !.step = "analysed"]
                        EXCEPT !.draft = Merge(review, wins)]
    BY <1>5 DEF TuneAnalyses
  <2>2. TuningShape'
    BY <2>1, MergeFact DEF TuningShape
  <2> QED
    BY <1>5, <2>2 DEF TuneAnalyses, WritingShape, RowsTyped
<1>6. CASE TuneSaves \/ SaveKilled
  <2>1. RowsTyped'
    <3>1. table' = table
          \/ (Fits(tuning.draft) /\ table' = Inserted(tuning.draft))
      BY <1>6 DEF TuneSaves, SaveKilled
    <3> QED
      BY <3>1, InsertTyped DEF RowsTyped, TuningShape
  <2>2. TuningShape'
    <3>1. tuning' = TuneOver \/ tuning' = [tuning EXCEPT !.tries = 1]
      BY <1>6 DEF TuneSaves, SaveKilled
    <3> QED
      BY <3>1, NoAnswers DEF TuneOver, TuningShape
  <2> QED
    BY <1>6, <2>1, <2>2 DEF TuneSaves, SaveKilled, WritingShape
<1>7. CASE NewDay
  <2>1. day' \in 1..MaxDays
    BY <1>7, TuningAssumption DEF NewDay, TuningAssumption
  <2> QED
    BY <1>7, <2>1, NoAnswers DEF NewDay, Quiet, WritingShape, TuningShape, RowsTyped
<1> QED
  BY <1>1, <1>2, <1>3, <1>4, <1>5, <1>6, <1>7 DEF Pipeline

LEMMA PipesRequest ==
    ASSUME ReviewInv, PipesInv, NEW u \in Users, Request(u)
    PROVE  PipesInv'
<1>1. UNCHANGED pipelineVars
  BY DEF Request, BeginReview, BeginPut, ReadConfig, Commit, Abort
<1>2. RowsTyped'
  <2>1. CASE table' = table
    BY <2>1 DEF PipesInv, RowsTyped
  <2>2. CASE table' # table
    <3>1. Commit(u) /\ request[u].op \in Reviews
      BY <2>2 DEF Request, BeginReview, BeginPut, ReadConfig, Commit, Abort,
                  RolledBack, Reviews
    <3> DEFINE j == request[u].row
    <3>2. /\ j \in DOMAIN table /\ TableShape
          /\ \E new \in {"approved", "rejected"} : SetStatus(j, new)
      BY <3>1 DEF Commit, Reviews, ReviewInv, RequestsCarry
    <3>3. /\ RowsKept /\ DOMAIN table' = DOMAIN table
          /\ table'[j].status \in {"approved", "rejected"}
          /\ \A i \in DOMAIN table \ {j} : table'[i] = table[i]
      BY <3>2, SetStatusFact
    <3>4. Len(table') = Len(table)
      BY <3>2 DEF SetStatus
    <3> HIDE DEF j
    <3> QED
      BY <3>3, <3>4 DEF PipesInv, RowsTyped, RowsKept
  <2> QED
    BY <2>1, <2>2
<1> QED
  BY <1>1, <1>2 DEF PipesInv, pipelineVars, WritingShape, TuningShape

LEMMA PipesInvariant == Spec => [](ConfigInv /\ PipesInv)
<1>1. Init => ConfigInv /\ PipesInv
  <2> SUFFICES ASSUME Init PROVE ConfigInv /\ PipesInv
    OBVIOUS
  <2>1. /\ SeenIsThere /\ NothingAppliedUnapproved
    BY DEF Init, SeenIsThere, NothingAppliedUnapproved, Given
  <2>2. day \in 1..MaxDays /\ RowsTyped
    BY TuningAssumption DEF Init, RowsTyped, TuningAssumption
  <2>3. WritingShape /\ TuningShape /\ Answers(review)
    BY NoAnswers DEF Init, Quiet, WritingShape, TuningShape
  <2> QED
    BY <2>1, <2>2, <2>3, InitReviewInv DEF ConfigInv, PipesInv
<1>2. ConfigInv /\ PipesInv /\ [Next]_vars => PipesInv'
  <2> SUFFICES ASSUME ConfigInv, PipesInv, [Next]_vars PROVE PipesInv'
    OBVIOUS
  <2>1. ReviewInv /\ TableShape
    BY DEF ConfigInv, ReviewInv
  <2>2. CASE UNCHANGED vars
    BY <2>2 DEF vars, pipelineVars, PipesInv, WritingShape, TuningShape, RowsTyped
  <2> QED
    BY <2>1, <2>2, PipesPipeline, PipesRequest DEF Next, Pipeline, Request
<1> QED
  BY <1>1, <1>2, ConfigInvInductive, PTL DEF Spec

\* For any answers of the LLM, any values administrators type and any seed:
\* the filters of the review and of the tuner, the clamp, the approval by a
\* user and the type check of the process manager's arguments together keep
\* every multiplier that nobody typed between the tuner's bounds, and no
\* entry starts before 09:00, except by {"v": x} and by a time with a blank
\* before it: these are the only two ways around.
THEOREM StartedWithinBounds == Spec => []TraderRunsWithinBounds
<1>1. ConfigInv /\ PipesInv => TraderRunsWithinBounds
  <2> SUFFICES ASSUME ConfigInv, PipesInv, TraderStarts,
                      NEW k \in DOMAIN ArgsFromConfig,
                      ~Given(k, config[k].value), ~Evades(config[k].value)
               PROVE  WithinBounds(k)
    BY DEF TraderRunsWithinBounds
  <2> DEFINE v == config[k].value
  <2>1. /\ k \in DOMAIN config /\ k \in DOMAIN Arguments
        /\ ArgsFromConfig[k] = v /\ Accepted(k, v)
    BY DEF ArgsFromConfig, TraderStarts, Unwrapped, Evades
  <2>2. PICK i \in DOMAIN table : table[i].key = k /\ table[i].value = v
    BY <2>1 DEF ConfigInv, NothingAppliedUnapproved
  <2>3. Bounded(k, v) /\ ~Evades(v)
    BY <2>2 DEF PipesInv, RowsTyped
  <2> HIDE DEF v
  <2>4. ASSUME k \in DOMAIN Bounds PROVE v.n \in Bounds[k][1]..Bounds[k][2]
    <3>1. Arguments[k] \in {"float", "int"}
      BY <2>1, <2>4 DEF Arguments, Bounds
    <3>2. v.kind = "number"
      BY <2>1, <3>1 DEF Accepted
    <3> QED
      BY <2>3, <2>4, <3>2 DEF Bounded
  <2>5. ASSUME k = "entry_start_time" PROVE EntersFrom(v) >= 900
    <3>1. v.at \in 900..1500
      BY <2>3, <2>5 DEF Bounded, TimeKeys, ValidTime
    <3>2. EntersFrom(v) \in {v.at, Never}
      BY <2>3 DEF EntersFrom, Evades
    <3> QED
      BY <3>1, <3>2 DEF Never
  <2> QED
    BY <2>1, <2>4, <2>5 DEF WithinBounds
<1> QED
  BY <1>1, PipesInvariant, PTL

-----------------------------------------------------------------------------
(***************************************************************************)
(* Types: who wrote a row of the configuration, and that none is deleted.  *)
(***************************************************************************)

Authors == {"system", "user", "llm"}
AuthorsInv ==
    /\ DOMAIN Seed \subseteq DOMAIN config
    /\ \A k \in DOMAIN config : config[k].by \in Authors
    /\ \A u \in Users : request[u] # Idle => request[u].by \in Authors

\* What a request writes has an author: its own, or that of the row it has
\* seen and left alone.
LEMMA WrittenFact ==
    ASSUME SeenIsThere, AuthorsInv, NEW u \in Users, request[u] # Idle
    PROVE  Written(request[u]).by \in Authors
<1> DEFINE r == request[u]
<1>1. Written(r).by = IF \E old \in r.seen : old.by = r.by
                      THEN config[r.key].by ELSE r.by
  BY DEF Written
<1>2. r.seen # {} => r.key \in DOMAIN config
  BY DEF SeenIsThere
<1>3. r.by \in Authors
  BY DEF AuthorsInv
<1> HIDE DEF r
<1>4. r.key \in DOMAIN config => config[r.key].by \in Authors
  BY DEF AuthorsInv
<1> QED
  BY <1>1, <1>2, <1>3, <1>4 DEF r

LEMMA AuthorsRequest ==
    ASSUME RequestShape, SeenIsThere, AuthorsInv, NEW u \in Users, Request(u)
    PROVE  AuthorsInv'
<1>1. ASSUME NEW v \in Users, request'[v] # Idle PROVE request'[v].by \in Authors
  <2>1. CASE v # u
    <3>1. request'[v] = request[v]
      BY <2>1 DEF RequestShape, Request, BeginReview, BeginPut, ReadConfig,
                  Commit, Abort
    <3> QED
      BY <1>1, <3>1 DEF AuthorsInv
  <2>2. CASE v = u
    <3>1. CASE BeginReview(u, "approve") \/ BeginReview(u, "reject") \/ BeginPut(u)
      BY <2>2, <3>1 DEF BeginReview, BeginPut, RequestShape, Authors
    <3>2. CASE ReadConfig(u)
      <4>1. request[u].op \in Reviews \cup {"put"}
        BY <3>2 DEF ReadConfig, Reviews
      <4>2. /\ request[u] # Idle
            /\ request'[u] = [[request[u] EXCEPT !.read = TRUE]
                                EXCEPT !.seen = Row(request[u].key)]
            /\ DOMAIN request[u] = RequestFields
        BY <3>2, <4>1, RequestIsTyped DEF ReadConfig, RequestShape
      <4>3. request'[u].by = request[u].by
        BY <4>2 DEF RequestFields
      <4> QED
        BY <2>2, <4>2, <4>3 DEF AuthorsInv
    <3>3. CASE Commit(u) \/ Abort(u)
      <4>1. request'[u] = Idle
        BY <3>3 DEF Commit, Abort, RequestShape
      <4> QED
        BY <1>1, <2>2, <4>1
    <3> QED
      BY <3>1, <3>2, <3>3 DEF Request
  <2> QED
    BY <2>1, <2>2
<1>2. CASE config' = config
  BY <1>1, <1>2 DEF AuthorsInv
<1>3. CASE config' # config
  <2> DEFINE r == request[u]
             new == Written(r)
  <2>1. config' = WithRow(r.key, new) /\ r.op \in {"approve", "put"}
    BY <1>3 DEF Request, BeginReview, BeginPut, ReadConfig, Commit, Abort, RolledBack
  <2>2. r # Idle
    BY <2>1 DEF Idle
  <2>3. new.by \in Authors
    BY <2>2, WrittenFact
  <2> HIDE DEF r, new
  <2>4. /\ DOMAIN config' = DOMAIN config \cup {r.key}
        /\ \A k \in DOMAIN config' : config'[k] = IF k = r.key THEN new ELSE config[k]
    BY <2>1 DEF WithRow
  <2>5. \A k \in DOMAIN config' : config'[k].by \in Authors
    BY <2>3, <2>4 DEF AuthorsInv
  <2> QED
    BY <1>1, <2>4, <2>5 DEF AuthorsInv
<1> QED
  BY <1>2, <1>3

LEMMA AuthorsInductive ==
    ASSUME ConfigInv, AuthorsInv, [Next]_vars
    PROVE  AuthorsInv'
<1>0. RequestShape /\ SeenIsThere /\ TableShape
  BY DEF ConfigInv, ReviewInv
<1>1. CASE Pipeline
  <2>1. config' = config /\ request' = request
    BY <1>0, <1>1, PipelineFact
  <2> QED
    BY <2>1 DEF AuthorsInv
<1>2. CASE UNCHANGED vars
  BY <1>2 DEF vars, webVars, AuthorsInv
<1> QED
  BY <1>0, <1>1, <1>2, AuthorsRequest DEF Next, Pipeline, Request

\* The tables keep their shape: retries stay within those the pipelines have,
\* no insertion exceeds the table, a request names a row that is there and
\* still has the key it read, and no row of the migration is ever deleted.
THEOREM TuningTypes == Spec => []TuningTypeOK
<1>1. Init => AuthorsInv
  BY TuningAssumption DEF TuningAssumption, Init, AuthorsInv, Authors
<1>2. ConfigInv /\ AuthorsInv /\ [Next]_vars => AuthorsInv'
  BY AuthorsInductive
<1>3. ConfigInv /\ PipesInv /\ AuthorsInv => TuningTypeOK
  <2> SUFFICES ASSUME ConfigInv, PipesInv, AuthorsInv PROVE TuningTypeOK
    OBVIOUS
  <2>1. /\ day \in 1..MaxDays
        /\ writing.tries \in 0..2 /\ tuning.tries \in 0..1
        /\ Len(table) <= MaxRows
        /\ \A i \in DOMAIN table :
              table[i].status \in {"pending", "approved", "rejected"}
    BY DEF PipesInv, WritingShape, TuningShape, RowsTyped
  <2>2. \A u \in Users : request[u].op \in {"approve", "reject"} =>
          /\ request[u].row \in DOMAIN table
          /\ request[u].key = table[request[u].row].key
    BY DEF ConfigInv, ReviewInv, RequestsCarry, Reviews
  <2>3. /\ DOMAIN Seed \subseteq DOMAIN config
        /\ \A k \in DOMAIN config : config[k].by \in {"system", "user", "llm"}
    BY DEF AuthorsInv, Authors
  <2> QED
    BY <2>1, <2>2, <2>3 DEF TuningTypeOK
<1> QED
  BY <1>1, <1>2, <1>3, PipesInvariant, PTL DEF Spec
=============================================================================
