------------------------------- MODULE Rerate -------------------------------
(***************************************************************************)
(* The program mor_cdr_rerate: the prices of calls are computed again from *)
(* the rates of today, and what they changed by is added to the balances.  *)
(*                                                                         *)
(* Calls are read in rounds of RERATE_BACTHES.  A thread per call reads    *)
(* the rates that are not in the cache, and the main thread waits for all  *)
(* of them; threads write the new prices in batches of SQL_BATCH_SIZE, and *)
(* the main thread waits again and writes what is left itself.  Balances   *)
(* are changed once, after the last round.  All threads share a pool of    *)
(* connections.                                                            *)
(*                                                                         *)
(* A call has a payer or two, a user and the reseller of the user, each    *)
(* with a price.  The price of a tariff depends on the kind of the call:   *)
(* its time of the day, the day of the week and its date.                  *)
(***************************************************************************)
EXTENDS Integers, FiniteSets, Sequences, Functions

CONSTANTS
    Calls,        \* the ids of the calls in the window of the task
    LateCalls,    \* those that end while the program runs
    Accounts,     \* users.id: users and resellers
    Payers,       \* the user of a call and, with it or instead, the reseller
    Kind,         \* what the rate of a call depends on besides the tariff
    Rate,         \* the price of a call of a kind for a user
    OldPrice,     \* the price of each call at first
    Date,         \* calldate
    Limit,        \* RERATE_BACTHES
    BatchSize,    \* SQL_BATCH_SIZE
    Connections,  \* MOR_SQL_CONNECTIONS
    MaxEvents     \* bound: how many faults there are and calls archived

ASSUME RerateAssumption ==
    /\ Calls \subseteq Nat /\ IsFiniteSet(Calls)
    /\ LateCalls \subseteq Calls
    /\ \A c \in Calls : Payers[c] \in Seq(Accounts) /\ Payers[c] # <<>>
    /\ \A c \in Calls : Kind[c] # "none" /\ Date[c] \in Int
    /\ \A u \in Accounts, c \in Calls : Rate[u][Kind[c]] \in Int
    /\ Limit \in Nat \ {0} /\ BatchSize \in Nat \ {0}
    /\ Connections \in Nat /\ Connections > 1
    /\ OldPrice \in Nat /\ MaxEvents \in Nat

VARIABLES
    live, archived,   \* the prices in the tables calls and calls_old
    balance,           \* users.balance
    pc,                \* what the main thread is at
    rounds, last, first, \* rounds left, last_call_id, first_iteration
    list, at,          \* the calls of this round, and the current one
    rates, prices,     \* what has been found for the calls of this round
    read,              \* the prices they had when read
    cache,             \* cached_rates: the kind of the first call cached
    raters, sem,       \* the threads that read rates; get_rate_details_sem
    batch,             \* the rows of update_query, and whether buffer is empty
    writers, usem,     \* the threads that write rows; update_cdr_sem
    timer,             \* whether the progress timer has a connection
    busy,              \* mysql_connections: how many of them are in use
    diff,              \* user_balance[].old_price - new_price
    events, counted, mishaps  \* bound and history

db == <<live, archived, balance>>
round == <<list, at, rates, prices, read, batch>>
threads == <<cache, raters, sem, writers, usem, timer, busy>>
control == <<rounds, last, first, diff>>
history == <<events, counted, mishaps>>
rerateVars == <<db, pc, round, threads, control, history>>

\* refused    the last rows of a round were refused
\* unread     the calls of a round could not be read
\* unordered  the calls of a round were not read in the order of their ids
\* moved      a call was archived between being read and being written
\* nothread   a thread could not be created
Mishaps == {"refused", "unread", "unordered", "moved", "nothread"}

None == "none"
PayersOf(c) == Range(Payers[c])
Ended == {"done", "failed"}

\* mor_get_connection
FreeConnection == busy < Connections
Take == FreeConnection /\ busy' = busy + 1
Release == busy' = busy - 1

Event(what) ==
    /\ events > 0 /\ events' = events - 1
    /\ mishaps' = mishaps \cup what
    /\ UNCHANGED counted

NoRows == <<>>

-----------------------------------------------------------------------------
RerateInit ==
    /\ live = [c \in Calls \ LateCalls |-> [u \in PayersOf(c) |-> OldPrice]]
    /\ archived = NoRows
    /\ balance = [u \in Accounts |-> 0]
    /\ pc = "count"
    /\ rounds = 0 /\ last = 0 /\ first = TRUE
    /\ list = <<>> /\ at = 1
    /\ rates = NoRows /\ prices = NoRows /\ read = NoRows
    /\ cache = [u \in Accounts |-> None]
    /\ raters = NoRows /\ sem = 0
    /\ batch = [rows |-> {}, buffer |-> FALSE]
    /\ writers = {} /\ usem = 0
    /\ timer = FALSE /\ busy = 0
    /\ diff = [u \in Accounts |-> 0]
    /\ events = MaxEvents /\ counted = {} /\ mishaps = {}

\* The smallest number of rounds for n calls.
Rounds(n) == (n + Limit - 1) \div Limit

\* get_calls_count
CountCalls ==
    LET window == DOMAIN live IN
    /\ pc = "count"
    /\ counted' = window
    /\ IF window = {}
         THEN pc' = "done" /\ UNCHANGED <<rounds, last>>
         ELSE /\ pc' = "read"
              /\ rounds' = Rounds(Cardinality(window))
              /\ last' = CHOOSE c \in window : \A d \in window : c <= d
    /\ UNCHANGED <<db, round, threads, first, diff, events, mishaps>>

\* calls.id >= or > last_call_id
Wanted(c) == IF first THEN c >= last ELSE c > last

Matching == {c \in DOMAIN live : Wanted(c)}

Earlier(key, c, d) == key[c] < key[d] \/ (key[c] = key[d] /\ c < d)

\* How many of the calls come before call c.
Rank(key, c) == Cardinality({d \in Matching : Earlier(key, d, c)})

RowCount == IF Cardinality(Matching) < Limit THEN Cardinality(Matching) ELSE Limit

\* The rows of the query: the server picks the index, which gives the order.
RowsBy(key) == [i \in 1 .. RowCount |-> CHOOSE c \in Matching : Rank(key, c) = i - 1]
RowsById == RowsBy([c \in Calls |-> c])
RowsByDate == RowsBy([c \in Calls |-> Date[c]])

\* What user u is charged for the calls of p.
Cost(p, u) == FoldFunction(+, 0, [c \in {d \in DOMAIN p : u \in DOMAIN p[d]} |-> p[c][u]])

\* calls_get: the calls of a round; without any the round is over, and last_call_id
\* moves on by as many ids as a round has calls.
ReadCalls ==
    /\ pc = "read" /\ rounds > 0 /\ FreeConnection
    /\ first' = FALSE
    /\ \E rows \in {RowsById, RowsByDate} :
        LET p == [c \in Range(rows) |-> live[c]] IN
        /\ list' = rows
        /\ read' = p
        /\ diff' = [u \in Accounts |-> diff[u] + Cost(p, u)]
        /\ mishaps' = IF rows = RowsById THEN mishaps ELSE mishaps \cup {"unordered"}
        /\ IF rows = <<>>
             THEN /\ last' = last + Limit /\ rounds' = rounds - 1
                  /\ UNCHANGED <<pc, rates, prices>>
             ELSE /\ last' = rows[Len(rows)] /\ UNCHANGED rounds
                  /\ pc' = "launch"
                  /\ rates' = [c \in Range(rows) |-> [u \in PayersOf(c) |-> None]]
                  /\ prices' = p
    /\ at' = 1
    /\ UNCHANGED <<db, batch, threads, events, counted>>

\* The query fails, and the round is over.
ReadFails ==
    /\ pc = "read" /\ rounds > 0
    /\ Event({"unread"})
    /\ first' = FALSE
    /\ rounds' = rounds - 1
    /\ UNCHANGED <<db, pc, round, threads, last, diff>>

\* A thread is started for a call unless all rates are found in the cache, where
\* the first entry of the tariff is taken, whatever kind of call it is from.
Launch(created) ==
    LET c == list[at]
        todo == {i \in 1 .. Len(Payers[c]) : cache[Payers[c][i]] = None}
    IN  /\ pc = "launch" /\ at <= Len(list)
        /\ rates' = [rates EXCEPT ![c] = [u \in PayersOf(c) |-> cache[u]]]
        /\ at' = at + 1
        /\ sem' = IF todo = {} THEN sem ELSE sem + 1
        /\ created \/ todo # {}
        /\ raters' = IF todo = {} \/ ~created THEN raters
                     ELSE [d \in DOMAIN raters \cup {c} |->
                             IF d = c THEN [todo |-> todo, at |-> "get"] ELSE raters[d]]
        /\ UNCHANGED <<db, pc, list, prices, read, batch, cache, writers, usem, timer, busy, control>>

LaunchRater == Launch(TRUE) /\ UNCHANGED history
LaunchFails == Launch(FALSE) /\ Event({"nothread"})

\* Waits until all threads that read rates are over; then the prices.
Priced ==
    /\ prices' = [c \in DOMAIN rates |-> [u \in PayersOf(c) |->
                    IF rates[c][u] = None THEN 0 ELSE Rate[u][rates[c][u]]]]
    /\ pc' = "write" /\ at' = 1
    /\ UNCHANGED <<db, list, rates, read, batch, threads, control, history>>

\* Mutation of Barrier: the threads are not waited for.
BarrierOpen == pc = "launch" /\ at > Len(list) /\ Priced

Barrier == pc = "launch" /\ at > Len(list) /\ sem = 0 /\ Priced

\* Mutation of NeedsUpdate: the price of the reseller decides if there is one.
NeedsUpdateOfReseller(c) == LET u == Payers[c][Len(Payers[c])] IN prices[c][u] # read[c][u]

NeedsUpdate(c) == \E u \in PayersOf(c) : prices[c][u] # read[c][u]

\* A call goes into the batch if a price has changed; a thread writes a full batch.
WriteRow(created) ==
    LET c == list[at]
        rows == batch.rows \cup (IF NeedsUpdate(c) THEN {c} ELSE {})
        full == Cardinality(rows) = BatchSize
    IN  /\ pc = "write" /\ at <= Len(list)
        /\ at' = at + 1
        /\ batch' = IF full THEN [rows |-> {}, buffer |-> FALSE]
                    ELSE [rows |-> rows, buffer |-> batch.buffer \/ NeedsUpdate(c)]
        /\ usem' = IF full THEN usem + 1 ELSE usem
        /\ created \/ full
        /\ writers' = IF full /\ created THEN writers \cup {[rows |-> rows, at |-> "get"]}
                      ELSE writers
        /\ UNCHANGED <<db, pc, list, rates, prices, read, cache, raters, sem, timer, busy, control>>

CollectRow == WriteRow(TRUE) /\ UNCHANGED history
WriterFails == WriteRow(FALSE) /\ Event({"nothread"})

\* Waits until all threads that write rows are over; then the sums of new prices.
SumPrices ==
    /\ pc = "write" /\ at > Len(list) /\ usem = 0
    /\ diff' = [u \in Accounts |-> diff[u] - Cost(prices, u)]
    /\ pc' = "last"
    /\ UNCHANGED <<db, round, threads, rounds, last, first, history>>

\* INSERT ... ON DUPLICATE KEY UPDATE: a row that is gone comes back.
Write(rows) ==
    live' = [c \in DOMAIN live \cup rows |-> IF c \in rows THEN prices[c] ELSE live[c]]

\* reset_globals
NextRound ==
    /\ pc' = "read"
    /\ rounds' = rounds - 1
    /\ list' = <<>> /\ at' = 1
    /\ rates' = NoRows /\ prices' = NoRows /\ read' = NoRows
    /\ batch' = [rows |-> {}, buffer |-> FALSE]
    /\ sem' = 0 /\ usem' = 0

\* The rows that are left are written by the main thread.
WriteLast ==
    /\ pc = "last"
    /\ IF batch.buffer THEN FreeConnection /\ Write(batch.rows) ELSE UNCHANGED live
    /\ NextRound
    /\ UNCHANGED <<archived, balance, cache, raters, writers, timer, busy, last, first, diff, history>>

\* They are refused, and the function returns: no one is told.
WriteLastFails ==
    /\ pc = "last" /\ batch.buffer
    /\ Event({"refused"})
    /\ NextRound
    /\ UNCHANGED <<db, cache, raters, writers, timer, busy, last, first, diff>>

\* update_user_balance, user by user
UpdateBalance ==
    /\ pc = "read" /\ rounds = 0
    /\ IF \A u \in Accounts : diff[u] = 0
         THEN pc' = "done" /\ UNCHANGED <<balance, diff>>
         ELSE \E u \in Accounts :
                /\ diff[u] # 0 /\ FreeConnection
                /\ balance' = [balance EXCEPT ![u] = @ + diff[u]]
                /\ diff' = [diff EXCEPT ![u] = 0]
                /\ UNCHANGED pc
    /\ UNCHANGED <<live, archived, round, threads, rounds, last, first, history>>

Main == \/ CountCalls \/ ReadCalls \/ LaunchRater \/ Barrier
        \/ CollectRow \/ SumPrices \/ WriteLast \/ UpdateBalance

-----------------------------------------------------------------------------
RaterUnchanged ==
    UNCHANGED <<db, pc, list, at, prices, read, batch, writers, usem, timer, control, history>>

\* The payer whose rate the thread of call c is to find next.
Sought(c) == Payers[c][CHOOSE i \in raters[c].todo : \A j \in raters[c].todo : i <= j]

\* get_rate_details of call c: a connection from the pool, the rate of a payer,
\* which also goes into the cache.
TakeToRead(c) ==
    /\ raters[c].at = "get" /\ Take
    /\ raters' = [raters EXCEPT ![c].at = "query"]
    /\ RaterUnchanged /\ UNCHANGED <<rates, cache, sem>>

\* Mutation of ReadRate: the connection is not given back.
ReadRateAndKeep(c) ==
    /\ raters[c].at = "query"
    /\ rates' = [rates EXCEPT ![c][Sought(c)] = Kind[c]]
    /\ raters' = [raters EXCEPT ![c].at = "cache"]
    /\ RaterUnchanged /\ UNCHANGED <<cache, sem, busy>>

ReadRate(c) ==
    /\ raters[c].at = "query" /\ Release
    /\ rates' = [rates EXCEPT ![c][Sought(c)] = Kind[c]]
    /\ raters' = [raters EXCEPT ![c].at = "cache"]
    /\ RaterUnchanged /\ UNCHANGED <<cache, sem>>

CacheRate(c) ==
    LET u == Sought(c)
        left == {i \in raters[c].todo : \E j \in raters[c].todo : j < i}
    IN  /\ raters[c].at = "cache"
        /\ cache' = IF cache[u] = None THEN [cache EXCEPT ![u] = Kind[c]] ELSE cache
        /\ IF left # {}
             THEN /\ raters' = [raters EXCEPT ![c] = [todo |-> left, at |-> "get"]]
                  /\ UNCHANGED sem
             ELSE /\ raters' = [d \in DOMAIN raters \ {c} |-> raters[d]]
                  /\ sem' = sem - 1
        /\ RaterUnchanged /\ UNCHANGED <<rates, busy>>

Rater == \E c \in DOMAIN raters : TakeToRead(c) \/ ReadRate(c) \/ CacheRate(c)

\* update_record
TakeToWrite(w) ==
    /\ w.at = "get" /\ Take
    /\ writers' = (writers \ {w}) \cup {[w EXCEPT !.at = "query"]}
    /\ UNCHANGED <<db, pc, round, cache, raters, sem, usem, timer, control, history>>

WriteBatch(w) ==
    /\ w.at = "query" /\ Release
    /\ Write(w.rows)
    /\ writers' = writers \ {w}
    /\ usem' = usem - 1
    /\ UNCHANGED <<archived, balance, pc, round, cache, raters, sem, timer, control, history>>

Writer == \E w \in writers : TakeToWrite(w) \/ WriteBatch(w)

\* set_timer: an UPDATE of the task every ten seconds
Timer ==
    /\ pc \notin Ended \cup {"count"}
    /\ IF timer THEN Release ELSE Take
    /\ timer' = ~timer
    /\ UNCHANGED <<db, pc, round, cache, raters, sem, writers, usem, control, history>>

\* A query of a thread, the timer or the main thread fails, or a signal comes:
\* exit(1) ends all threads, and the handler marks the task as failed.
Die ==
    /\ pc \notin Ended
    /\ Event({})
    /\ pc' = "failed"
    /\ raters' = NoRows /\ writers' = {} /\ timer' = FALSE /\ busy' = 0
    /\ UNCHANGED <<db, round, cache, sem, usem, control>>

-----------------------------------------------------------------------------
\* The core ends a call: the row gets the next id (AUTO_INCREMENT), and its price
\* is taken from the balances.
NewCall(c) ==
    /\ \A d \in DOMAIN live \cup DOMAIN archived : d < c
    /\ pc \notin Ended
    /\ live' = [d \in DOMAIN live \cup {c} |->
                  IF d = c THEN [u \in PayersOf(c) |-> OldPrice] ELSE live[d]]
    /\ balance' = [u \in Accounts |-> IF u \in PayersOf(c) THEN balance[u] - OldPrice ELSE balance[u]]
    /\ UNCHANGED <<archived, pc, round, threads, control, history>>

\* The calls that have been read and whose new prices are still to be written.
Unwritten ==
    IF pc \notin {"launch", "write", "last"} THEN {}
    ELSE IF pc = "launch" THEN Range(list)
    ELSE {list[i] : i \in at .. Len(list)} \cup batch.rows \cup UNION {w.rows : w \in writers}

\* mor_archive_old_calls moves a call.
ArchiveCall(c) ==
    /\ c \in DOMAIN live \ DOMAIN archived
    /\ Event(IF c \in Unwritten THEN {"moved"} ELSE {})
    /\ archived' = [d \in DOMAIN archived \cup {c} |-> IF d = c THEN live[c] ELSE archived[d]]
    /\ live' = [d \in DOMAIN live \ {c} |-> live[d]]
    /\ UNCHANGED <<balance, pc, round, threads, control>>

Fault == ReadFails \/ LaunchFails \/ WriterFails \/ WriteLastFails \/ Die

Environment == \/ \E c \in LateCalls : NewCall(c)
               \/ \E c \in Calls : ArchiveCall(c)

RerateNext == Main \/ Rater \/ Writer \/ Timer \/ Fault \/ Environment

RerateSpec == RerateInit /\ [][RerateNext]_rerateVars

\* Whatever thread can run is run in the end; the timer sleeps most of the time.
FairSpec == RerateSpec /\ WF_rerateVars(Main \/ Rater \/ Writer)

-----------------------------------------------------------------------------
\* What user u has, and what the calls in either table have cost.
Worth(u) == balance[u] + Cost(live, u) + Cost(archived, u)

FirstWorth(u) == Cost([c \in Calls \ LateCalls |-> [v \in PayersOf(c) |-> OldPrice]], u)

\* When the program reports success the balances have changed by what the prices
\* have changed by, to the cent and for every user and reseller: whatever calls
\* end or are archived meanwhile, in whatever order they are read, and even if
\* some are not read.  Not so if the last rows of a round are refused, and if a
\* call is archived while the program has it in its hands.
BalancesFollowPrices ==
    pc = "done" /\ mishaps \cap {"refused", "moved"} = {} =>
        \A u \in Accounts : Worth(u) = FirstWorth(u)

\* Then also each call that was there at first has a price of today's tariffs for
\* each of its payers.  It need not be the price of its own kind: the cache gives
\* it that of whatever call of the tariff came first.
PricesOfToday ==
    pc = "done" /\ mishaps \cap {"refused", "unread", "unordered"} = {} =>
        \A c \in counted \cap DOMAIN live : \A u \in PayersOf(c) :
            \E d \in Calls : u \in PayersOf(d) /\ live[c][u] = Rate[u][Kind[d]]

\* The program comes to an end, however its threads compete for connections,
\* unless one of them could not be created, which it waits for for ever.
Terminates == <>(pc \in Ended \/ "nothread" \in mishaps)

=============================================================================
