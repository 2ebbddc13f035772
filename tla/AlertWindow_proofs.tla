------------------------- MODULE AlertWindow_proofs -------------------------
(***************************************************************************)
(* Proofs about AlertWindow: types, the edits of the GUI, and the moving   *)
(* sums.                                                                   *)
(*                                                                         *)
(* That a sum is right (SumIsWindow) is kept by a tick because of what it  *)
(* does not say: no call is in two packets (RingInv), so that what is      *)
(* subtracted was added once and is added once more only if it is read     *)
(* again; the calls a clear left behind are behind the period              *)
(* (SurplusBehind), so that they are not subtracted a second time; and an  *)
(* alert that counts down began at its period and a minute (ClockCalm), so *)
(* that the countdown says how many packets have been added since it was   *)
(* cleared.  Each step of a tick keeps the three together (CalmAlert).     *)
(***************************************************************************)
EXTENDS AlertWindow, WellFoundedInduction, TLAPS

-----------------------------------------------------------------------------
(***************************************************************************)
(* Types, and what the tables hold.                                        *)
(***************************************************************************)
\* What an alert can be set to is a setting, and fits into the ring.
LEMMA SettingsTyped ==
    ASSUME NEW a \in Alerts, NEW s \in Settings[a] \cup {Off}
    PROVE  s \in Setting \cup {Off} /\ (s # Off => s.raw * Minute <= Packets)
  BY ConstAssumption

\* The product of a period and the ticks of a minute.
LEMMA Ticks ==
    ASSUME NEW r \in Nat
    PROVE  /\ r * Minute \in Nat
           /\ r > 0 => r * Minute >= 1
  BY ConstAssumption

\* Settings that fit into the ring.
Fits(s) == s = Off \/ (s \in Setting /\ s.raw * Minute <= Packets)

\* The tables hold such settings, and a daemon that is down holds nothing.
TablesInv ==
    /\ \A a \in Alerts : Fits(table[a]) /\ Fits(fetched[a]) /\ Fits(alerts[a])
    /\ pc = "off" => /\ alerts = NoAlerts /\ ring = EmptyRing /\ forced
                     /\ \A a \in Alerts : surplus[a] = {}

\* An alert that is loaded has a setting.
LEMMA LoadedSetting ==
    ASSUME TypeOK, NEW a \in Loaded
    PROVE  /\ a \in Alerts /\ alerts[a] \in Setting /\ alerts[a].raw \in Nat
           /\ Countdown(a) \in Nat
<1>1. a \in Alerts /\ alerts[a] \in Setting /\ alerts[a].raw \in Nat
  BY DEF Loaded, TypeOK, Setting
<1>2. alerts[a].raw * Minute \in Nat
  BY <1>1, Ticks
<1> QED
  BY <1>1, <1>2, ConstAssumption DEF Countdown

\* A setting whose date has come.
LEMMA DateTaken ==
    ASSUME NEW s \in Setting
    PROVE  LET t == [s EXCEPT !.clear_date = FALSE] IN
           /\ t \in Setting /\ t.raw = s.raw /\ t.of = s.of /\ t.more = s.more
           /\ t.clear_period = s.clear_period /\ t.disable_clear = s.disable_clear
  BY DEF Setting

\* The data of an alert that has none.
LEMMA NoDataTyped == NoData \in Data
  BY DEF NoData, Data

\* A sum to which a packet is added, or from which it is subtracted, is a sum.
LEMMA PlusTyped ==
    ASSUME NEW f \in [Ids -> Int], NEW P, NEW n \in Int
    PROVE  Plus(f, P, n) \in [Ids -> Int]
  BY DEF Plus

\* The variables have their types when everything starts.
LEMMA TypeInit == Init => TypeOK
<1> SUFFICES ASSUME Init PROVE TypeOK
  OBVIOUS
<1>1. table \in [Alerts -> Setting \cup {Off}]
  <2>1. \A a \in Alerts : table[a] \in Setting \cup {Off}
    BY SettingsTyped DEF Init
  <2>2. table \in [Alerts -> UNION {Settings[a] \cup {Off} : a \in Alerts}]
    BY DEF Init
  <2> QED
    BY <2>1, <2>2
<1>2. node \in [Alerts -> Data]
  BY NoDataTyped DEF Init
<1>3. /\ fetched \in [Alerts -> Setting \cup {Off}] /\ alerts \in [Alerts -> Setting \cup {Off}]
  BY DEF Init, NoAlerts
<1>4. ring \in [0 .. Packets - 1 -> SUBSET Ids]
  BY DEF Init, EmptyRing
<1>5. left \in [edits : Nat, faults : Nat]
  BY ConstAssumption DEF Init
<1> QED
  BY <1>1, <1>2, <1>3, <1>4, <1>5 DEF Init, TypeOK

\* Data with some fields changed.
LEMMA DataFields ==
    ASSUME NEW d \in Data
    PROVE  /\ d.sum \in [Ids -> Int] /\ d.set \in BOOLEAN
           /\ d.countdown \in Nat /\ d.counter \in Nat
  BY DEF Data

\* A check writes whether an alert is set and when.
LEMMA DataChecked ==
    ASSUME NEW d \in Data, NEW b \in BOOLEAN
    PROVE  /\ [d EXCEPT !.set = b, !.counter = 0] \in Data
           /\ [d EXCEPT !.set = b, !.counter = 0].sum = d.sum
           /\ [d EXCEPT !.set = b, !.counter = 0].countdown = d.countdown
  BY DEF Data

\* A tick moves the two clocks.
LEMMA DataTicked ==
    ASSUME NEW d \in Data, NEW m \in Nat, NEW n \in Nat
    PROVE  /\ [d EXCEPT !.countdown = n, !.counter = m] \in Data
           /\ [d EXCEPT !.countdown = n, !.counter = m].sum = d.sum
           /\ [d EXCEPT !.countdown = n, !.counter = m].countdown = n
  BY DEF Data

\* What the check of an alert leaves of its data.
LEMMA CheckedKeeps ==
    ASSUME TypeOK, NEW a \in Alerts
    PROVE  /\ Checked(a) \in Data
           /\ Checked(a).sum = node[a].sum /\ Checked(a).countdown = node[a].countdown
<1> DEFINE hot == Total(node[a].sum) >= alerts[a].more
<1>1. node[a] \in Data
  BY DEF TypeOK
<1>2. CASE ~node[a].set /\ hot
  <2>1. Checked(a) = [node[a] EXCEPT !.set = TRUE, !.counter = 0]
    BY <1>2 DEF Checked
  <2>2. /\ [node[a] EXCEPT !.set = TRUE, !.counter = 0] \in Data
        /\ [node[a] EXCEPT !.set = TRUE, !.counter = 0].sum = node[a].sum
        /\ [node[a] EXCEPT !.set = TRUE, !.counter = 0].countdown = node[a].countdown
    BY <1>1, DataChecked
  <2> QED
    BY <2>1, <2>2
<1>3. CASE node[a].set /\ ~hot /\ alerts[a].clear_period = 0 /\ ~alerts[a].disable_clear
  <2>1. Checked(a) = [node[a] EXCEPT !.set = FALSE, !.counter = 0]
    BY <1>3 DEF Checked
  <2>2. /\ [node[a] EXCEPT !.set = FALSE, !.counter = 0] \in Data
        /\ [node[a] EXCEPT !.set = FALSE, !.counter = 0].sum = node[a].sum
        /\ [node[a] EXCEPT !.set = FALSE, !.counter = 0].countdown = node[a].countdown
    BY <1>1, DataChecked
  <2> QED
    BY <2>1, <2>2
<1>4. CASE /\ ~(~node[a].set /\ hot)
           /\ ~(node[a].set /\ ~hot /\ alerts[a].clear_period = 0 /\ ~alerts[a].disable_clear)
  <2>1. Checked(a) = node[a]
    BY <1>4 DEF Checked
  <2> QED
    BY <1>1, <2>1
<1> QED
  BY <1>2, <1>3, <1>4

\* What a clear leaves of the data, and what a tick without a clear does.
LEMMA ZeroedMeans ==
    ASSUME TypeOK, NEW a \in Loaded, NEW b \in BOOLEAN
    PROVE  /\ Zeroed(a, b) \in Data
           /\ Zeroed(a, b).sum = NoData.sum /\ Zeroed(a, b).countdown = Countdown(a)
<1>1. node[a] \in Data /\ Countdown(a) \in Nat /\ NoData.sum \in [Ids -> Int]
  BY LoadedSetting DEF TypeOK, NoData
<1> QED
  BY <1>1 DEF Zeroed, Data

\* What a tick leaves of the data: a clear at its time, or the clocks moved on.
LEMMA TickedMeans ==
    ASSUME TypeOK, NEW a \in Loaded, NEW b \in BOOLEAN
    PROVE  /\ Ticked(a, b) \in Data
           /\ TimeToClear(a) => /\ Ticked(a, b).sum = NoData.sum
                                /\ Ticked(a, b).countdown = Countdown(a)
           /\ ~TimeToClear(a) =>
                 /\ Ticked(a, b).sum = node[a].sum
                 /\ Ticked(a, b).countdown =
                       IF ClearsByTime(alerts[a]) /\ node[a].countdown > 0
                         THEN node[a].countdown - 1 ELSE node[a].countdown
<1>1. node[a] \in Data
  BY LoadedSetting DEF TypeOK
<1>3. CASE ~ClearsByTime(alerts[a])
  BY <1>1, <1>3 DEF Ticked, TimeToClear
<1>4. CASE ClearsByTime(alerts[a]) /\ TimeToClear(a)
  <2>1. Ticked(a, b) = [Zeroed(a, b) EXCEPT !.counter = 1]
    BY <1>4 DEF Ticked
  <2> QED
    BY <2>1, <1>4, ZeroedMeans DEF Data
<1>5. CASE ClearsByTime(alerts[a]) /\ ~TimeToClear(a)
  <2> DEFINE n == node[a]
  <2> DEFINE x == IF n.countdown > 0 THEN n.countdown - 1 ELSE n.countdown
  <2> DEFINE y == IF n.set THEN n.counter + 1 ELSE n.counter
  <2>1. Ticked(a, b) = [n EXCEPT !.countdown = x, !.counter = y]
    BY <1>5 DEF Ticked
  <2>2. x \in Nat /\ y \in Nat
    BY <1>1, DataFields
  <2>0. n \in Data
    BY <1>1
  <2> HIDE DEF n, x, y
  <2>3. [n EXCEPT !.countdown = x, !.counter = y] \in Data
    BY <2>0, <2>2, DataTicked
  <2>4. /\ [n EXCEPT !.countdown = x, !.counter = y].sum = n.sum
        /\ [n EXCEPT !.countdown = x, !.counter = y].countdown = x
    BY <2>0, <2>2 DEF Data
  <2> QED
    BY <2>1, <2>3, <2>4, <1>5 DEF n, x
<1> QED
  BY <1>3, <1>4, <1>5

\* A set of numbers has a least one.
LEMMA MinOfNumbers ==
    ASSUME NEW S \in SUBSET Nat, S # {}
    PROVE  \E m \in S : \A n \in S : m <= n
<1>1. PICK m \in S : \A n \in S : ~(<<n, m>> \in OpToRel(<, Nat))
  BY WFMin, NatLessThanWellFounded
<1>2. \A n \in S : ~(n < m)
  BY <1>1 DEF OpToRel
<1>3. \A n \in S : m <= n
  BY <1>2
<1> QED
  BY <1>3

\* The call with the highest id of those that the daemon reads.
LEMMA LatestCall ==
    ASSUME NEW S \in SUBSET Ids, S # {},
           NEW m, m = CHOOSE c \in S : \A d \in S : d <= c
    PROVE  m \in S /\ \A d \in S : d <= m
<1> DEFINE T == {MaxCalls - n : n \in S}
<1>n. MaxCalls \in Nat /\ \A d \in S : d \in Nat /\ d <= MaxCalls
  BY ConstAssumption DEF Ids
<1>a. \A n \in S : MaxCalls - n \in Nat
  BY <1>n
<1>b. \A n \in S : MaxCalls - n \in T
  OBVIOUS
<1>c. PICK s \in S : TRUE
  OBVIOUS
<1>1. T \in SUBSET Nat /\ T # {}
  BY <1>a, <1>b, <1>c
<1>2. PICK t \in T : \A n \in T : t <= n
  BY <1>1, MinOfNumbers
<1>3. PICK c \in S : t = MaxCalls - c
  OBVIOUS
<1>4. \A d \in S : MaxCalls - c <= MaxCalls - d
  BY <1>2, <1>3, <1>b
<1>5. \A d \in S : d <= c
  BY <1>4, <1>n
<1> QED
  BY <1>3, <1>5

\* What adding or subtracting a packet does to the data of an alert.
LEMMA SummedData ==
    ASSUME NEW d \in Data, NEW P, NEW n \in Int
    PROVE  LET e == [d EXCEPT !.sum = Plus(@, P, n)] IN
           /\ e \in Data /\ e.countdown = d.countdown
           /\ \A c \in Ids : e.sum[c] = IF c \in P THEN d.sum[c] + n ELSE d.sum[c]
<1>1. d.sum \in [Ids -> Int]
  BY DEF Data
<1>2. Plus(d.sum, P, n) \in [Ids -> Int]
  BY <1>1, PlusTyped
<1>3. \A c \in Ids : Plus(d.sum, P, n)[c] = IF c \in P THEN d.sum[c] + n ELSE d.sum[c]
  BY DEF Plus
<1> QED
  BY <1>2, <1>3 DEF Data

\* The last packet of a period.
LEMMA PeriodTyped ==
    ASSUME NEW s \in Setting \cup {Off}
    PROVE  Period(s) \in Nat
<1>1. CASE s = Off
  BY <1>1, ConstAssumption DEF Off, Period
<1>2. CASE s \in Setting
  <2>1. s.raw \in Nat
    BY <1>2 DEF Setting
  <2>2. s.raw > 0 => s.raw * Minute \in Nat /\ s.raw * Minute >= 1
    BY <2>1, Ticks
  <2> QED
    BY <2>1, <2>2, ConstAssumption DEF Period
<1> QED
  BY <1>1, <1>2

\* Packets hold calls.
LEMMA BetweenTyped ==
    ASSUME TypeOK, NEW i \in Int, NEW j \in Int, 0 <= i
    PROVE  Between(i, j) \subseteq Ids
  BY ConstAssumption DEF Between, TypeOK

\* A fault leaves numbers of faults and edits.
LEMMA FaultTyped ==
    ASSUME TypeOK, Fault
    PROVE  left' \in [edits : Nat, faults : Nat]
  BY DEF TypeOK, Fault

\* A tick goes on with the alerts, or the next one begins.
LEMMA ProceedTyped ==
    ASSUME TypeOK, NEW S, Proceed(S)
    PROVE  odd' \in BOOLEAN /\ pc' \in {"get", "subtract"}
  BY DEF TypeOK, Proceed

\* A clear keeps the tables in their types.
LEMMA ClearsTyped ==
    ASSUME TypeOK, NEW D \in SUBSET WithDate, NEW R, Clears(D, R)
    PROVE  /\ table' \in [Alerts -> Setting \cup {Off}]
           /\ alerts' \in [Alerts -> Setting \cup {Off}]
           /\ node' \in [Alerts -> Data]
           /\ upset' \in [Alerts -> SUBSET Upsets]
           /\ surplus' \in [Alerts -> SUBSET Ids]
           /\ odd' \in BOOLEAN /\ pc' = "get"
<1>1. \A a \in D : a \in Loaded
  BY DEF WithDate
<1>2. \A a \in D : [alerts[a] EXCEPT !.clear_date = FALSE] \in Setting
  BY <1>1, LoadedSetting, DateTaken
<1>3. \A a \in Alerts : table[a] # Off => [table[a] EXCEPT !.clear_date = FALSE] \in Setting
  BY DateTaken DEF TypeOK
<1>4. table' \in [Alerts -> Setting \cup {Off}]
  BY <1>3 DEF TypeOK, Clears
<1>5. alerts' \in [Alerts -> Setting \cup {Off}]
  BY <1>2 DEF TypeOK, Clears
<1>6. node' \in [Alerts -> Data]
  <2> DEFINE f(a) == CASE a \notin Loaded -> node[a]
                       [] Dated(a, D)     -> Zeroed(a, a \in R)
                       [] OTHER           -> Ticked(a, a \in R)
  <2>1. ASSUME NEW a \in Alerts PROVE f(a) \in Data
    <3>1. CASE a \notin Loaded
      <4>1. f(a) = node[a]
        BY <3>1, <1>1 DEF Dated
      <4> QED
        BY <4>1 DEF TypeOK
    <3>2. CASE a \in Loaded /\ Dated(a, D)
      <4>1. f(a) = Zeroed(a, a \in R)
        BY <3>2
      <4>2. (a \in R) \in BOOLEAN
        OBVIOUS
      <4> HIDE DEF f
      <4> QED
        BY <3>2, <4>1, <4>2, ZeroedMeans
    <3>3. CASE a \in Loaded /\ ~Dated(a, D)
      <4>1. f(a) = Ticked(a, a \in R)
        BY <3>3
      <4>2. (a \in R) \in BOOLEAN
        OBVIOUS
      <4> HIDE DEF f
      <4> QED
        BY <3>3, <4>1, <4>2, TickedMeans
    <3> QED
      BY <3>1, <3>2, <3>3
  <2>2. node' = [a \in Alerts |-> f(a)]
    BY DEF Clears
  <2> HIDE DEF f
  <2> QED
    BY <2>1, <2>2
<1>7. upset' \in [Alerts -> SUBSET Upsets]
  <2>1. \A a \in Alerts : ClearUpsets(a, D) \subseteq Upsets
    BY DEF ClearUpsets, Upsets
  <2> QED
    BY <2>1 DEF Clears, TypeOK
<1>8. surplus' \in [Alerts -> SUBSET Ids]
  BY DEF Clears, TypeOK
<1> QED
  BY <1>4, <1>5, <1>6, <1>7, <1>8 DEF Clears, TypeOK

\* An unopened file is one of the upsets.
LEMMA UnreadTyped ==
    ASSUME TypeOK, NEW U
    PROVE  Unread(U) \in [Alerts -> SUBSET Upsets]
  BY DEF Unread, TypeOK, Upsets

\* A subtraction keeps the sums in their types.
LEMMA SubtractsTyped ==
    ASSUME TypeOK, NEW U, Subtracts(U)
    PROVE  /\ node' \in [Alerts -> Data] /\ upset' \in [Alerts -> SUBSET Upsets]
           /\ surplus' \in [Alerts -> SUBSET Ids]
<1>1. node' \in [Alerts -> Data]
  <2>1. \A a \in Alerts :
           [node[a] EXCEPT !.sum = Plus(@, Leaving(a) \cap alerts[a].of, -1)] \in Data
    BY SummedData, -1 \in Int DEF TypeOK
  <2> QED
    BY <2>1 DEF Subtracts, TypeOK
<1>2. surplus' \in [Alerts -> SUBSET Ids]
  <2>1. \A a \in Alerts : Leaving(a) \subseteq Ids
    BY BetweenTyped, PeriodTyped DEF Leaving, TypeOK
  <2> QED
    BY <2>1 DEF Subtracts, TypeOK
<1>3. upset' = Unread(U)
  BY DEF Subtracts
<1> QED
  BY <1>1, <1>2, <1>3, UnreadTyped

\* An addition keeps the sums in their types.
LEMMA AddsTyped ==
    ASSUME TypeOK, NEW U, Adds(U)
    PROVE  node' \in [Alerts -> Data] /\ upset' \in [Alerts -> SUBSET Upsets]
<1>1. \A a \in Alerts : [node[a] EXCEPT !.sum = Plus(@, ring[0] \cap alerts[a].of, 1)] \in Data
  BY SummedData, 1 \in Int DEF TypeOK
<1>2. node' \in [Alerts -> Data]
  BY <1>1 DEF Adds, TypeOK
<1>3. upset' = Unread(U)
  BY DEF Adds
<1> QED
  BY <1>2, <1>3, UnreadTyped

\* No step changes a type.
LEMMA TypeNext ==
    ASSUME TypeOK, [Next]_vars
    PROVE  TypeOK'
<1>1. CASE \E c \in Ids : InsertCall(c)
  BY <1>1 DEF TypeOK, InsertCall, daemon, history
<1>2. CASE \E a \in Alerts : \E s \in Settings[a] \cup {Off} : Edit(a, s)
  <2>1. PICK a \in Alerts : \E s \in Settings[a] \cup {Off} : Edit(a, s)
    BY <1>2
  <2>a. PICK s \in Settings[a] \cup {Off} : Edit(a, s)
    BY <2>1
  <2>2. table' \in [Alerts -> Setting \cup {Off}]
    BY <2>a, SettingsTyped DEF Edit, TypeOK
  <2>3. left' \in [edits : Nat, faults : Nat]
    BY <2>a DEF Edit, TypeOK
  <2> QED
    BY <2>a, <2>2, <2>3 DEF Edit, TypeOK, daemon
<1>3. CASE Start \/ StartBlind
  <2>1. last' \in Nat /\ left' \in [edits : Nat, faults : Nat]
    <3>1. CASE Start
      BY <3>1 DEF Start, TypeOK, Ids
    <3>2. CASE StartBlind
      BY <3>2, FaultTyped DEF StartBlind
    <3> QED
      BY <1>3, <3>1, <3>2
  <2> QED
    BY <1>3, <2>1 DEF Start, StartBlind, TypeOK, history
<1>4. CASE KeepAlerts
  BY <1>4, ProceedTyped DEF KeepAlerts, TypeOK, history
<1>5. CASE SelectAlerts
  BY <1>5 DEF SelectAlerts, TypeOK
<1>6. CASE SelectFails
  BY <1>6, ProceedTyped, FaultTyped DEF SelectFails, TypeOK
<1>7. CASE FinishReload
  <2>1. upset' \in [Alerts -> SUBSET Upsets]
    <3>1. \A a \in Alerts : UpsetByReload(a) \in SUBSET Upsets
      BY DEF UpsetByReload, TypeOK, Upsets
    <3> QED
      BY <1>7, <3>1 DEF FinishReload
  <2>2. node' \in [Alerts -> Data] /\ surplus' \in [Alerts -> SUBSET Ids]
    BY <1>7, NoDataTyped DEF FinishReload, TypeOK
  <2>3. fetched' \in [Alerts -> Setting \cup {Off}]
    BY <1>7 DEF FinishReload, NoAlerts
  <2>4. odd' \in BOOLEAN /\ pc' \in {"get", "subtract"}
    BY <1>7, ProceedTyped DEF FinishReload
  <2> QED
    BY <1>7, <2>1, <2>2, <2>3, <2>4 DEF FinishReload, TypeOK
<1>8. CASE Subtract \/ SubtractUnread
  <2>1. CASE Subtract
    BY <2>1, SubtractsTyped DEF Subtract, Subtracts, TypeOK
  <2>2. CASE SubtractUnread
    BY <2>2, SubtractsTyped, FaultTyped DEF SubtractUnread, Subtracts, TypeOK
  <2> QED
    BY <1>8, <2>1, <2>2
<1>9. CASE ReadCalls
  <2>1. ring' \in [0 .. Packets - 1 -> SUBSET Ids]
    BY <1>9, ConstAssumption DEF ReadCalls, NewCalls, TypeOK
  <2>2. last' \in Nat
    <3>1. NewCalls \in SUBSET Ids
      BY DEF NewCalls, TypeOK
    <3>2. CASE NewCalls = {}
      BY <1>9, <3>2 DEF ReadCalls, TypeOK
    <3>3. CASE NewCalls # {}
      <4>1. last' = CHOOSE c \in NewCalls : \A d \in NewCalls : d <= c
        BY <1>9, <3>3 DEF ReadCalls
      <4>2. last' \in NewCalls
        BY <3>1, <3>3, <4>1, LatestCall
      <4> QED
        BY <3>1, <4>2 DEF Ids
    <3> QED
      BY <3>2, <3>3
  <2> QED
    BY <1>9, <2>1, <2>2 DEF ReadCalls, TypeOK, history
<1>10. CASE ReadFails
  <2>1. upset' \in [Alerts -> SUBSET Upsets]
    BY <1>10 DEF ReadFails, TypeOK, Upsets
  <2> QED
    BY <1>10, <2>1, FaultTyped DEF ReadFails, TypeOK
<1>11. CASE Add \/ AddUnread
  <2>1. CASE Add
    BY <2>1, AddsTyped DEF Add, Adds, TypeOK
  <2>2. CASE AddUnread
    BY <2>2, AddsTyped, FaultTyped DEF AddUnread, Adds, TypeOK
  <2> QED
    BY <1>11, <2>1, <2>2
<1>12. CASE Check
  <2>1. node' \in [Alerts -> Data]
    BY <1>12, CheckedKeeps DEF Check, TypeOK
  <2> QED
    BY <1>12, <2>1 DEF Check, TypeOK, history
<1>13. CASE Clear
  <2>1. PICK D \in SUBSET WithDate : Clears(D, Alerts) /\ UNCHANGED left
    BY <1>13 DEF Clear
  <2> QED
    BY <2>1, ClearsTyped DEF Clears, TypeOK
<1>14. CASE ClearUnreported
  <2>1. PICK D \in SUBSET WithDate, a \in Loaded : Fault /\ Clears(D, Alerts \ {a})
    BY <1>14 DEF ClearUnreported
  <2> QED
    BY <2>1, ClearsTyped, FaultTyped DEF Clears, TypeOK
<1>15. CASE Die
  <2>1. node' \in [Alerts -> Data]
    BY <1>15, NoDataTyped DEF Die
  <2>2. /\ fetched' \in [Alerts -> Setting \cup {Off}] /\ alerts' \in [Alerts -> Setting \cup {Off}]
    BY <1>15 DEF Die, NoAlerts
  <2>3. ring' \in [0 .. Packets - 1 -> SUBSET Ids]
    BY <1>15 DEF Die, EmptyRing
  <2> QED
    BY <1>15, <2>1, <2>2, <2>3, FaultTyped DEF Die, TypeOK
<1>16. CASE UNCHANGED vars
  BY <1>16 DEF vars, daemon, history, TypeOK
<1> QED
  BY <1>1, <1>2, <1>3, <1>4, <1>5, <1>6, <1>7, <1>8, <1>9, <1>10, <1>11, <1>12, <1>13,
     <1>14, <1>15, <1>16 DEF Next, Daemon

\* What the daemon and the table agree on is all of a setting but the date.
Alike(s, t) ==
    /\ s.raw = t.raw /\ s.of = t.of /\ s.more = t.more
    /\ s.clear_period = t.clear_period /\ s.disable_clear = t.disable_clear

\* A setting whose date was taken fits as before, and is alike.
LEMMA FitsTaken ==
    ASSUME NEW s, Fits(s), s # Off
    PROVE  LET t == [s EXCEPT !.clear_date = FALSE] IN
           /\ Fits(t) /\ t # Off /\ Alike(s, t)
<1>1. s \in Setting /\ s.raw * Minute <= Packets
  BY DEF Fits
<1>2. LET t == [s EXCEPT !.clear_date = FALSE] IN
        /\ t \in Setting /\ t.raw = s.raw /\ t.of = s.of /\ t.more = s.more
        /\ t.clear_period = s.clear_period /\ t.disable_clear = s.disable_clear
  BY <1>1, DateTaken
<1>3. \A t \in Setting : t # Off
  BY DEF Setting, Off
<1> QED
  BY <1>1, <1>2, <1>3 DEF Fits, Alike

\* A clear takes dates from the settings, nothing else.
LEMMA ClearsKeepSettings ==
    ASSUME TypeOK, TablesInv, NEW D \in SUBSET WithDate, NEW R, Clears(D, R)
    PROVE  \A a \in Alerts : /\ Fits(table'[a]) /\ Fits(alerts'[a])
                             /\ Alike(table[a], table'[a])
                             /\ Alike(alerts[a], alerts'[a])
                             /\ alerts'[a] = Off <=> alerts[a] = Off
<1> SUFFICES ASSUME NEW a \in Alerts
             PROVE  /\ Fits(table'[a]) /\ Fits(alerts'[a])
                    /\ Alike(table[a], table'[a])
                    /\ Alike(alerts[a], alerts'[a])
                    /\ alerts'[a] = Off <=> alerts[a] = Off
  OBVIOUS
<1>1. Fits(table[a]) /\ Fits(alerts[a])
  BY DEF TablesInv
<1>2. /\ table'[a] = IF a \in D /\ table[a] # Off
                       THEN [table[a] EXCEPT !.clear_date = FALSE] ELSE table[a]
      /\ alerts'[a] = IF a \in D THEN [alerts[a] EXCEPT !.clear_date = FALSE] ELSE alerts[a]
  BY DEF Clears
<1>3. a \in D => alerts[a] # Off
  BY DEF WithDate, Loaded
<1>4. Fits(table'[a]) /\ Alike(table[a], table'[a])
  <2>1. CASE a \in D /\ table[a] # Off
    BY <2>1, <1>1, <1>2, FitsTaken
  <2>2. CASE ~(a \in D /\ table[a] # Off)
    BY <2>2, <1>1, <1>2 DEF Alike
  <2> QED
    BY <2>1, <2>2
<1>5. Fits(alerts'[a]) /\ Alike(alerts[a], alerts'[a]) /\ (alerts'[a] = Off <=> alerts[a] = Off)
  <2>1. CASE a \in D
    BY <2>1, <1>1, <1>2, <1>3, FitsTaken
  <2>2. CASE a \notin D
    BY <2>2, <1>1, <1>2 DEF Alike
  <2> QED
    BY <2>1, <2>2
<1> QED
  BY <1>4, <1>5

\* The tables fit at first.
LEMMA TablesInit == Init => TablesInv
<1> SUFFICES ASSUME Init PROVE TablesInv
  OBVIOUS
<1>1. \A a \in Alerts : \A s \in Settings[a] \cup {Off} : Fits(s)
  BY SettingsTyped DEF Fits
<1> QED
  BY <1>1 DEF Init, TablesInv, NoAlerts, Fits

\* The tables go on to fit, and a daemon that dies forgets everything.
LEMMA TablesNext ==
    ASSUME TypeOK, TablesInv, [Next]_vars
    PROVE  TablesInv'
<1>1. CASE \E c \in Ids : InsertCall(c)
  BY <1>1 DEF TablesInv, InsertCall, daemon, history
<1>2. CASE \E a \in Alerts : \E s \in Settings[a] \cup {Off} : Edit(a, s)
  <2>1. PICK a \in Alerts : \E s \in Settings[a] \cup {Off} : Edit(a, s)
    BY <1>2
  <2>a. PICK s \in Settings[a] \cup {Off} : Edit(a, s)
    BY <2>1
  <2>2. Fits(s)
    BY SettingsTyped DEF Fits
  <2>3. \A b \in Alerts : Fits(table'[b])
    BY <2>a, <2>2 DEF Edit, TablesInv, TypeOK
  <2> QED
    BY <2>a, <2>3 DEF Edit, TablesInv, daemon
<1>3. CASE Start \/ StartBlind \/ KeepAlerts \/ SelectFails
  BY <1>3 DEF Start, StartBlind, KeepAlerts, SelectFails, Proceed, TablesInv, history
<1>4. CASE SelectAlerts
  BY <1>4 DEF SelectAlerts, TablesInv
<1>5. CASE FinishReload
  <2>1. \A a \in Alerts : Fits(NoAlerts[a])
    BY DEF NoAlerts, Fits
  <2> QED
    BY <1>5, <2>1 DEF FinishReload, Proceed, TablesInv
<1>6. CASE ReadCalls \/ ReadFails \/ Check
  BY <1>6 DEF ReadCalls, ReadFails, Check, TablesInv
<1>11. CASE Subtract \/ SubtractUnread \/ Add \/ AddUnread
  <2>1. UNCHANGED <<table, fetched, alerts>> /\ pc' \in {"read", "check"}
    BY <1>11 DEF Subtract, SubtractUnread, Subtracts, Add, AddUnread, Adds
  <2> QED
    BY <2>1 DEF TablesInv
<1>7. ASSUME NEW D \in SUBSET WithDate, NEW R, Clears(D, R)
      PROVE  TablesInv'
  BY <1>7, ClearsKeepSettings DEF Clears, TablesInv
<1>8. CASE Clear \/ ClearUnreported
  BY <1>7, <1>8 DEF Clear, ClearUnreported
<1>9. CASE Die
  BY <1>9 DEF Die, TablesInv, NoAlerts, Fits
<1>10. CASE UNCHANGED vars
  BY <1>10 DEF vars, daemon, history, TablesInv
<1> QED
  BY <1>1, <1>2, <1>3, <1>4, <1>5, <1>6, <1>8, <1>9, <1>10, <1>11 DEF Next, Daemon

\* The types, and what the tables may hold.
TypesInv == TypeOK /\ TablesInv

\* Every variable keeps its type, with any settings that fit into the ring and
\* any number of alerts.
THEOREM TypeCorrect == Spec => []TypeOK
<1>1. Init => TypesInv
  BY TypeInit, TablesInit DEF TypesInv
<1>2. TypesInv /\ [Next]_vars => TypesInv'
  BY TypeNext, TablesNext DEF TypesInv
<1>3. TypesInv => TypeOK
  BY DEF TypesInv
<1> QED
  BY <1>1, <1>2, <1>3, PTL DEF Spec

\* TypesInv holds whatever happens.
LEMMA TypesStand == Spec => []TypesInv
<1>1. Init => TypesInv
  BY TypeInit, TablesInit DEF TypesInv
<1>2. TypesInv /\ [Next]_vars => TypesInv'
  BY TypeNext, TablesNext DEF TypesInv
<1> QED
  BY <1>1, <1>2, PTL DEF Spec

-----------------------------------------------------------------------------
(***************************************************************************)
(* The edits of the GUI.                                                   *)
(***************************************************************************)
\* What the SELECT has brought is what the GUI has, unless an edit was missed.
EditInv ==
    /\ pc = "reload" /\ ~missed => \A a \in Alerts : Alike(fetched[a], table[a])
    /\ EditsAreNotForgotten

\* Nothing is forgotten at first.
LEMMA EditInit == Init => EditInv
  BY DEF Init, EditInv, EditsAreNotForgotten

\* An edit raises the flag or is missed; a reload brings what the GUI has.
LEMMA EditNext ==
    ASSUME TypeOK, TablesInv, EditInv, [Next]_vars
    PROVE  EditInv'
<1> USE DEF EditInv, EditsAreNotForgotten, Same, Alike
<1>1. CASE \E c \in Ids : InsertCall(c)
  BY <1>1 DEF InsertCall, daemon, history
<1>2. CASE \E a \in Alerts : \E s \in Settings[a] \cup {Off} : Edit(a, s)
  BY <1>2 DEF Edit, daemon
<1>3. CASE Start \/ StartBlind
  BY <1>3 DEF Start, StartBlind, TablesInv, history
<1>4. CASE KeepAlerts
  BY <1>4 DEF KeepAlerts, Proceed, history
<1>5. CASE SelectFails
  BY <1>5 DEF SelectFails, Proceed
<1>6. CASE SelectAlerts
  BY <1>6 DEF SelectAlerts
<1>7. CASE FinishReload
  BY <1>7 DEF FinishReload, Proceed
<1>8. CASE ReadCalls \/ ReadFails \/ Check
  BY <1>8 DEF ReadCalls, ReadFails, Check, history
<1>13. CASE Subtract \/ SubtractUnread \/ Add \/ AddUnread
  <2>1. /\ UNCHANGED <<table, flag, forced, alerts, missed>>
        /\ pc \in {"subtract", "add"} /\ pc' \in {"read", "check"}
    BY <1>13 DEF Subtract, SubtractUnread, Subtracts, Add, AddUnread, Adds
  <2> QED
    BY <2>1
<1>9. ASSUME NEW D \in SUBSET WithDate, NEW R, Clears(D, R)
      PROVE  EditInv'
  BY <1>9, ClearsKeepSettings DEF Clears
<1>10. CASE Clear \/ ClearUnreported
  BY <1>9, <1>10 DEF Clear, ClearUnreported
<1>11. CASE Die
  BY <1>11 DEF Die
<1>12. CASE UNCHANGED vars
  BY <1>12 DEF vars, daemon, history
<1> QED
  BY <1>1, <1>2, <1>3, <1>4, <1>5, <1>6, <1>7, <1>8, <1>10, <1>11, <1>12, <1>13
     DEF Next, Daemon

\* What the GUI changed is in the daemon's memory, or the flag is up and the
\* daemon will look (get_alerts), but for an edit that fell into a reload.
THEOREM EditsAreKept == Spec => []EditsAreNotForgotten
<1>1. Init => EditInv
  BY EditInit
<1>2. TypesInv /\ EditInv /\ [Next]_vars => EditInv'
  BY EditNext DEF TypesInv
<1>3. EditInv => EditsAreNotForgotten
  BY DEF EditInv
<1> QED
  BY <1>1, <1>2, <1>3, TypesStand, PTL DEF Spec

-----------------------------------------------------------------------------
(***************************************************************************)
(* The ring: no call is in two packets.                                    *)
(***************************************************************************)
\* The places of the ring.
Slots == 0 .. Packets - 1

\* The packets hold different calls, and none that the daemon has yet to read.
RingInv ==
    /\ \A k \in Slots : \A c \in ring[k] : c <= last
    /\ \A j, k \in Slots : j # k => ring[j] \cap ring[k] = {}
    /\ \A a \in Alerts : \A c \in surplus[a] : c <= last

\* Which calls some packets hold.
LEMMA BetweenMeans ==
    ASSUME TypeOK, NEW i \in Nat, NEW j \in Int, NEW c
    PROVE  c \in Between(i, j) <=> \E k \in Slots : i <= k /\ k <= j /\ c \in ring[k]
  BY ConstAssumption DEF Between, Slots

\* The calls that are read are those after the last one, and the last of them
\* is the last one then.
LEMMA NewCallsRead ==
    ASSUME TypeOK, ReadCalls
    PROVE  /\ last <= last' /\ last' \in Nat /\ last \in Nat
           /\ \A c \in NewCalls : c \in Ids /\ c \in Nat /\ last < c /\ c <= last'
<1>2. last \in Nat
  BY DEF TypeOK
<1>0. \A c \in Ids : c \in Nat
  BY DEF Ids
<1>1. NewCalls \in SUBSET Ids /\ \A c \in NewCalls : c \in Nat /\ last < c
  BY <1>0, <1>2 DEF NewCalls, TypeOK
<1>3. CASE NewCalls = {}
  BY <1>2, <1>3 DEF ReadCalls
<1>4. CASE NewCalls # {}
  <2>1. last' = CHOOSE c \in NewCalls : \A d \in NewCalls : d <= c
    BY <1>4 DEF ReadCalls
  <2>2. last' \in NewCalls /\ \A d \in NewCalls : d <= last'
    BY <1>1, <1>4, <2>1, LatestCall
  <2> QED
    BY <1>1, <1>2, <2>2
<1> QED
  BY <1>3, <1>4

\* What a tick does to the packets.
LEMMA RingShifts ==
    ASSUME TypeOK, ReadCalls
    PROVE  /\ 0 \in Slots /\ ring'[0] = NewCalls
           /\ \A k \in Slots : k # 0 => k - 1 \in Slots /\ ring'[k] = ring[k - 1]
  BY ConstAssumption DEF ReadCalls, Slots

\* The ring is empty at first.
LEMMA RingInit == Init => RingInv
<1> SUFFICES ASSUME Init PROVE RingInv
  OBVIOUS
<1>1. \A k \in Slots : ring[k] = {}
  BY DEF Init, EmptyRing, Slots
<1> QED
  BY <1>1 DEF Init, RingInv

\* The packet that leaves a period is one of the ring.
LEMMA LeavingMeans ==
    ASSUME TypeOK, TablesInv, NEW a \in Loaded
    PROVE  Period(alerts[a]) \in Slots /\ Leaving(a) = ring[Period(alerts[a])]
<1> DEFINE p == Period(alerts[a])
<1>1. alerts[a] \in Setting /\ alerts[a] # Off /\ alerts[a].raw \in Nat /\ a \in Alerts
  BY LoadedSetting DEF Loaded
<1>2. alerts[a].raw * Minute <= Packets
  BY <1>1 DEF TablesInv, Fits
<1>3. p \in Nat
  BY <1>1, PeriodTyped
<1>4. p <= Packets - 1
  BY <1>1, <1>2, Ticks, ConstAssumption DEF Period
<1>5. p \in Slots
  BY <1>3, <1>4, ConstAssumption DEF Slots
<1>6. Leaving(a) = Between(p, p)
  BY DEF Leaving
<1> HIDE DEF p
<1>7. \A c : c \in Between(p, p) <=> c \in ring[p]
  <2> TAKE c
  <2>1. c \in Between(p, p) <=> \E k \in Slots : p <= k /\ k <= p /\ c \in ring[k]
    BY <1>3, BetweenMeans
  <2>2. \A k \in Slots : p <= k /\ k <= p <=> k = p
    BY <1>3, ConstAssumption DEF Slots
  <2> QED
    BY <2>1, <2>2, <1>5
<1>8. Leaving(a) = ring[p]
  BY <1>6, <1>7
<1> QED
  BY <1>5, <1>8 DEF p

\* A read puts only later calls into the ring, so no call is in two packets.
LEMMA RingNext ==
    ASSUME TypeOK, TablesInv, RingInv, [Next]_vars
    PROVE  RingInv'
<1>1. CASE UNCHANGED <<ring, last, surplus>>
  BY <1>1 DEF RingInv, Slots
<1>2. CASE Start \/ StartBlind
  <2>1. \A k \in Slots : ring[k] = {}
    BY <1>2 DEF Start, StartBlind, TablesInv, EmptyRing, Slots
  <2>2. \A a \in Alerts : surplus[a] = {}
    BY <1>2 DEF Start, StartBlind, TablesInv
  <2>3. UNCHANGED <<ring, surplus>>
    BY <1>2 DEF Start, StartBlind, history
  <2> QED
    BY <2>1, <2>2, <2>3 DEF RingInv, Slots
<1>3. CASE UNCHANGED <<ring, last>> /\ \A a \in Alerts : surplus'[a] \subseteq surplus[a]
  BY <1>3 DEF RingInv, Slots
<1>4. CASE FinishReload
  BY <1>3, <1>4 DEF FinishReload
<1>5. ASSUME NEW U, Subtracts(U)
      PROVE  RingInv'
  <2>1. ASSUME NEW a \in Alerts, NEW c \in surplus'[a] PROVE c <= last
    <3>1. CASE c \in surplus[a]
      BY <3>1 DEF RingInv
    <3>2. CASE c \notin surplus[a]
      <4>1. a \in Loaded /\ c \in Leaving(a)
        BY <1>5, <2>1, <3>2 DEF Subtracts
      <4> QED
        BY <4>1, LeavingMeans DEF RingInv
    <3> QED
      BY <3>1, <3>2
  <2>2. UNCHANGED <<ring, last>>
    BY <1>5 DEF Subtracts
  <2> QED
    BY <2>1, <2>2 DEF RingInv, Slots
<1>6. CASE ReadCalls
  <2>1. /\ last <= last' /\ last' \in Nat /\ last \in Nat
        /\ \A c \in NewCalls : c \in Ids /\ c \in Nat /\ last < c /\ c <= last'
    BY <1>6, NewCallsRead
  <2>2. /\ 0 \in Slots /\ ring'[0] = NewCalls
        /\ \A k \in Slots : k # 0 => k - 1 \in Slots /\ ring'[k] = ring[k - 1]
    BY <1>6, RingShifts
  <2>3. \A k \in Slots : \A c \in ring[k] : c \in Nat /\ c <= last
    BY DEF RingInv, TypeOK, Slots, Ids
  <2>4. ASSUME NEW k \in Slots, NEW c \in ring'[k]
        PROVE  c <= last' /\ (k # 0 => c <= last)
    BY <2>1, <2>2, <2>3, <2>4
  <2>5. ASSUME NEW j \in Slots, NEW k \in Slots, j # k, NEW c \in ring'[j], c \in ring'[k]
        PROVE  FALSE
    <3>1. CASE j = 0 \/ k = 0
      BY <2>1, <2>2, <2>3, <2>5, <3>1
    <3>2. CASE j # 0 /\ k # 0
      <4>1. j - 1 \in Slots /\ k - 1 \in Slots /\ j - 1 # k - 1
        BY <2>2, <2>5, <3>2 DEF Slots
      <4>2. c \in ring[j - 1] /\ c \in ring[k - 1]
        BY <2>2, <2>5, <3>2
      <4> QED
        BY <4>1, <4>2 DEF RingInv
    <3> QED
      BY <3>1, <3>2
  <2>6. \A a \in Alerts : \A c \in surplus'[a] : c <= last'
    <3>1. \A a \in Alerts : \A c \in surplus[a] : c \in Nat /\ c <= last
      BY DEF RingInv, TypeOK, Ids
    <3>2. surplus' = surplus
      BY <1>6 DEF ReadCalls, history
    <3> QED
      BY <2>1, <3>1, <3>2
  <2>7. \A j, k \in Slots : j # k => ring'[j] \cap ring'[k] = {}
    BY <2>5
  <2>8. \A k \in Slots : \A c \in ring'[k] : c <= last'
    BY <2>4
  <2> QED
    BY <2>6, <2>7, <2>8 DEF RingInv, Slots
<1>7. CASE Clear \/ ClearUnreported
  <2>1. PICK D, R : Clears(D, R)
    BY <1>7 DEF Clear, ClearUnreported
  <2>2. UNCHANGED <<ring, last>> /\ \A a \in Alerts : surplus'[a] \subseteq surplus[a]
    BY <2>1 DEF Clears
  <2> QED
    BY <1>3, <2>2
<1>8. CASE Die
  <2>1. \A k \in Slots : ring'[k] = {}
    BY <1>8 DEF Die, EmptyRing, Slots
  <2> QED
    BY <1>8, <2>1 DEF Die, RingInv, Slots
<1>9. CASE UNCHANGED vars
  BY <1>1, <1>9 DEF vars, daemon, history
<1>10. CASE \E c \in Ids : InsertCall(c)
  BY <1>1, <1>10 DEF InsertCall, daemon, history
<1>11. CASE \E a \in Alerts : \E s \in Settings[a] \cup {Off} : Edit(a, s)
  BY <1>1, <1>11 DEF Edit, daemon
<1>12. CASE KeepAlerts \/ SelectAlerts \/ SelectFails \/ ReadFails \/ Check
  BY <1>1, <1>12 DEF KeepAlerts, SelectAlerts, SelectFails, ReadFails, Check, history
<1>13. CASE Add \/ AddUnread
  BY <1>1, <1>13 DEF Add, AddUnread, Adds
<1>14. CASE Subtract \/ SubtractUnread
  BY <1>5, <1>14 DEF Subtract, SubtractUnread
<1> QED
  BY <1>2, <1>4, <1>6, <1>7, <1>8, <1>9, <1>10, <1>11, <1>12, <1>13, <1>14
     DEF Next, Daemon

-----------------------------------------------------------------------------
(***************************************************************************)
(* The sums: what holds of an alert that nothing has upset.                *)
(***************************************************************************)
\* How many packets of a period a call of a surplus is behind.
Limit(a) == IF pc = "read" THEN Period(alerts[a]) ELSE Period(alerts[a]) + 1

\* Only an alert that is cleared by time counts down, and from its countdown.
ClockCalm(a) ==
    node[a].countdown > 0 =>
       /\ alerts[a].raw > 0 /\ ClearsByTime(alerts[a])
       /\ node[a].countdown <= Countdown(a)

\* No packet of the period holds a call of the surplus.
SurplusBehind(a) == \A k \in Slots : k < Limit(a) => ring[k] \cap surplus[a] = {}

\* The sum is that of the calls in the period and of the surplus.
SumCalm(a) ==
    \A c \in Ids : node[a].sum[c] =
       IF c \in alerts[a].of /\ c \in Fresh(a) \cup surplus[a] THEN 1 ELSE 0

\* An alert nothing has upset.
CalmAlert(a) == ClockCalm(a) /\ SurplusBehind(a) /\ SumCalm(a)

\* Every alert that nothing has upset is calm.
WindowInv == \A a \in Loaded : upset[a] = {} => CalmAlert(a)

\* The numbers of an alert that is loaded.
LEMMA Numbers ==
    ASSUME TypeOK, TablesInv, NEW a \in Loaded
    PROVE  /\ Period(alerts[a]) \in Nat /\ Period(alerts[a]) < Packets
           /\ node[a].countdown \in Nat /\ Countdown(a) \in Nat
           /\ alerts[a].raw > 0 => Countdown(a) = Period(alerts[a]) + 1 + Minute
<1>1. alerts[a] \in Setting /\ alerts[a].raw \in Nat /\ a \in Alerts /\ Countdown(a) \in Nat
  BY LoadedSetting
<1>2. Period(alerts[a]) \in Slots
  BY LeavingMeans
<1>3. node[a].countdown \in Nat
  BY <1>1, DataFields DEF TypeOK
<1>4. alerts[a].raw * Minute \in Nat
  BY <1>1, Ticks
<1>5. alerts[a].raw > 0 => Countdown(a) = Period(alerts[a]) + 1 + Minute
  BY <1>1, <1>4, ConstAssumption DEF Countdown, Period
<1> QED
  BY <1>1, <1>2, <1>3, <1>5, ConstAssumption DEF Slots

\* How many packets of its period an alert has added.
LEMMA FreshNumbers ==
    ASSUME TypeOK, TablesInv, NEW a \in Loaded, ClockCalm(a)
    PROVE  /\ SinceClear(a) \in Int /\ Summed(a) \in Nat
           /\ node[a].countdown > 0 => SinceClear(a) \in Nat
           /\ FreshPackets(a) \in Nat /\ FreshPackets(a) <= Summed(a)
<1>1. /\ Period(alerts[a]) \in Nat /\ node[a].countdown \in Nat /\ Countdown(a) \in Nat
  BY Numbers
<1>2. Summed(a) \in Nat
  BY <1>1 DEF Summed
<1>3. SinceClear(a) \in Int /\ (node[a].countdown > 0 => SinceClear(a) \in Nat)
  BY <1>1 DEF SinceClear, ClockCalm
<1> QED
  BY <1>2, <1>3 DEF FreshPackets

\* Which calls of the period have been added.
LEMMA FreshMeans ==
    ASSUME TypeOK, NEW a, FreshPackets(a) \in Nat, NEW c
    PROVE  c \in Fresh(a) <=>
             \E k \in Slots : /\ Newest <= k /\ k <= Newest + FreshPackets(a) - 1
                              /\ c \in ring[k]
<1>1. Newest \in Nat /\ Newest + FreshPackets(a) - 1 \in Int
  BY DEF Newest
<1> QED
  BY <1>1, BetweenMeans DEF Fresh

\* The same after a step.
LEMMA FreshAfter ==
    ASSUME TypeOK', NEW a, NEW i \in Nat, i = Newest', NEW n \in Nat, n = FreshPackets(a)',
           NEW c
    PROVE  c \in Fresh(a)' <=>
             \E k \in Slots : i <= k /\ k <= i + n - 1 /\ c \in ring'[k]
<1>1. Fresh(a)' = UNION {ring'[k] : k \in {k \in i .. i + n - 1 : k < Packets}}
  BY DEF Fresh, Between
<1> QED
  BY <1>1, ConstAssumption DEF Slots

\* The same but for the settings, which are alike, and data with this sum and
\* countdown: the alert is as calm as it was.
LEMMA CalmStays ==
    ASSUME TypeOK, TablesInv, NEW a \in Loaded, CalmAlert(a),
           alerts'[a].raw = alerts[a].raw, alerts'[a].of = alerts[a].of,
           node[a].countdown > 0 => ClearsByTime(alerts'[a]),
           node'[a].sum = node[a].sum, node'[a].countdown = node[a].countdown,
           ring' = ring, surplus'[a] = surplus[a],
           \/ pc' = pc
           \/ pc \in {"get", "reload"} /\ pc' \in {"get", "reload", "subtract"}
           \/ pc = "check" /\ pc' = "clear"
    PROVE  CalmAlert(a)'
<1>1. Period(alerts[a])' = Period(alerts[a]) /\ Countdown(a)' = Countdown(a)
  BY DEF Period, Countdown
<1>2. /\ Summed(a)' = Summed(a) /\ SinceClear(a)' = SinceClear(a) /\ Newest' = Newest
      /\ Limit(a)' = Limit(a)
  BY <1>1 DEF Summed, SinceClear, Newest, Limit
<1>3. FreshPackets(a)' = FreshPackets(a)
  BY <1>2 DEF FreshPackets
<1>4. Fresh(a)' = Fresh(a)
  BY <1>2, <1>3 DEF Fresh, Between
<1>a. ClearsByTime(alerts[a])' <=> ClearsByTime(alerts'[a])
  BY DEF ClearsByTime
<1>5. ClockCalm(a)'
  BY <1>1, <1>a DEF CalmAlert, ClockCalm
<1>6. SurplusBehind(a)'
  BY <1>2 DEF CalmAlert, SurplusBehind, Slots
<1>7. SumCalm(a)'
  BY <1>4 DEF CalmAlert, SumCalm, Ids
<1> QED
  BY <1>5, <1>6, <1>7 DEF CalmAlert

-----------------------------------------------------------------------------
(***************************************************************************)
(* The steps of a tick, and a reload.                                      *)
(***************************************************************************)
\* The packet that leaves is subtracted, or it joins the surplus.
LEMMA SubtractCalm ==
    ASSUME TypeOK, TypeOK', TablesInv, TablesInv', RingInv,
           NEW a \in Loaded, CalmAlert(a), NEW U, Subtracts(U), a \notin U
    PROVE  CalmAlert(a)'
<1> DEFINE p == Period(alerts[a])
<1> DEFINE n == FreshPackets(a)
<1> DEFINE cd == node[a].countdown
<1>1. a \in Alerts /\ a \in Loaded'
  BY DEF Loaded, Subtracts
<1>2. pc = "subtract" /\ pc' = "read" /\ alerts' = alerts /\ ring' = ring
  BY DEF Subtracts
<1>3. Period(alerts[a])' = p /\ Countdown(a)' = Countdown(a)
  BY <1>2 DEF Period, Countdown
<1>4. /\ p \in Nat /\ p < Packets /\ p \in Slots /\ Leaving(a) = ring[p]
      /\ cd \in Nat /\ Countdown(a) \in Nat
      /\ alerts[a].raw > 0 => Countdown(a) = p + 1 + Minute
  BY Numbers, LeavingMeans
<1>5. node[a] \in Data
  BY <1>1 DEF TypeOK
<1>6. node'[a].countdown = cd
  <2>1. CASE cd <= 0
    <3>1. node'[a] = [node[a] EXCEPT !.sum = Plus(@, Leaving(a) \cap alerts[a].of, -1)]
      BY <1>1, <2>1 DEF Subtracts
    <3> QED
      BY <3>1, <1>5, SummedData, -1 \in Int
  <2>2. CASE ~(cd <= 0)
    BY <1>1, <2>2 DEF Subtracts
  <2> QED
    BY <2>1, <2>2
<1>7. ClockCalm(a)'
  BY <1>2, <1>3, <1>6 DEF CalmAlert, ClockCalm, ClearsByTime
<1>8. Summed(a) = p + 1 /\ Summed(a)' = p /\ Newest = 0 /\ Newest' = 0
  BY <1>2, <1>3 DEF Summed, Newest
<1>9. SinceClear(a) = Countdown(a) - cd /\ SinceClear(a)' = Countdown(a) - cd
  BY <1>2, <1>3, <1>6, <1>4 DEF SinceClear
<1>10. /\ n = IF cd > 0 /\ Countdown(a) - cd < p + 1 THEN Countdown(a) - cd ELSE p + 1
       /\ FreshPackets(a)' = IF cd > 0 /\ Countdown(a) - cd < p THEN Countdown(a) - cd ELSE p
  BY <1>6, <1>8, <1>9 DEF FreshPackets
<1> DEFINE m == FreshPackets(a)'
<1>11. cd > 0 => Countdown(a) - cd \in Nat
  BY <1>4 DEF CalmAlert, ClockCalm
<1>12. n \in Nat /\ m \in Nat /\ m <= p
       /\ (n = p + 1 => m = p) /\ (n # p + 1 => m = n /\ cd > 0)
  BY <1>4, <1>10, <1>11
<1>13. /\ \A k \in Slots : k < p + 1 => ring[k] \cap surplus[a] = {}
       /\ \A j, k \in Slots : j # k => ring[j] \cap ring[k] = {}
  BY <1>2 DEF CalmAlert, SurplusBehind, Limit, RingInv
<1>14. \A c \in Ids : node[a].sum[c] =
          IF /\ c \in alerts[a].of
             /\ \/ \E k \in Slots : k <= n - 1 /\ c \in ring[k]
                \/ c \in surplus[a]
            THEN 1 ELSE 0
  <2> TAKE c \in Ids
  <2>1. c \in Fresh(a) <=> \E k \in Slots : 0 <= k /\ k <= 0 + n - 1 /\ c \in ring[k]
    BY <1>8, <1>12, FreshMeans
  <2>2. \A k \in Slots : 0 <= k /\ 0 + n - 1 = n - 1
    BY <1>12 DEF Slots
  <2>3. node[a].sum[c] = IF c \in alerts[a].of /\ c \in Fresh(a) \cup surplus[a] THEN 1 ELSE 0
    BY DEF CalmAlert, SumCalm
  <2> HIDE DEF n
  <2> QED
    BY <2>1, <2>2, <2>3
<1>15. \A c \in Ids : c \in Fresh(a)' <=> \E k \in Slots : k <= m - 1 /\ c \in ring[k]
  <2> TAKE c \in Ids
  <2>1. 0 \in Nat /\ 0 = Newest' /\ m \in Nat
    BY <1>8, <1>12
  <2>2. c \in Fresh(a)' <=> \E k \in Slots : 0 <= k /\ k <= 0 + m - 1 /\ c \in ring'[k]
    BY <2>1, FreshAfter
  <2>3. \A k \in Slots : 0 <= k /\ 0 + m - 1 = m - 1
    BY <1>12 DEF Slots
  <2> HIDE DEF m
  <2> QED
    BY <2>2, <2>3, <1>2
<1>16. \A k \in Slots : k \in Nat
  BY DEF Slots
<1>17. CASE cd > 0
  <2>1. node'[a] = node[a] /\ surplus'[a] = surplus[a] \cup {c \in ring[p] : node[a].sum[c] > 0}
    BY <1>1, <1>4, <1>17 DEF Subtracts
  <2>2. \A c \in ring[p] : c \in Ids
    BY <1>4 DEF TypeOK, Slots
  <2> HIDE DEF p, n, m, cd
  <2>3. CASE n # p + 1
    <3>1. m = n /\ n <= p
      BY <1>12, <1>4, <2>3
    <3>2. \A c \in ring[p] : ~(node[a].sum[c] > 0)
      <4> TAKE c \in ring[p]
      <4>1. c \notin surplus[a]
        BY <1>4, <1>13
      <4>2. ~ \E k \in Slots : k <= n - 1 /\ c \in ring[k]
        BY <1>4, <1>12, <1>13, <1>16, <3>1
      <4> QED
        BY <1>14, <2>2, <4>1, <4>2
    <3>3. surplus'[a] = surplus[a]
      BY <2>1, <3>2
    <3>4. SumCalm(a)'
      BY <1>2, <1>14, <1>15, <2>1, <3>1, <3>3 DEF SumCalm, Ids
    <3>5. SurplusBehind(a)'
      BY <1>2, <1>3, <1>13, <1>16, <1>4, <3>3 DEF SurplusBehind, Limit, Slots, p
    <3> QED
      BY <1>7, <3>4, <3>5 DEF CalmAlert
  <2>4. CASE n = p + 1
    <3>1. m = p
      BY <1>12, <2>4
    <3>2. \A c \in ring[p] : node[a].sum[c] > 0 <=> c \in alerts[a].of
      BY <1>4, <1>14, <2>2, <2>4
    <3>3. surplus'[a] = surplus[a] \cup (ring[p] \cap alerts[a].of)
      BY <2>1, <3>2
    <3>4. ASSUME NEW c \in Ids
          PROVE  (\E k \in Slots : k <= n - 1 /\ c \in ring[k])
                   <=> (\E k \in Slots : k <= m - 1 /\ c \in ring[k]) \/ c \in ring[p]
      <4>1. \A k \in Slots : k <= n - 1 <=> (k <= m - 1 \/ k = p)
        BY <1>4, <1>16, <2>4, <3>1
      <4> QED
        BY <4>1, <1>4
    <3>5. ASSUME NEW c \in Ids
          PROVE  node'[a].sum[c] =
                    IF c \in alerts[a].of /\ c \in Fresh(a)' \cup surplus'[a] THEN 1 ELSE 0
      <4>1. c \in Fresh(a)' <=> \E k \in Slots : k <= m - 1 /\ c \in ring[k]
        BY <1>15
      <4>2. node[a].sum[c] = IF /\ c \in alerts[a].of
                                /\ \/ \E k \in Slots : k <= n - 1 /\ c \in ring[k]
                                   \/ c \in surplus[a]
                               THEN 1 ELSE 0
        BY <1>14
      <4> QED
        BY <4>1, <4>2, <2>1, <3>3, <3>4
    <3>6. SumCalm(a)'
      BY <1>2, <3>5 DEF SumCalm, Ids
    <3>7. \A k \in Slots : k < p => ring[k] \cap (surplus[a] \cup ring[p]) = {}
      BY <1>4, <1>13, <1>16
    <3>8. SurplusBehind(a)'
      BY <1>2, <1>3, <3>3, <3>7 DEF SurplusBehind, Limit, Slots, p
    <3> QED
      BY <1>7, <3>6, <3>8 DEF CalmAlert
  <2> QED
    BY <2>3, <2>4
<1>18. CASE ~(cd > 0)
  <2>1. n = p + 1 /\ m = p
    BY <1>10, <1>12, <1>18
  <2>a. node[a].countdown <= 0 /\ ~(node[a].countdown > 0)
    BY <1>4, <1>18
  <2>b. node'[a] = [node[a] EXCEPT !.sum = Plus(@, Leaving(a) \cap alerts[a].of, -1)]
    BY <1>1, <2>a DEF Subtracts
  <2>c. surplus'[a] = surplus[a]
    BY <1>1, <2>a DEF Subtracts
  <2>2. /\ node'[a] = [node[a] EXCEPT !.sum = Plus(@, ring[p] \cap alerts[a].of, -1)]
        /\ surplus'[a] = surplus[a]
    BY <2>b, <2>c, <1>4
  <2>3. \A c \in Ids : node'[a].sum[c] = IF c \in ring[p] \cap alerts[a].of
                                           THEN node[a].sum[c] + (-1) ELSE node[a].sum[c]
    <3> DEFINE P == ring[p] \cap alerts[a].of
    <3> DEFINE d == node[a]
    <3>1. d \in Data
      BY <1>5
    <3> HIDE DEF P, d
    <3>2. \A c \in Ids : [d EXCEPT !.sum = Plus(@, P, -1)].sum[c] =
             IF c \in P THEN d.sum[c] + (-1) ELSE d.sum[c]
      <4>1. [d EXCEPT !.sum = Plus(@, P, -1)].sum = Plus(d.sum, P, -1)
        BY <3>1 DEF Data
      <4>2. \A c \in Ids : Plus(d.sum, P, -1)[c] = IF c \in P THEN d.sum[c] + (-1) ELSE d.sum[c]
        BY DEF Plus
      <4> QED
        BY <4>1, <4>2
    <3> QED
      BY <2>2, <3>2 DEF P, d
  <2> HIDE DEF p, n, m, cd
  <2>4. ASSUME NEW c \in Ids
        PROVE  node'[a].sum[c] =
                  IF c \in alerts[a].of /\ c \in Fresh(a)' \cup surplus'[a] THEN 1 ELSE 0
    <3>1. c \in Fresh(a)' <=> \E k \in Slots : k <= m - 1 /\ c \in ring[k]
      BY <1>15
    <3>2. node[a].sum[c] = IF /\ c \in alerts[a].of
                              /\ \/ \E k \in Slots : k <= n - 1 /\ c \in ring[k]
                                 \/ c \in surplus[a]
                             THEN 1 ELSE 0
      BY <1>14
    <3>3. \A k \in Slots : k <= n - 1 <=> (k <= m - 1 \/ k = p)
      BY <1>4, <1>16, <2>1
    <3>4. CASE c \in ring[p] /\ c \in alerts[a].of
      <4>1. c \notin surplus[a]
        BY <3>4, <1>4, <1>13
      <4>2. ~ \E k \in Slots : k <= m - 1 /\ c \in ring[k]
        BY <1>4, <1>16, <2>1, <1>13, <3>4
      <4>3. node[a].sum[c] = 1
        BY <3>2, <3>3, <3>4, <1>4
      <4>4. node'[a].sum[c] = 1 + (-1)
        BY <2>3, <3>4, <4>3
      <4> QED
        BY <4>1, <4>2, <4>4, <3>1, <2>2
    <3>6. CASE c \in ring[p] /\ c \notin alerts[a].of
      BY <3>2, <3>6, <2>3
    <3>5. CASE c \notin ring[p]
      BY <3>1, <3>2, <3>3, <3>5, <2>2, <2>3
    <3> QED
      BY <3>4, <3>5, <3>6
  <2>5. SumCalm(a)'
    BY <1>2, <2>4 DEF SumCalm, Ids
  <2>6. SurplusBehind(a)'
    BY <1>2, <1>3, <1>4, <1>13, <1>16, <2>2 DEF SurplusBehind, Limit, Slots, p
  <2> QED
    BY <1>7, <2>5, <2>6 DEF CalmAlert
<1> QED
  BY <1>17, <1>18

\* The packets move on, and those of the period with them.
LEMMA ReadCalm ==
    ASSUME TypeOK, TypeOK', TablesInv, RingInv, NEW a \in Loaded, CalmAlert(a), ReadCalls
    PROVE  CalmAlert(a)'
<1> DEFINE p == Period(alerts[a])
<1> DEFINE n == FreshPackets(a)
<1>1. /\ pc = "read" /\ pc' = "add" /\ alerts' = alerts /\ node' = node /\ surplus' = surplus
  BY DEF ReadCalls, history
<1>2. Period(alerts[a])' = p /\ Countdown(a)' = Countdown(a)
  BY <1>1 DEF Period, Countdown
<1>3. p \in Nat /\ p < Packets
  BY Numbers
<1>4. /\ Summed(a) = p /\ Summed(a)' = p /\ Newest = 0 /\ Newest' = 1
      /\ SinceClear(a)' = SinceClear(a)
      /\ Limit(a) = p /\ Limit(a)' = p + 1
  BY <1>1, <1>2 DEF Summed, Newest, SinceClear, Limit
<1>5. FreshPackets(a)' = n
  BY <1>1, <1>4 DEF FreshPackets
<1>6. n \in Nat /\ n <= p
  BY <1>4, FreshNumbers DEF CalmAlert
<1>7. /\ 0 \in Slots /\ ring'[0] = NewCalls
      /\ \A k \in Slots : k # 0 => k - 1 \in Slots /\ ring'[k] = ring[k - 1]
  BY RingShifts
<1>8. \A k \in Slots : k \in Nat /\ k < Packets
  BY ConstAssumption DEF Slots
<1>9. \A k \in Nat : k < Packets => k \in Slots
  BY ConstAssumption DEF Slots
<1>10. ClockCalm(a)'
  BY <1>1, <1>2 DEF CalmAlert, ClockCalm, ClearsByTime
<1>11. SurplusBehind(a)'
  <2>1. \A c \in surplus[a] : c \notin NewCalls
    <3>1. /\ last \in Nat /\ \A c \in NewCalls : c \in Nat /\ last < c
      BY NewCallsRead
    <3>2. a \in Alerts
      BY DEF Loaded
    <3>3. \A c \in surplus[a] : c <= last
      BY <3>2 DEF RingInv
    <3> QED
      BY <3>1, <3>3
  <2>2. \A k \in Slots : k < p => ring[k] \cap surplus[a] = {}
    BY <1>4 DEF CalmAlert, SurplusBehind
  <2>3. \A k \in Slots : k < p + 1 => ring'[k] \cap surplus[a] = {}
    <3> TAKE k \in Slots
    <3>1. CASE k = 0
      BY <2>1, <3>1, <1>7
    <3>2. CASE k # 0
      <4>1. k - 1 \in Slots /\ ring'[k] = ring[k - 1] /\ (k < p + 1 => k - 1 < p)
        BY <1>3, <1>7, <1>8, <3>2
      <4> QED
        BY <2>2, <4>1
    <3> QED
      BY <3>1, <3>2
  <2> QED
    BY <1>1, <1>4, <2>3 DEF SurplusBehind, Slots
<1>12. ASSUME NEW c \in Ids
       PROVE  c \in Fresh(a)' <=> c \in Fresh(a)
  <2>1. c \in Fresh(a) <=> \E k \in Slots : 0 <= k /\ k <= 0 + n - 1 /\ c \in ring[k]
    BY <1>4, <1>6, FreshMeans
  <2>2. c \in Fresh(a)' <=> \E k \in Slots : 1 <= k /\ k <= 1 + n - 1 /\ c \in ring'[k]
    <3>1. 1 \in Nat /\ 1 = Newest' /\ n = FreshPackets(a)'
      BY <1>4, <1>5
    <3> HIDE DEF n
    <3> QED
      BY <3>1, <1>6, FreshAfter
  <2> HIDE DEF n, p
  <2>3. ASSUME NEW k \in Slots, 0 <= k, k <= 0 + n - 1, c \in ring[k]
        PROVE  \E j \in Slots : 1 <= j /\ j <= 1 + n - 1 /\ c \in ring'[j]
    <3>1. k + 1 \in Slots /\ k + 1 # 0 /\ (k + 1) - 1 = k
      <4>1. k \in Nat /\ k + 1 \in Nat /\ k + 1 # 0 /\ (k + 1) - 1 = k /\ k + 1 <= n
        BY <2>3, <1>6, <1>8
      <4>2. k + 1 < Packets
        BY <4>1, <1>3, <1>6, ConstAssumption
      <4> QED
        BY <4>1, <4>2, <1>9
    <3>2. ring'[k + 1] = ring[k]
      BY <3>1, <1>7
    <3>3. 1 <= k + 1 /\ k + 1 <= 1 + n - 1
      BY <2>3, <1>6, <1>8
    <3> QED
      BY <2>3, <3>1, <3>2, <3>3
  <2>4. ASSUME NEW k \in Slots, 1 <= k, k <= 1 + n - 1, c \in ring'[k]
        PROVE  \E j \in Slots : 0 <= j /\ j <= 0 + n - 1 /\ c \in ring[j]
    <3>1. k # 0 /\ k - 1 \in Slots /\ ring'[k] = ring[k - 1]
      BY <2>4, <1>7
    <3>2. 0 <= k - 1 /\ k - 1 <= 0 + n - 1
      BY <2>4, <1>6, <1>8
    <3> QED
      BY <2>4, <3>1, <3>2
  <2> QED
    BY <2>1, <2>2, <2>3, <2>4
<1>13. SumCalm(a)'
  BY <1>1, <1>12 DEF CalmAlert, SumCalm, Ids
<1> QED
  BY <1>10, <1>11, <1>13 DEF CalmAlert

\* The new packet is added.
LEMMA AddCalm ==
    ASSUME TypeOK, TypeOK', TablesInv, RingInv, NEW a \in Loaded, CalmAlert(a),
           NEW U, Adds(U), a \notin U
    PROVE  CalmAlert(a)'
<1> DEFINE p == Period(alerts[a])
<1> DEFINE n == FreshPackets(a)
<1> DEFINE m == n + 1
<1> DEFINE cd == node[a].countdown
<1>1. /\ pc = "add" /\ pc' = "check" /\ alerts' = alerts /\ ring' = ring /\ surplus' = surplus
      /\ node'[a] = [node[a] EXCEPT !.sum = Plus(@, ring[0] \cap alerts[a].of, 1)]
      /\ a \in Alerts
  BY DEF Adds, Loaded
<1>2. Period(alerts[a])' = p /\ Countdown(a)' = Countdown(a)
  BY <1>1 DEF Period, Countdown
<1>3. p \in Nat /\ p < Packets /\ Countdown(a) \in Nat /\ cd \in Nat
  BY Numbers
<1>4. node[a] \in Data
  BY <1>1 DEF TypeOK
<1>5. node'[a].countdown = cd /\ node'[a].sum = Plus(node[a].sum, ring[0] \cap alerts[a].of, 1)
  BY <1>1, <1>4 DEF Data
<1>6. /\ Summed(a) = p /\ Summed(a)' = p + 1 /\ Newest = 1 /\ Newest' = 0
      /\ Limit(a) = p + 1 /\ Limit(a)' = p + 1
  BY <1>1, <1>2 DEF Summed, Newest, Limit
<1>7. SinceClear(a) = Countdown(a) - cd /\ SinceClear(a)' = Countdown(a) - cd + 1
  BY <1>1, <1>2, <1>3, <1>5 DEF SinceClear
<1>8. n \in Nat /\ n <= p /\ m \in Nat
  BY <1>6, FreshNumbers DEF CalmAlert
<1>9. FreshPackets(a)' = m
  BY <1>3, <1>5, <1>6, <1>7 DEF FreshPackets
<1>10. ClockCalm(a)'
  BY <1>1, <1>2, <1>5 DEF CalmAlert, ClockCalm, ClearsByTime
<1>11. SurplusBehind(a)'
  BY <1>1, <1>6 DEF CalmAlert, SurplusBehind, Slots
<1>12. /\ \A k \in Slots : k \in Nat /\ k < Packets
       /\ 0 \in Slots
       /\ \A j, k \in Slots : j # k => ring[j] \cap ring[k] = {}
  BY ConstAssumption DEF Slots, RingInv
<1>13. ring[0] \cap surplus[a] = {}
  BY <1>3, <1>6, <1>12 DEF CalmAlert, SurplusBehind
<1>14. ASSUME NEW c \in Ids
       PROVE  node'[a].sum[c] =
                 IF c \in alerts[a].of /\ c \in Fresh(a)' \cup surplus'[a] THEN 1 ELSE 0
  <2>1. c \in Fresh(a) <=> \E k \in Slots : 1 <= k /\ k <= 1 + n - 1 /\ c \in ring[k]
    BY <1>6, <1>8, FreshMeans
  <2>2. c \in Fresh(a)' <=> \E k \in Slots : 0 <= k /\ k <= 0 + m - 1 /\ c \in ring'[k]
    <3>1. 0 \in Nat /\ 0 = Newest' /\ m = FreshPackets(a)' /\ m \in Nat
      BY <1>6, <1>8, <1>9
    <3> HIDE DEF m
    <3> QED
      BY <3>1, FreshAfter
  <2>3. node[a].sum[c] = IF c \in alerts[a].of /\ c \in Fresh(a) \cup surplus[a] THEN 1 ELSE 0
    BY DEF CalmAlert, SumCalm
  <2>4. node'[a].sum[c] = IF c \in ring[0] \cap alerts[a].of
                            THEN node[a].sum[c] + 1 ELSE node[a].sum[c]
    BY <1>5 DEF Plus
  <2>5. m = n + 1
    OBVIOUS
  <2> HIDE DEF n, p, m
  <2>6. \A k \in Slots : (0 <= k /\ k <= 0 + m - 1) <=> (k = 0 \/ (1 <= k /\ k <= 1 + n - 1))
    BY <1>8, <1>12, <2>5
  <2>7. c \in Fresh(a)' <=> (c \in ring[0] \/ c \in Fresh(a))
    BY <1>1, <1>12, <2>1, <2>2, <2>6
  <2>8. CASE c \in ring[0]
    <3>1. \A k \in Slots : 1 <= k => c \notin ring[k]
      BY <1>12, <2>8
    <3>2. c \notin Fresh(a) /\ c \notin surplus[a]
      BY <1>13, <2>1, <2>8, <3>1
    <3> QED
      BY <1>1, <2>3, <2>4, <2>7, <2>8, <3>2
  <2>9. CASE c \notin ring[0]
    BY <1>1, <2>3, <2>4, <2>7, <2>9
  <2> QED
    BY <2>8, <2>9
<1>15. SumCalm(a)'
  BY <1>1, <1>14 DEF SumCalm, Ids
<1> QED
  BY <1>10, <1>11, <1>15 DEF CalmAlert

\* A check leaves the sum alone.
LEMMA CheckCalm ==
    ASSUME TypeOK, TablesInv, NEW a \in Loaded, CalmAlert(a), Check
    PROVE  CalmAlert(a)'
<1>1. a \in Alerts /\ node'[a] = Checked(a)
  BY DEF Check, Loaded
<1>2. node'[a].sum = node[a].sum /\ node'[a].countdown = node[a].countdown
  BY <1>1, CheckedKeeps
<1>3. alerts' = alerts /\ ring' = ring /\ surplus' = surplus /\ pc = "check" /\ pc' = "clear"
  BY DEF Check, history
<1>4. node[a].countdown > 0 => ClearsByTime(alerts'[a])
  BY <1>3 DEF CalmAlert, ClockCalm
<1> QED
  BY <1>2, <1>3, <1>4, CalmStays

\* An alert that is cleared begins with nothing; the ticks of the countdown
\* follow the packets.
LEMMA ClearsCalm ==
    ASSUME TypeOK, TypeOK', TablesInv, NEW a \in Loaded, upset[a] = {} => CalmAlert(a),
           upset'[a] = {}, NEW D \in SUBSET WithDate, NEW R, Clears(D, R)
    PROVE  CalmAlert(a)'
<1> DEFINE p == Period(alerts[a])
<1> DEFINE n == FreshPackets(a)
<1> DEFINE m == FreshPackets(a)'
<1> DEFINE cd == node[a].countdown
<1> DEFINE cx == node'[a].countdown
<1>1. /\ pc = "clear" /\ pc' = "get" /\ ring' = ring /\ a \in Alerts
  BY DEF Clears, Loaded
<1>2. a \in D => alerts[a] \in Setting
  BY LoadedSetting
<1>3. /\ alerts'[a].raw = alerts[a].raw /\ alerts'[a].of = alerts[a].of
      /\ alerts'[a].clear_period = alerts[a].clear_period
      /\ alerts'[a].disable_clear = alerts[a].disable_clear
  <2>1. alerts'[a] = IF a \in D THEN [alerts[a] EXCEPT !.clear_date = FALSE] ELSE alerts[a]
    BY <1>1 DEF Clears
  <2> QED
    BY <1>2, <2>1, DateTaken
<1>a. ClearsByTime(alerts[a])' <=> ClearsByTime(alerts[a])
  BY <1>3 DEF ClearsByTime
<1>4. Period(alerts[a])' = p /\ Countdown(a)' = Countdown(a)
  BY <1>3 DEF Period, Countdown
<1>5. /\ p \in Nat /\ p < Packets /\ Countdown(a) \in Nat /\ cd \in Nat
      /\ alerts[a].raw > 0 => Countdown(a) = p + 1 + Minute
  BY Numbers
<1>6. /\ Summed(a) = p + 1 /\ Summed(a)' = p + 1 /\ Newest = 0 /\ Newest' = 0
      /\ Limit(a) = p + 1 /\ Limit(a)' = p + 1
  BY <1>1, <1>4, <1>5 DEF Summed, Newest, Limit
<1>7. alerts[a] \in Setting /\ alerts[a].raw \in Nat /\ alerts[a].clear_period \in Nat
  BY LoadedSetting DEF Setting
<1>8. (a \in R) \in BOOLEAN
  OBVIOUS
<1>9. node'[a] = IF Dated(a, D) THEN Zeroed(a, a \in R) ELSE Ticked(a, a \in R)
  BY <1>1 DEF Clears
<1>10. cx \in Nat
  BY <1>1, DataFields DEF TypeOK
<1>14. SinceClear(a)' = Countdown(a) - cx
  BY <1>1, <1>4, <1>5, <1>10 DEF SinceClear
<1>11. m = IF cx > 0 /\ Countdown(a) - cx < p + 1 THEN Countdown(a) - cx ELSE p + 1
  BY <1>6, <1>14 DEF FreshPackets
<1> DEFINE cleared == TimeToClear(a) \/ Dated(a, D)
<1>12. CASE cleared
  <2>1. upset'[a] = upset[a] \cup ClearUpsets(a, D) /\ surplus'[a] = {}
    BY <1>1, <1>12 DEF Clears
  <2>2. ClearUpsets(a, D) = {}
    BY <2>1
  <2>3. alerts[a].raw # 0 /\ ~(Dated(a, D) /\ alerts[a].clear_period = 0)
    BY <2>2 DEF ClearUpsets
  <2>a. Dated(a, D) => ~alerts[a].disable_clear
    BY DEF Dated, WithDate
  <2>4. alerts[a].raw > 0 /\ ClearsByTime(alerts[a])
    BY <1>7, <1>12, <2>a, <2>3 DEF TimeToClear, ClearsByTime
  <2>5. node'[a].sum = NoData.sum /\ cx = Countdown(a)
    <3>1. CASE Dated(a, D)
      BY <1>8, <1>9, <3>1, ZeroedMeans
    <3>2. CASE ~Dated(a, D)
      BY <1>8, <1>9, <1>12, <3>2, TickedMeans
    <3> QED
      BY <3>1, <3>2
  <2>6. cx > 0 /\ m = 0
    BY <1>5, <1>11, <2>4, <2>5, ConstAssumption
  <2>7. \A c \in Ids : c \notin Fresh(a)'
    <3> TAKE c \in Ids
    <3>1. c \in Fresh(a)' <=> \E k \in Slots : 0 <= k /\ k <= 0 + 0 - 1 /\ c \in ring'[k]
      <4>1. 0 \in Nat /\ 0 = Newest' /\ 0 = FreshPackets(a)'
        BY <1>6, <2>6
      <4> QED
        BY <4>1, FreshAfter
    <3> QED
      BY <3>1, ConstAssumption DEF Slots
  <2>8. SumCalm(a)'
    BY <1>3, <2>1, <2>5, <2>7 DEF SumCalm, NoData, Ids
  <2>9. SurplusBehind(a)'
    BY <2>1 DEF SurplusBehind, Slots
  <2>10. ClockCalm(a)'
    BY <1>3, <1>a, <1>4, <1>5, <2>4, <2>5 DEF ClockCalm
  <2> QED
    BY <2>8, <2>9, <2>10 DEF CalmAlert
<1>13. CASE ~cleared
  <2>1. upset'[a] = upset[a] /\ surplus'[a] = surplus[a] /\ node'[a] = Ticked(a, a \in R)
    BY <1>1, <1>9, <1>13 DEF Clears
  <2>2. CalmAlert(a)
    BY <2>1
  <2>3. /\ node'[a].sum = node[a].sum
        /\ cx = IF ClearsByTime(alerts[a]) /\ cd > 0 THEN cd - 1 ELSE cd
    BY <1>8, <1>13, <2>1, TickedMeans
  <2>4. cd > 0 => alerts[a].raw > 0 /\ ClearsByTime(alerts[a]) /\ cd <= Countdown(a)
    BY <2>2 DEF CalmAlert, ClockCalm
  <2>5. cx = IF cd > 0 THEN cd - 1 ELSE cd
    BY <2>3, <2>4
  <2>6. ClockCalm(a)'
    BY <1>3, <1>a, <1>4, <1>5, <2>4, <2>5 DEF ClockCalm
  <2>7. SinceClear(a) = Countdown(a) - cd + 1
    BY <1>1 DEF SinceClear
  <2>8. n = IF cd > 0 /\ Countdown(a) - cd + 1 < p + 1 THEN Countdown(a) - cd + 1 ELSE p + 1
    BY <1>6, <2>7 DEF FreshPackets
  <2>9. m = n
    BY <1>5, <1>11, <2>4, <2>5, <2>8, ConstAssumption
  <2>10. Fresh(a)' = Fresh(a)
    BY <1>1, <1>6, <2>9 DEF Fresh, Between
  <2>11. SumCalm(a)'
    BY <1>3, <2>1, <2>2, <2>3, <2>10 DEF CalmAlert, SumCalm, Ids
  <2>12. SurplusBehind(a)'
    BY <1>1, <1>6, <2>1, <2>2 DEF CalmAlert, SurplusBehind, Slots
  <2> QED
    BY <2>6, <2>11, <2>12 DEF CalmAlert
<1> QED
  BY <1>12, <1>13

\* An alert keeps its data through a reload if its settings stay, and begins
\* with nothing when no call of its period is known.
LEMMA ReloadCalm ==
    ASSUME TypeOK, TypeOK', TablesInv, TablesInv', NEW a \in Loaded', upset'[a] = {},
           a \in Loaded /\ upset[a] = {} => CalmAlert(a), FinishReload
    PROVE  CalmAlert(a)'
<1>1. /\ pc = "reload" /\ alerts' = fetched /\ ring' = ring /\ a \in Alerts
      /\ pc' \in {"get", "subtract"} /\ UpsetByReload(a) = {} /\ fetched[a] # Off
  BY DEF Loaded, FinishReload, Proceed
<1>2. CASE alerts[a] # Off
  <2>1. /\ fetched[a].raw = alerts[a].raw /\ fetched[a].of = alerts[a].of
        /\ node[a].countdown > 0 => ClearsByTime(fetched[a])
        /\ upset[a] = {}
    BY <1>1, <1>2 DEF UpsetByReload
  <2>2. node'[a] = node[a] /\ surplus'[a] = surplus[a]
    BY <1>1, <1>2 DEF FinishReload, Keeps
  <2>3. a \in Loaded /\ CalmAlert(a)
    BY <1>1, <1>2, <2>1 DEF Loaded
  <2> QED
    BY <1>1, <2>1, <2>2, <2>3, CalmStays
<1>3. CASE alerts[a] = Off
  <2>1. node'[a] = NoData /\ surplus'[a] = {}
    BY <1>1, <1>3 DEF FinishReload, Keeps
  <2>2. Between(0, Period(fetched[a])) = {}
    BY <1>1, <1>3 DEF UpsetByReload
  <2>3. ClockCalm(a)'
    BY <2>1 DEF ClockCalm, NoData
  <2>4. SurplusBehind(a)'
    BY <2>1 DEF SurplusBehind, Slots
  <2>5. Period(fetched[a]) \in Nat
    BY <1>1, PeriodTyped DEF TypeOK
  <2>6. Newest' = 0 /\ FreshPackets(a)' = Period(fetched[a]) + 1
    BY <1>1, <2>1 DEF Newest, FreshPackets, Summed, NoData
  <2>7. Fresh(a)' = {}
    <3>1. Fresh(a)' =
            UNION {ring'[k] : k \in {k \in 0 .. 0 + (Period(fetched[a]) + 1) - 1 : k < Packets}}
      BY <2>6 DEF Fresh, Between
    <3>2. 0 + (Period(fetched[a]) + 1) - 1 = Period(fetched[a])
      BY <2>5
    <3> QED
      BY <1>1, <2>2, <3>1, <3>2 DEF Between
  <2>8. SumCalm(a)'
    BY <2>1, <2>7 DEF SumCalm, NoData, Ids
  <2> QED
    BY <2>3, <2>4, <2>8 DEF CalmAlert
<1> QED
  BY <1>2, <1>3

-----------------------------------------------------------------------------
(***************************************************************************)
(* The theorems about the sums.                                            *)
(***************************************************************************)
\* No alert is loaded at first.
LEMMA WindowInit == Init => WindowInv
<1> SUFFICES ASSUME Init PROVE WindowInv
  OBVIOUS
<1>1. Loaded = {}
  BY DEF Init, Loaded, NoAlerts
<1> QED
  BY <1>1 DEF WindowInv

\* Every step keeps calm every alert that it does not upset.
LEMMA WindowNext ==
    ASSUME TypeOK, TypeOK', TablesInv, TablesInv', RingInv, WindowInv, [Next]_vars
    PROVE  WindowInv'
<1> SUFFICES ASSUME NEW a \in Loaded', upset'[a] = {}
             PROVE  CalmAlert(a)'
  BY DEF WindowInv
<1>0. a \in Alerts /\ (a \in Loaded /\ upset[a] = {} => CalmAlert(a))
  BY DEF WindowInv, Loaded
<1>1. ASSUME UNCHANGED <<alerts, node, ring, surplus, upset>>,
             \/ pc' = pc
             \/ pc \in {"get", "reload"} /\ pc' \in {"get", "reload", "subtract"}
      PROVE  CalmAlert(a)'
  <2>1. a \in Loaded /\ CalmAlert(a)
    BY <1>0, <1>1 DEF Loaded
  <2>2. node[a].countdown > 0 => ClearsByTime(alerts'[a])
    BY <1>1, <2>1 DEF CalmAlert, ClockCalm
  <2> QED
    BY <1>1, <2>1, <2>2, CalmStays
<1>2. CASE \E c \in Ids : InsertCall(c)
  BY <1>1, <1>2 DEF InsertCall, daemon, history
<1>3. CASE \E b \in Alerts : \E s \in Settings[b] \cup {Off} : Edit(b, s)
  BY <1>1, <1>3 DEF Edit, daemon
<1>4. CASE Start \/ StartBlind
  BY <1>4 DEF Start, StartBlind, TablesInv, NoAlerts, Loaded
<1>5. CASE KeepAlerts \/ SelectAlerts \/ SelectFails
  <2>1. /\ UNCHANGED <<alerts, node, ring, surplus, upset>>
        /\ pc = "get" /\ pc' \in {"get", "reload", "subtract"}
    BY <1>5 DEF KeepAlerts, SelectAlerts, SelectFails, Proceed, history
  <2> QED
    BY <1>1, <2>1
<1>6. CASE FinishReload
  BY <1>0, <1>6, ReloadCalm
<1>7. CASE ReadCalls \/ Check
  <2>1. alerts' = alerts /\ upset' = upset
    BY <1>7 DEF ReadCalls, Check, history
  <2>2. a \in Loaded /\ CalmAlert(a)
    BY <1>0, <2>1 DEF Loaded
  <2> QED
    BY <1>7, <2>2, ReadCalm, CheckCalm
<1>13. ASSUME NEW U, Subtracts(U) \/ Adds(U)
       PROVE  CalmAlert(a)'
  <2>1. alerts' = alerts /\ upset' = Unread(U)
    BY <1>13 DEF Subtracts, Adds
  <2>2. a \notin U /\ upset[a] = {}
    BY <1>0, <2>1 DEF Unread
  <2>3. a \in Loaded /\ CalmAlert(a)
    BY <1>0, <2>1, <2>2 DEF Loaded
  <2> QED
    BY <1>13, <2>2, <2>3, SubtractCalm, AddCalm
<1>14. CASE Subtract \/ SubtractUnread \/ Add \/ AddUnread
  BY <1>13, <1>14 DEF Subtract, SubtractUnread, Add, AddUnread
<1>8. CASE ReadFails
  BY <1>0, <1>8 DEF ReadFails, Loaded
<1>9. ASSUME NEW D \in SUBSET WithDate, NEW R, Clears(D, R)
      PROVE  CalmAlert(a)'
  <2>1. a \in Loaded
    BY <1>0, <1>9, ClearsKeepSettings DEF Loaded
  <2>2. upset[a] = {} => CalmAlert(a)
    BY <1>0, <2>1
  <2> QED
    BY <1>9, <2>1, <2>2, ClearsCalm
<1>10. CASE Clear \/ ClearUnreported
  BY <1>9, <1>10 DEF Clear, ClearUnreported
<1>11. CASE Die
  BY <1>11 DEF Die, NoAlerts, Loaded
<1>12. CASE UNCHANGED vars
  BY <1>1, <1>12 DEF vars, daemon, history
<1> QED
  BY <1>2, <1>3, <1>4, <1>5, <1>6, <1>7, <1>8, <1>10, <1>11, <1>12, <1>14 DEF Next, Daemon

\* The inductive invariant of the sums.
SumsInv == TypesInv /\ RingInv /\ WindowInv

\* SumsInv holds whatever happens.
LEMMA SumsStand == Spec => []SumsInv
<1>1. Init => SumsInv
  BY TypeInit, TablesInit, RingInit, WindowInit DEF SumsInv, TypesInv
<1>2. SumsInv /\ [Next]_vars => SumsInv'
  BY TypeNext, TablesNext, RingNext, WindowNext DEF SumsInv, TypesInv
<1> QED
  BY <1>1, <1>2, PTL DEF Spec

\* The sum that update_data keeps by adding and subtracting packets is the sum
\* of the calls in the period, for any period, ring and clear period, unless one
\* of the upsets has happened.
THEOREM SumsAreRight == Spec => []SumIsWindow
<1>1. SumsInv => SumIsWindow
  BY DEF SumsInv, WindowInv, CalmAlert, SumCalm, SumIsWindow
<1> QED
  BY <1>1, SumsStand, PTL

\* Only what the program skips while an alert counts down joins a surplus.
LEMMA SurplusGrows ==
    ASSUME SumsInv, [Next]_vars, NEW a \in Alerts,
           ~(surplus'[a] \subseteq surplus[a]), upset[a] = {}
    PROVE  node[a].countdown <= Minute
<1> USE DEF SumsInv, TypesInv
<1>1. ASSUME NEW U, Subtracts(U)
      PROVE  node[a].countdown <= Minute
  <2>1. a \in Loaded /\ node[a].countdown > 0
    BY <1>1 DEF Subtracts
  <2>2. CalmAlert(a)
    BY <2>1 DEF WindowInv
  <2> DEFINE p == Period(alerts[a])
  <2> DEFINE n == FreshPackets(a)
  <2>3. /\ p \in Slots /\ Leaving(a) = ring[p] /\ p \in Nat /\ p < Packets
        /\ node[a].countdown \in Nat /\ Countdown(a) \in Nat
        /\ Countdown(a) = p + 1 + Minute
    BY <2>1, <2>2, LeavingMeans, Numbers DEF CalmAlert, ClockCalm
  <2>4. pc = "subtract" /\ Newest = 0
    BY <1>1 DEF Subtracts, Newest
  <2>5. n = IF Countdown(a) - node[a].countdown < p + 1
              THEN Countdown(a) - node[a].countdown ELSE p + 1
    BY <2>1, <2>3, <2>4 DEF FreshPackets, SinceClear, Summed
  <2>6. n \in Nat
    BY <2>1, <2>2, FreshNumbers DEF CalmAlert
  <2>7. CASE Countdown(a) - node[a].countdown < p + 1
    <3>1. n <= p
      BY <2>3, <2>5, <2>6, <2>7
    <3>2. PICK c \in surplus'[a] : c \notin surplus[a]
      OBVIOUS
    <3>3. c \in Leaving(a) /\ node[a].sum[c] > 0
      BY <1>1, <2>1, <3>2 DEF Subtracts
    <3>4. c \in ring[p] /\ c \in Ids
      BY <2>3, <3>3 DEF TypeOK, Slots
    <3>5. c \in Fresh(a)
      BY <2>2, <3>2, <3>3, <3>4 DEF CalmAlert, SumCalm
    <3> HIDE DEF n, p
    <3>6. c \in Fresh(a) <=> \E k \in Slots : 0 <= k /\ k <= 0 + n - 1 /\ c \in ring[k]
      BY <2>4, <2>6, FreshMeans DEF n
    <3>7. PICK k \in Slots : k <= 0 + n - 1 /\ c \in ring[k]
      BY <3>5, <3>6
    <3>8. k # p
      BY <2>3, <2>6, <3>1, <3>7 DEF Slots
    <3> QED
      BY <2>3, <3>4, <3>7, <3>8 DEF RingInv
  <2>8. CASE ~(Countdown(a) - node[a].countdown < p + 1)
    BY <2>3, <2>8, ConstAssumption
  <2> QED
    BY <2>7, <2>8
<1>2. CASE FinishReload
  BY <1>2 DEF FinishReload
<1>3. CASE Clear \/ ClearUnreported
  BY <1>3 DEF Clear, ClearUnreported, Clears
<1>4. CASE Die
  BY <1>4 DEF Die
<1>5. CASE UNCHANGED surplus
  BY <1>5
<1>6. CASE \/ UNCHANGED vars
           \/ \E c \in Ids : InsertCall(c)
           \/ \E b \in Alerts : \E s \in Settings[b] \cup {Off} : Edit(b, s)
  BY <1>5, <1>6 DEF vars, InsertCall, Edit, history
<1>7. CASE \/ Start \/ StartBlind \/ KeepAlerts \/ SelectAlerts \/ SelectFails
           \/ ReadCalls \/ ReadFails \/ Add \/ AddUnread \/ Check
  BY <1>5, <1>7 DEF Start, StartBlind, KeepAlerts, SelectAlerts, SelectFails, ReadCalls,
                    ReadFails, Add, AddUnread, Adds, Check, history
<1>8. CASE Subtract \/ SubtractUnread
  BY <1>1, <1>8 DEF Subtract, SubtractUnread
<1> QED
  BY <1>2, <1>3, <1>4, <1>6, <1>7, <1>8 DEF Next, Daemon

\* Only in the last minute of a countdown does update_data skip the subtraction
\* of calls that are in the sum.
THEOREM ClearsLeaveAMinute == Spec => ClearLeavesAMinute
<1>1. ASSUME SumsInv, [Next]_vars
      PROVE  \A a \in Alerts : ~(surplus'[a] \subseteq surplus[a]) /\ upset[a] = {} =>
                node[a].countdown <= Minute
  BY <1>1, SurplusGrows
<1>2. SumsInv /\ [Next]_vars
        => [\A a \in Alerts : ~(surplus'[a] \subseteq surplus[a]) /\ upset[a] = {} =>
              node[a].countdown <= Minute]_vars
  BY <1>1
<1> QED
  BY <1>2, SumsStand, PTL DEF Spec, ClearLeavesAMinute

=============================================================================
