------------------------ MODULE MissingPeriods_proofs ------------------------
(***************************************************************************)
(* The search of mor_get_missing_periods is exact for every table of hours *)
(* whose rows all lie within the hours looked at, although it looks at the *)
(* counterpart of the row it has found: taking each row for its            *)
(* counterpart is a permutation, so that every row is looked at once.      *)
(* From the exact list it follows what a run leaves: what it has been      *)
(* through is finished, and what it has before it is finished by nobody    *)
(* else (HoursInv).                                                        *)
(***************************************************************************)
EXTENDS MissingPeriods, FiniteSetTheorems, SequenceTheorems,
        WellFoundedInduction, TLAPS

RowType   == [hour : Int, finished : BOOLEAN]
EntryType == [hour : Int, full : BOOLEAN]

Table == /\ now \in Hours /\ period \in [Hours -> States]

\* What qsort leaves: at least one row, and the dates increase.
Sorted ==
    /\ time_periods \in Seq(RowType)
    /\ Len(time_periods) >= 1
    /\ \A a, b \in 1..Len(time_periods) :
          a < b => time_periods[a].hour < time_periods[b].hour

SoFar == (t1 - i)..(t1 - 1)

\* Row j has been met, and its counterpart is not finished.
Due(j) == /\ time_periods[j].hour \in SoFar
          /\ ~time_periods[Counterpart(j)].finished

\* The loop invariant: the entries are the hours of SoFar without a row and
\* the unfinished counterparts of the rows of SoFar, each once.
Progress ==
    /\ missing \in Seq(EntryType)
    /\ \A a \in 1..Len(missing) :
          \/ missing[a].full /\ missing[a].hour \in SoFar \ RowsRead
          \/ /\ ~missing[a].full
             /\ \E j \in 1..Len(time_periods) :
                   Due(j) /\ missing[a].hour = time_periods[Counterpart(j)].hour
    /\ \A h \in SoFar \ RowsRead : \E a \in 1..Len(missing) : missing[a].hour = h
    /\ \A j \in 1..Len(time_periods) :
          Due(j) => \E a \in 1..Len(missing) :
                       missing[a].hour = time_periods[Counterpart(j)].hour
    /\ ListedOnce

Bounds ==
    /\ t1 \in Int /\ hour_diff \in Int /\ i \in Int /\ 0 <= i /\ i <= hour_diff
    /\ \A j \in 1..Len(time_periods) : time_periods[j].hour < t1
    /\ hour_diff = IF t1 - time_periods[1].hour > MaxBack
                   THEN MaxBack ELSE t1 - time_periods[1].hour

SearchInv ==
    /\ Table
    /\ pc \in {"select", "clock"} => missing = <<>>
    /\ pc \in {"clock", "search"} => Sorted
    /\ pc = "clock" => \A j \in 1..Len(time_periods) : time_periods[j].hour < now
    /\ pc = "search" => Bounds /\ Progress
-----------------------------------------------------------------------------
\* Counterparts are rows, different rows have different counterparts, and every
\* row is a counterpart; different rows have different hours.
LEMMA CounterpartIsPermutation ==
    ASSUME Sorted
    PROVE  /\ DOMAIN time_periods = 1..Len(time_periods)
           /\ Len(time_periods) \in Nat
           /\ \A j \in 1..Len(time_periods) :
                 /\ Counterpart(j) \in 1..Len(time_periods)
                 /\ Counterpart(Counterpart(j)) = j
                 /\ time_periods[j] \in RowType
                 /\ time_periods[j].hour \in RowsRead
           /\ \A j, k \in 1..Len(time_periods) :
                 time_periods[j].hour = time_periods[k].hour => j = k
           /\ \A j \in 1..Len(time_periods) :
                 time_periods[1].hour <= time_periods[j].hour
           /\ \A h \in RowsRead : \E j \in 1..Len(time_periods) :
                 time_periods[j].hour = h
<1>1. /\ DOMAIN time_periods = 1..Len(time_periods)
      /\ Len(time_periods) \in Nat
      /\ time_periods \in [1..Len(time_periods) -> RowType]
  BY LenProperties DEF Sorted
<1>2. \A j \in 1..Len(time_periods) :
         /\ Counterpart(j) \in 1..Len(time_periods)
         /\ Counterpart(Counterpart(j)) = j
  BY <1>1 DEF Counterpart
<1>3. \A j \in 1..Len(time_periods) :
         time_periods[j] \in RowType /\ time_periods[j].hour \in Int
  BY <1>1 DEF RowType
<1>4. \A j, k \in 1..Len(time_periods) :
         time_periods[j].hour = time_periods[k].hour => j = k
  <2>1. SUFFICES ASSUME NEW j \in 1..Len(time_periods), NEW k \in 1..Len(time_periods),
                        j # k
                 PROVE  time_periods[j].hour # time_periods[k].hour
    OBVIOUS
  <2>2. j < k \/ k < j
    BY <1>1, <2>1
  <2>3. QED
    BY <1>3, <2>2 DEF Sorted
<1>5. \A j \in 1..Len(time_periods) : time_periods[1].hour <= time_periods[j].hour
  <2>1. TAKE j \in 1..Len(time_periods)
  <2>2. 1 \in 1..Len(time_periods) /\ (j = 1 \/ 1 < j)
    BY <1>1, <2>1 DEF Sorted
  <2>3. QED
    BY <1>3, <2>2 DEF Sorted
<1>6. QED
  BY <1>1, <1>2, <1>3, <1>4, <1>5 DEF RowsRead

\* One more hour is one that has not been met.
LEMMA NextHour ==
    ASSUME t1 \in Int, i \in Int, i >= 0, i' = i + 1, t1' = t1
    PROVE  /\ HourBack \in Int /\ HourBack \notin SoFar
           /\ SoFar' = SoFar \cup {HourBack}
BY DEF HourBack, SoFar

\* What a search of one hour finds: nothing if the row has a finished counter-
\* part, the unfinished counterpart, or the hour itself if it has no row.
LEMMA FoundCases ==
    ASSUME Sorted, NEW h \in Int
    PROVE  \/ /\ h \notin RowsRead
              /\ Found(h) = <<[hour |-> h, full |-> TRUE]>>
           \/ \E j \in 1..Len(time_periods) :
                 /\ time_periods[j].hour = h
                 /\ \/ /\ time_periods[Counterpart(j)].finished
                       /\ Found(h) = <<>>
                    \/ /\ ~time_periods[Counterpart(j)].finished
                       /\ Found(h) = <<[hour |-> time_periods[Counterpart(j)].hour,
                                        full |-> FALSE]>>
<1>1. DOMAIN time_periods = 1..Len(time_periods)
  BY CounterpartIsPermutation
<1>2. CASE h \notin RowsRead
  BY <1>2 DEF Found, RowsRead
<1>3. CASE h \in RowsRead
  <2> DEFINE j0 == CHOOSE j \in DOMAIN time_periods : time_periods[j].hour = h
  <2>1. \E j \in DOMAIN time_periods : time_periods[j].hour = h
    BY <1>3, CounterpartIsPermutation
  <2>2. j0 \in 1..Len(time_periods) /\ time_periods[j0].hour = h
    BY <1>1, <2>1
  <2>3. Found(h) = IF time_periods[Counterpart(j0)].finished THEN <<>>
                   ELSE <<[hour |-> time_periods[Counterpart(j0)].hour, full |-> FALSE]>>
    BY <2>1 DEF Found
  <2>4. QED
    BY <2>2, <2>3
<1>4. QED
  BY <1>2, <1>3

\* Adding an entry to a list: what the new list has.
LEMMA Appended ==
    ASSUME NEW s \in Seq(EntryType), NEW e \in EntryType, NEW r, r = s \o <<e>>
    PROVE  /\ r \in Seq(EntryType) /\ Len(s) \in Nat /\ Len(r) = Len(s) + 1
           /\ DOMAIN s = 1..Len(s) /\ DOMAIN r = 1..(Len(s) + 1)
           /\ \A a \in 1..Len(s) : a \in 1..Len(r) /\ r[a] = s[a]
           /\ Len(r) \in 1..Len(r) /\ r[Len(r)] = e
           /\ \A a \in 1..Len(r) : a \in 1..Len(s) \/ a = Len(r)
<1>1. r = Append(s, e)
  BY AppendIsConcat
<1>2. r \in Seq(EntryType) /\ Len(r) = Len(s) + 1
      /\ (\A a \in 1..Len(s) : r[a] = s[a]) /\ r[Len(s) + 1] = e
  BY <1>1, AppendProperties
<1>3. Len(s) \in Nat /\ DOMAIN s = 1..Len(s) /\ DOMAIN r = 1..Len(r)
  BY <1>2, LenProperties
<1>4. QED
  BY <1>2, <1>3

\* The search of one hour keeps the loop invariant.
LEMMA LookUpKeepsProgress ==
    ASSUME Sorted, Bounds, Progress, LookUp
    PROVE  Progress'
<1>1. /\ missing' = missing \o Found(HourBack)
      /\ i' = i + 1 /\ t1' = t1 /\ time_periods' = time_periods
      /\ t1 \in Int /\ i \in Int /\ i >= 0
  BY DEF LookUp, Bounds
<1>2. /\ HourBack \in Int /\ HourBack \notin SoFar
      /\ SoFar' = SoFar \cup {HourBack}
  BY <1>1, NextHour
<1>3. /\ RowsRead' = RowsRead
      /\ \A j : Counterpart(j)' = Counterpart(j)
  BY <1>1 DEF RowsRead, Counterpart
<1>4. \A j \in 1..Len(time_periods) :
         Due(j)' <=> \/ Due(j)
                     \/ /\ time_periods[j].hour = HourBack
                        /\ ~time_periods[Counterpart(j)].finished
  BY <1>1, <1>2, <1>3 DEF Due
<1>5. Len(missing) \in Nat /\ DOMAIN missing = 1..Len(missing)
  BY LenProperties DEF Progress
\* The row of the hour has a finished counterpart: nothing is added.
<1>6. CASE Found(HourBack) = <<>>
  <2>1. missing' = missing
    BY <1>1, <1>6, ConcatEmptySeq DEF Progress
  <2>2. \A e : Found(HourBack) # <<e>>
    BY <1>6
  <2>3. PICK k \in 1..Len(time_periods) :
           time_periods[k].hour = HourBack /\ time_periods[Counterpart(k)].finished
    BY <1>2, <2>2, FoundCases
  <2>4. /\ HourBack \in RowsRead
        /\ \A j \in 1..Len(time_periods) : time_periods[j].hour = HourBack => j = k
    BY <2>3, CounterpartIsPermutation
  <2>5. \A j \in 1..Len(time_periods) : Due(j)' <=> Due(j)
    BY <1>4, <2>3, <2>4
  <2>6. SoFar' \ RowsRead' = SoFar \ RowsRead
    BY <1>2, <1>3, <2>4
  <2>7. ListedOnce'
    BY <2>1 DEF Progress, ListedOnce
  <2>8. /\ missing' \in Seq(EntryType)
        /\ \A h \in SoFar' \ RowsRead' : \E a \in 1..Len(missing)' : missing'[a].hour = h
    BY <2>1, <2>6 DEF Progress
  <2>9. \A a \in 1..Len(missing)' :
           \/ missing'[a].full /\ missing'[a].hour \in SoFar' \ RowsRead'
           \/ /\ ~missing'[a].full
              /\ \E j \in 1..Len(time_periods)' :
                    Due(j)' /\ missing'[a].hour = time_periods'[Counterpart(j)'].hour
    BY <1>1, <1>3, <2>1, <2>5, <2>6 DEF Progress
  <2>10. \A j \in 1..Len(time_periods)' :
            Due(j)' => \E a \in 1..Len(missing)' :
                          missing'[a].hour = time_periods'[Counterpart(j)'].hour
    BY <1>1, <1>3, <2>1, <2>5 DEF Progress
  <2>11. QED
    BY <2>7, <2>8, <2>9, <2>10 DEF Progress
\* Something is added, which is not in the list.
<1>7. ASSUME NEW e \in EntryType, Found(HourBack) = <<e>>,
             e.hour \notin Listed,
             \/ e.full /\ e.hour = HourBack /\ HourBack \notin RowsRead
             \/ /\ ~e.full /\ HourBack \in RowsRead
                /\ \E j \in 1..Len(time_periods) :
                      /\ time_periods[j].hour = HourBack
                      /\ ~time_periods[Counterpart(j)].finished
                      /\ e.hour = time_periods[Counterpart(j)].hour
      PROVE  Progress'
  <2>1. /\ missing' \in Seq(EntryType) /\ Len(missing') = Len(missing) + 1
        /\ DOMAIN missing' = 1..(Len(missing) + 1)
        /\ \A a \in 1..Len(missing) : a \in 1..Len(missing') /\ missing'[a] = missing[a]
        /\ Len(missing') \in 1..Len(missing') /\ missing'[Len(missing')] = e
        /\ \A a \in 1..Len(missing') : a \in 1..Len(missing) \/ a = Len(missing')
    BY <1>1, <1>7, Appended DEF Progress
  <2>2. \A a \in 1..Len(missing)' :
           \/ missing'[a].full /\ missing'[a].hour \in SoFar' \ RowsRead'
           \/ /\ ~missing'[a].full
              /\ \E j \in 1..Len(time_periods)' :
                    Due(j)' /\ missing'[a].hour = time_periods'[Counterpart(j)'].hour
    <3>1. TAKE a \in 1..Len(missing)'
    <3>2. CASE a \in 1..Len(missing)
      BY <1>1, <1>2, <1>3, <1>4, <2>1, <3>2, SMTT(30) DEF Progress
    <3>3. CASE a = Len(missing')
      BY <1>1, <1>2, <1>3, <1>4, <1>7, <2>1, <3>3
    <3>4. QED
      BY <2>1, <3>2, <3>3
  <2>3. \A h \in SoFar' \ RowsRead' : \E a \in 1..Len(missing)' : missing'[a].hour = h
    <3>1. TAKE h \in SoFar' \ RowsRead'
    <3>2. CASE h = HourBack
      BY <1>3, <1>7, <2>1, <3>1, <3>2
    <3>3. CASE h \in SoFar
      BY <1>3, <2>1, <3>1, <3>3 DEF Progress
    <3>4. QED
      BY <1>2, <3>2, <3>3
  <2>4. \A j \in 1..Len(time_periods)' :
           Due(j)' => \E a \in 1..Len(missing)' :
                         missing'[a].hour = time_periods'[Counterpart(j)'].hour
    <3>1. SUFFICES ASSUME NEW j \in 1..Len(time_periods), Due(j)'
                   PROVE  \E a \in 1..Len(missing') :
                             missing'[a].hour = time_periods[Counterpart(j)].hour
      BY <1>1, <1>3
    <3>2. CASE Due(j)
      BY <2>1, <3>2 DEF Progress
    <3>3. CASE time_periods[j].hour = HourBack
      <4>1. HourBack \in RowsRead
        BY <3>3, CounterpartIsPermutation
      <4>2. e.hour = time_periods[Counterpart(j)].hour
        BY <1>7, <3>3, <4>1, CounterpartIsPermutation
      <4>3. QED
        BY <2>1, <4>2
    <3>4. QED
      BY <1>4, <3>1, <3>2, <3>3
  <2>5. ListedOnce'
    <3>1. SUFFICES ASSUME NEW a \in 1..Len(missing'), NEW b \in 1..Len(missing'),
                          missing'[a].hour = missing'[b].hour
                   PROVE  a = b
      BY <2>1 DEF ListedOnce
    <3>2. \A c \in 1..Len(missing) : missing[c].hour # e.hour
      BY <1>5, <1>7 DEF Listed
    <3>3. \A c, d \in 1..Len(missing) : missing[c].hour = missing[d].hour => c = d
      BY <1>5 DEF Progress, ListedOnce
    <3>4. QED
      BY <1>5, <2>1, <3>1, <3>2, <3>3
  <2>6. QED
    BY <2>1, <2>2, <2>3, <2>4, <2>5 DEF Progress
<1>8. CASE HourBack \notin RowsRead
  <2> DEFINE e == [hour |-> HourBack, full |-> TRUE]
  <2>1. Found(HourBack) = <<e>> /\ e \in EntryType
    BY <1>2, <1>8, FoundCases, CounterpartIsPermutation, SMTT(30) DEF EntryType
  <2>2. \A a \in 1..Len(missing) : missing[a].hour # HourBack
    BY <1>2, <1>8, CounterpartIsPermutation DEF Progress
  <2>3. e.hour \notin Listed
    BY <1>5, <2>2 DEF Listed
  <2>4. QED
    BY <1>7, <1>8, <2>1, <2>3
<1>9. CASE HourBack \in RowsRead /\ Found(HourBack) # <<>>
  <2>1. PICK j \in 1..Len(time_periods) :
           /\ time_periods[j].hour = HourBack
           /\ ~time_periods[Counterpart(j)].finished
           /\ Found(HourBack) = <<[hour |-> time_periods[Counterpart(j)].hour,
                                   full |-> FALSE]>>
    BY <1>2, <1>9, FoundCases
  <2> DEFINE e == [hour |-> time_periods[Counterpart(j)].hour, full |-> FALSE]
  <2>2. e \in EntryType
    BY CounterpartIsPermutation DEF EntryType, RowType
  <2>3. ASSUME NEW a \in 1..Len(missing), missing[a].hour = e.hour
        PROVE  FALSE
    <3>1. missing[a].hour \in RowsRead
      BY <2>3, CounterpartIsPermutation
    <3>2. PICK k \in 1..Len(time_periods) :
             Due(k) /\ missing[a].hour = time_periods[Counterpart(k)].hour
      BY <3>1 DEF Progress
    <3>3. Counterpart(k) = Counterpart(j)
      BY <2>3, <3>2, CounterpartIsPermutation
    <3>4. k = j
      BY <3>3, CounterpartIsPermutation
    <3>5. QED
      BY <1>2, <2>1, <3>2, <3>4 DEF Due
  <2>4. e.hour \notin Listed
    BY <1>5, <2>3 DEF Listed
  <2>5. QED
    BY <1>7, <1>9, <2>1, <2>2, <2>4
<1>10. QED
  BY <1>6, <1>8, <1>9

\* When all rows are within the hours looked at, the loop has met every row, and
\* with them every counterpart, when it ends.
LEMMA ProgressIsExact ==
    ASSUME Sorted, Bounds, Progress, i = hour_diff,
           t1 - time_periods[1].hour <= MaxBack
    PROVE  /\ Listed = Unfinished
           /\ ListedOnce
           /\ \A a \in DOMAIN missing :
                 missing[a].full <=> missing[a].hour \notin RowsRead
<1>1. /\ DOMAIN missing = 1..Len(missing)
      /\ DOMAIN time_periods = 1..Len(time_periods)
      /\ time_periods # <<>>
  BY LenProperties DEF Progress, Sorted
<1>2. SoFar = HoursRead
  <2>1. time_periods[1].hour \in Int
    BY CounterpartIsPermutation DEF Sorted, RowType
  <2>2. i = t1 - time_periods[1].hour /\ t1 \in Int
    BY <2>1, ConstAssumption DEF Bounds, ConstAssumption
  <2>3. QED
    BY <1>1, <2>1, <2>2 DEF SoFar, HoursRead
<1>3. \A j \in 1..Len(time_periods) : time_periods[j].hour \in SoFar
  <2>1. TAKE j \in 1..Len(time_periods)
  <2>2. 1 \in 1..Len(time_periods)
    BY CounterpartIsPermutation DEF Sorted
  <2>3. time_periods[j] \in RowType /\ time_periods[1] \in RowType
    BY <2>2, CounterpartIsPermutation
  <2>4. /\ time_periods[j].hour \in Int /\ time_periods[1].hour \in Int
        /\ time_periods[1].hour <= time_periods[j].hour
        /\ time_periods[j].hour < t1 /\ t1 \in Int
    BY <2>3, CounterpartIsPermutation DEF RowType, Bounds
  <2>5. SoFar = time_periods[1].hour..(t1 - 1)
    BY <1>1, <1>2 DEF HoursRead
  <2>6. time_periods[j].hour \in time_periods[1].hour..(t1 - 1)
    BY <2>4
  <2>7. QED
    BY <2>5, <2>6
<1>4. \A h : h \in Unfinished <=>
         \/ h \in SoFar \ RowsRead
         \/ \E j \in 1..Len(time_periods) :
               time_periods[j].hour = h /\ ~time_periods[j].finished
  <2>1. TAKE h
  <2>2. h \in Unfinished <=>
           h \in SoFar /\ \A j \in 1..Len(time_periods) :
                             time_periods[j].finished => time_periods[j].hour # h
    BY <1>1, <1>2 DEF Unfinished
  <2>3. CASE h \in RowsRead
    <3>1. PICK k \in 1..Len(time_periods) : time_periods[k].hour = h
      BY <2>3, CounterpartIsPermutation
    <3>2. \A j \in 1..Len(time_periods) : time_periods[j].hour = h => j = k
      BY <3>1, CounterpartIsPermutation
    <3>3. QED
      BY <1>3, <2>2, <2>3, <3>1, <3>2
  <2>4. CASE h \notin RowsRead
    <3>1. \A j \in 1..Len(time_periods) : time_periods[j].hour # h
      BY <2>4, CounterpartIsPermutation
    <3>2. QED
      BY <2>2, <2>4, <3>1
  <2>5. QED
    BY <2>3, <2>4
<1>5. ASSUME NEW a \in 1..Len(missing)
      PROVE  /\ missing[a].hour \in Unfinished
             /\ missing[a].full <=> missing[a].hour \notin RowsRead
  <2>1. CASE missing[a].full /\ missing[a].hour \in SoFar \ RowsRead
    BY <1>4, <2>1
  <2>2. CASE ~missing[a].full /\ \E j \in 1..Len(time_periods) :
                Due(j) /\ missing[a].hour = time_periods[Counterpart(j)].hour
    <3>1. PICK j \in 1..Len(time_periods) :
             Due(j) /\ missing[a].hour = time_periods[Counterpart(j)].hour
      BY <2>2
    <3>2. /\ Counterpart(j) \in 1..Len(time_periods)
          /\ time_periods[Counterpart(j)].hour \in RowsRead
          /\ ~time_periods[Counterpart(j)].finished
      BY <3>1, CounterpartIsPermutation DEF Due
    <3>3. QED
      BY <1>4, <2>2, <3>1, <3>2
  <2>3. QED
    BY <2>1, <2>2 DEF Progress
<1>6. ASSUME NEW h \in Unfinished
      PROVE  \E a \in 1..Len(missing) : missing[a].hour = h
  <2>1. CASE h \in SoFar \ RowsRead
    BY <2>1 DEF Progress
  <2>2. ASSUME NEW j \in 1..Len(time_periods),
               time_periods[j].hour = h, ~time_periods[j].finished
        PROVE  \E a \in 1..Len(missing) : missing[a].hour = h
    <3>1. /\ Counterpart(j) \in 1..Len(time_periods)
          /\ Counterpart(Counterpart(j)) = j
      BY CounterpartIsPermutation
    <3>2. Due(Counterpart(j))
      BY <1>3, <2>2, <3>1 DEF Due
    <3>3. \E a \in 1..Len(missing) :
             missing[a].hour = time_periods[Counterpart(Counterpart(j))].hour
      BY <3>1, <3>2 DEF Progress
    <3>4. QED
      BY <2>2, <3>1, <3>3
  <2>3. QED
    BY <1>4, <1>6, <2>1, <2>2
<1>7. Listed = Unfinished
  BY <1>1, <1>5, <1>6 DEF Listed
<1>8. QED
  BY <1>1, <1>5, <1>7 DEF Progress
-----------------------------------------------------------------------------
\* The program starts without a list.
LEMMA InitSearch == Init => SearchInv
BY ConstAssumption DEF ConstAssumption, Init, SearchInv, Table, Hours, States

\* The rows that are selected are sorted, and lie before the hour it is.
LEMMA SelectedRows ==
    ASSUME Table, SelectRows, pc' = "clock"
    PROVE  /\ Sorted'
           /\ \A j \in 1..Len(time_periods') : time_periods'[j].hour < now
<1> DEFINE H == Rows(0..(now - 1))
           N == Cardinality(H)
<1>1. H # {}
  BY DEF SelectRows
<1>2. /\ now \in Int /\ H \subseteq 0..(now - 1)
      /\ IsFiniteSet(H) /\ N \in Nat /\ N # 0
  <2>1. now \in Int /\ H \subseteq 0..(now - 1)
    BY ConstAssumption DEF ConstAssumption, Table, Hours, Rows
  <2>2. IsFiniteSet(0..(now - 1))
    BY <2>1, FS_Interval
  <2>3. IsFiniteSet(H) /\ N \in Nat
    BY <2>1, <2>2, FS_Subset, FS_CardinalityType
  <2>4. QED
    BY <1>1, <2>1, <2>3, FS_EmptySet
<1>3. PICK s \in Sortings(H) :
         time_periods' = [j \in DOMAIN s |->
                             [hour |-> s[j], finished |-> period[s[j]] = "finished"]]
  BY DEF SelectRows
<1>4. /\ s \in [1..N -> H] /\ DOMAIN s = 1..N
      /\ \A a, b \in 1..N : a < b => s[a] < s[b]
  BY <1>3 DEF Sortings, Bijection, Injection
<1>5. \A j \in 1..N : s[j] \in Int /\ s[j] < now
  BY <1>2, <1>4
<1>6. /\ time_periods' \in [1..N -> RowType]
      /\ \A j \in 1..N : time_periods'[j].hour = s[j]
  BY <1>3, <1>4, <1>5 DEF RowType
<1>7. time_periods' \in Seq(RowType) /\ Len(time_periods') = N
  BY <1>2, <1>6
<1>8. QED
  BY <1>2, <1>4, <1>5, <1>6, <1>7 DEF Sorted

\* The search counts from an hour after all rows, over the hours there are.
LEMMA CountedHours ==
    ASSUME SearchInv, CountHours
    PROVE  SearchInv'
<1>1. /\ pc = "clock" /\ pc' = "search" /\ t1' = now /\ i' = 0 /\ missing' = <<>>
      /\ time_periods' = time_periods /\ now' = now /\ period' = period
      /\ Sorted /\ Table
      /\ \A j \in 1..Len(time_periods) : time_periods[j].hour < now
  BY DEF CountHours, SearchInv
<1>2. now \in Int /\ MaxBack \in Int /\ MaxBack >= 1
  BY <1>1, ConstAssumption DEF ConstAssumption, Table, Hours
<1>3. 1 \in 1..Len(time_periods) /\ time_periods[1].hour \in Int
      /\ time_periods[1].hour < now
  BY <1>1, CounterpartIsPermutation DEF Sorted, RowType
<1>4. hour_diff' = IF now - time_periods[1].hour > MaxBack
                   THEN MaxBack ELSE now - time_periods[1].hour
  BY DEF CountHours, HoursBetween
<1>5. Bounds'
  BY <1>1, <1>2, <1>3, <1>4 DEF Bounds
<1>6. Progress'
  <2>1. SoFar' = {}
    BY <1>1, <1>2 DEF SoFar
  <2>2. missing' \in Seq(EntryType) /\ Len(missing') = 0 /\ DOMAIN missing' = {}
    BY <1>1
  <2>3. ListedOnce'
    BY <2>2 DEF ListedOnce
  <2>4. \A j : ~Due(j)'
    BY <2>1 DEF Due
  <2>5. QED
    BY <2>1, <2>2, <2>3, <2>4 DEF Progress
<1>7. QED
  BY <1>1, <1>5, <1>6 DEF SearchInv, Sorted, Table

\* A step that leaves the search alone keeps what is known of it.
LEMMA SearchUntouched ==
    ASSUME UNCHANGED <<t1, i, hour_diff, missing, time_periods>>
    PROVE  /\ Sorted => Sorted'
           /\ Bounds => Bounds'
           /\ Progress => Progress'
<1>1. SoFar' = SoFar /\ RowsRead' = RowsRead /\ (ListedOnce' <=> ListedOnce)
  BY DEF SoFar, RowsRead, ListedOnce
<1>2. \A j : Counterpart(j)' = Counterpart(j)
  BY DEF Counterpart
<1>3. \A j : Due(j)' <=> Due(j)
  BY <1>1, <1>2 DEF Due
<1>4. (Sorted => Sorted') /\ (Bounds => Bounds')
  BY DEF Sorted, Bounds
<1>5. Progress => Progress'
  BY <1>1, <1>2, <1>3 DEF Progress
<1>6. QED
  BY <1>4, <1>5

\* Every step keeps the invariant; only three of them touch the search.
LEMMA SearchInvInductive == SearchInv /\ [Next]_vars => SearchInv'
<1> SUFFICES ASSUME SearchInv, [Next]_vars
             PROVE  SearchInv'
  OBVIOUS
<1> USE DEF Table
<1>1. CASE HourPasses
  <2>1. Table'
    BY <1>1, ConstAssumption DEF ConstAssumption, HourPasses, SearchInv, Hours
  <2>2. now \in Int /\ now' = now + 1
    BY <1>1 DEF HourPasses, SearchInv, Hours
  <2>3. UNCHANGED <<pc, t1, i, hour_diff, missing, time_periods>>
    BY <1>1 DEF HourPasses, run, search
  <2>4. pc = "clock" => \A j \in 1..Len(time_periods) : time_periods[j].hour < now'
    <3>1. SUFFICES ASSUME pc = "clock", NEW j \in 1..Len(time_periods)
                   PROVE  time_periods[j].hour < now'
      OBVIOUS
    <3>2. time_periods[j].hour < now /\ time_periods[j].hour \in Int
      BY <3>1, CounterpartIsPermutation DEF SearchInv, RowType
    <3>3. QED
      BY <2>2, <3>2
  <2>5. QED
    BY <2>1, <2>3, <2>4, SearchUntouched DEF SearchInv
<1>2. CASE Daemon
  <2>1. Table'
    <3>1. now' = now /\ now \in Hours /\ period \in [Hours -> States]
      BY <1>2 DEF Daemon, StartDaemon, DaemonPolls, DaemonInserts, KillDaemon, SearchInv
    <3>2. ASSUME NEW p \in [Hours -> States], NEW h
          PROVE  /\ Inserted(p, h) \in [Hours -> States]
                 /\ [p EXCEPT ![h] = "finished"] \in [Hours -> States]
      BY DEF Inserted, States
    <3>3. CASE DaemonPolls
      <4>1. PICK p \in {period, [period EXCEPT ![held] = "finished"]} :
               period' = Inserted(p, now) \/ period' = p
        BY <3>3 DEF DaemonPolls
      <4>2. p \in [Hours -> States]
        BY <3>1, <3>2, <4>1
      <4>3. QED
        BY <3>1, <3>2, <4>1, <4>2
    <3>4. CASE ~DaemonPolls
      <4>1. period' = period \/ \E h : period' = Inserted(period, h)
        BY <1>2, <3>4 DEF Daemon, StartDaemon, DaemonInserts, KillDaemon
      <4>2. QED
        BY <3>1, <3>2, <4>1
    <3>5. QED
      BY <3>3, <3>4
  <2>2. UNCHANGED <<now, pc, t1, i, hour_diff, missing, time_periods>>
    BY <1>2 DEF Daemon, StartDaemon, DaemonPolls, DaemonInserts, KillDaemon, run, search
  <2>3. QED
    BY <2>1, <2>2, SearchUntouched DEF SearchInv
<1>3. CASE Start \/ Abort
  BY <1>3 DEF Start, Abort, NewProcess, SearchInv
<1>4. CASE SelectRows
  <2>1. Table' /\ missing' = <<>> /\ pc' \in {"clock", "oldest_call"}
    BY <1>4 DEF SelectRows, SearchInv
  <2>2. CASE pc' = "clock"
    BY <1>4, <2>1, <2>2, SelectedRows DEF SelectRows, SearchInv
  <2>3. CASE pc' = "oldest_call"
    BY <2>1, <2>3 DEF SearchInv
  <2>4. QED
    BY <2>1, <2>2, <2>3
<1>5. CASE CountHours
  BY <1>5, CountedHours
<1>6. CASE LookUp
  <2>1. pc = "search" /\ pc' = pc /\ Table'
    BY <1>6 DEF LookUp, SearchInv
  <2>2. Sorted' /\ Progress'
    BY <1>6, <2>1, LookUpKeepsProgress DEF LookUp, SearchInv, Sorted
  <2>3. Bounds'
    BY <1>6, <2>1 DEF LookUp, SearchInv, Bounds
  <2>4. QED
    BY <2>1, <2>2, <2>3 DEF SearchInv
<1>7. CASE SearchEnds \/ ReadOldestCall \/ ReadOldestRow
  BY <1>7 DEF SearchEnds, ReadOldestCall, ReadOldestRow, search, SearchInv
<1>8. CASE Repair \/ Back
  <2>1. PICK h : period' = Inserted(period, h) /\ now' = now
    BY <1>8 DEF Repair, Back
  <2>2. Table'
    BY <2>1 DEF Inserted, SearchInv, States
  <2>3. QED
    BY <1>8, <2>2 DEF Repair, Back, SearchInv
<1>9. CASE MarkRepaired \/ MarkBack
  <2>1. Marked /\ now' = now
    BY <1>9 DEF MarkRepaired, MarkBack
  <2>2. Table'
    BY <2>1 DEF Marked, SearchInv, States
  <2>3. pc' \notin {"select", "clock", "search"}
    BY <1>9 DEF MarkRepaired, MarkBack
  <2>4. QED
    BY <2>2, <2>3 DEF SearchInv
<1>10. CASE UNCHANGED vars
  BY <1>10, SearchUntouched DEF vars, run, search, SearchInv
<1>11. QED
  BY <1>1, <1>2, <1>3, <1>4, <1>5, <1>6, <1>7, <1>8, <1>9, <1>10 DEF Next, Control

\* The search of mor_get_missing_periods lists each unfinished hour once, and
\* no other, whenever all rows are within the hours it looks at.
THEOREM SearchExact == Spec => []SearchIsExact
<1>1. SearchInv => SearchIsExact
  BY ProgressIsExact DEF SearchInv, SearchIsExact
<1>2. QED
  BY <1>1, InitSearch, SearchInvInductive, PTL DEF Spec

-----------------------------------------------------------------------------
(***************************************************************************)
(* The run after the search.  What is listed, and then what lies before the *)
(* oldest row, is not finished until the run has marked it, and the hours  *)
(* behind its counter are finished: both rest on what the program believes *)
(* of hours that have ended, of which the daemon finishes only the one whose *)
(* row it still has.                                                       *)
(***************************************************************************)

\* Rows are those of hours that have begun, finished ones of hours that have
\* ended, and a run finds at least one.
RowsInv ==
    /\ \A h \in Rows(Hours) : h <= now
    /\ \A h \in Hours : period[h] = "finished" => h < now
    /\ held # NoHour => period[held] # "absent"
    /\ pc # "off" => Rows(Hours) # {}

\* Where the run is in its lists.
FlowInv ==
    /\ pc \in {"select", "clock", "oldest_call", "oldest_row"} => i = 0
    /\ pc \notin {"repair", "back"} => hour = NoHour
    /\ pc = "repair" =>
          /\ ListedOnce /\ i < Len(missing)
          /\ hour \in {NoHour, missing[i + 1].hour}
    /\ pc = "oldest_row" => oldest_calldate # NoHour
    /\ pc = "back" =>
          /\ oldest_calldate # NoHour /\ hour_diff = t1 - oldest_calldate
          /\ i < hour_diff /\ hour \in {NoHour, HourBack}

\* What the run has been through is finished.
Behind ==
    /\ pc = "repair" /\ ~markFailed =>
          \A a \in 1..i : period[missing[a].hour] = "finished"
    /\ pc \in {"oldest_call", "oldest_row", "back", "done"}
       /\ till = NoHour /\ ~markFailed =>
          \A a \in 1..Len(missing) : period[missing[a].hour] = "finished"
    /\ pc = "back" /\ ~markFailed =>
          \A h \in (t1 - i)..(t1 - 1) : period[h] = "finished"
    /\ pc = "done" /\ till = NoHour /\ ~markFailed /\ oldest_calldate # NoHour =>
          \A h \in oldest_calldate..(t1 - 1) : period[h] = "finished"

\* The rows read tell which of the hours of H were finished before.
Known(H) == \A h \in H : period[h] = "finished" /\ h \notin late =>
                \E j \in 1..Len(time_periods) :
                   time_periods[j].hour = h /\ time_periods[j].finished

\* What the run has before it is not, but for late marks.
Ahead ==
    /\ pc = "clock" => Known(0..(now - 1))
    /\ pc = "search" => Known(0..(t1 - 1))
    /\ pc = "repair" =>
          \A a \in (i + 1)..Len(missing) :
             period[missing[a].hour] # "finished" \/ missing[a].hour \in late
    /\ pc = "back" => /\ \A h \in 0..(t1 - 1 - i) : period[h] # "finished"
                      /\ held # NoHour => held >= t1

HoursInv == SearchInv /\ TypeOK /\ RowsInv /\ FlowInv /\ Behind /\ Ahead

\* A list of elements of S is one of elements of any larger set.
LEMMA SeqGrows ==
    ASSUME NEW S, NEW T, S \subseteq T, NEW s \in Seq(S)
    PROVE  s \in Seq(T)
<1>1. Len(s) \in Nat /\ s \in [1..Len(s) -> S]
  BY LenProperties
<1>2. s \in [1..Len(s) -> T]
  BY <1>1
<1>3. QED
  BY <1>1, <1>2

LEMMA ListIsSeq ==
    ASSUME NEW S, NEW n \in Nat, NEW s \in [1..n -> S]
    PROVE  s \in Seq(S)
  OBVIOUS

\* A set of hours that is not empty has a first one, which is the oldest row
\* when it is the set of the rows.
LEMMA FirstHour ==
    ASSUME NEW H, H \subseteq Nat, H # {}
    PROVE  \E h \in H : \A g \in H : h <= g
<1>1. PICK h \in H : \A g \in H : ~(<<g, h>> \in OpToRel(<, Nat))
  BY WFMin, NatLessThanWellFounded
<1>2. \A g \in H : ~(g < h)
  BY <1>1 DEF OpToRel
<1>3. QED
  BY <1>2

LEMMA OldestRowIsFirst ==
    ASSUME RowsInv, pc # "off"
    PROVE  /\ OldestRow \in Rows(Hours) /\ OldestRow \in 0..now
           /\ \A g \in Rows(Hours) : OldestRow <= g
<1>1. Rows(Hours) \subseteq Nat /\ Rows(Hours) # {}
  BY DEF RowsInv, Rows, Hours
<1>2. \E h \in Rows(Hours) : \A g \in Rows(Hours) : h <= g
  BY <1>1, FirstHour
<1>3. OldestRow \in Rows(Hours) /\ \A g \in Rows(Hours) : OldestRow <= g
  BY <1>2 DEF OldestRow
<1>4. QED
  BY <1>1, <1>3 DEF RowsInv

\* The hours that the types speak of.
LEMMA HourTypes ==
    ASSUME TypeOK
    PROVE  /\ now \in Nat /\ now <= MaxHour /\ MaxHour \in Nat
           /\ t1 \in Nat /\ t1 <= now /\ hour_diff \in Int /\ i \in Nat
           /\ 0..(now - 1) \subseteq Hours /\ NoHour \notin Int
           /\ held # NoHour => held \in 0..now /\ held \in Hours
           /\ oldest_calldate # NoHour => oldest_calldate \in 0..now
           /\ hour # NoHour => hour \in 0..(now - 1)
           /\ Len(missing) \in Nat /\ DOMAIN missing = 1..Len(missing)
           /\ \A a \in 1..Len(missing) : missing[a].hour \in 0..(now - 1)
           /\ Len(time_periods) \in Nat /\ DOMAIN time_periods = 1..Len(time_periods)
           /\ \A j \in 1..Len(time_periods) : time_periods[j].hour \in 0..(now - 1)
<1>1. now \in Nat /\ now <= MaxHour /\ MaxHour \in Nat /\ NoHour \notin Int
  BY ConstAssumption DEF TypeOK, ConstAssumption, Hours
<1>2. /\ Len(missing) \in Nat /\ DOMAIN missing = 1..Len(missing)
      /\ \A a \in 1..Len(missing) : missing[a] \in [hour : 0..(now - 1), full : BOOLEAN]
  BY LenProperties, ElementOfSeq DEF TypeOK
<1>3. /\ Len(time_periods) \in Nat /\ DOMAIN time_periods = 1..Len(time_periods)
      /\ \A j \in 1..Len(time_periods) :
            time_periods[j] \in [hour : 0..(now - 1), finished : BOOLEAN]
  BY LenProperties, ElementOfSeq DEF TypeOK
<1>4. t1 \in 0..now /\ hour_diff \in Int /\ i \in Nat
      /\ oldest_calldate \in {NoHour} \cup 0..now
      /\ hour \in {NoHour} \cup 0..(now - 1)
      /\ held \in {NoHour} \cup 0..now
  BY DEF TypeOK
<1>5. 0..(now - 1) \subseteq Hours /\ 0..now \subseteq Hours
  BY <1>1 DEF Hours
<1>6. QED
  BY <1>1, <1>2, <1>3, <1>4, <1>5

\* Every step keeps the types.
LEMMA TypeNext == HoursInv /\ [Next]_vars => TypeOK'
<1> SUFFICES ASSUME HoursInv, [Next]_vars PROVE TypeOK'
  OBVIOUS
<1>0. /\ TypeOK /\ RowsInv /\ FlowInv /\ SearchInv /\ SearchInv'
      /\ now' \in Hours /\ period' \in [Hours -> States]
  BY SearchInvInductive DEF HoursInv, SearchInv, Table
<1>1. CASE HourPasses
  <2>1. now' = now + 1 /\ now \in Nat /\ 0..(now - 1) \subseteq 0..(now' - 1)
    BY <1>0, <1>1, HourTypes DEF HourPasses
  <2>2. UNCHANGED <<pc, till, time_periods, t1, hour_diff, missing, i, hour,
                    oldest_calldate>>
    BY <1>1 DEF HourPasses, run, search
  <2>3. time_periods \in Seq([hour : 0..(now' - 1), finished : BOOLEAN])
    <3>1. [hour : 0..(now - 1), finished : BOOLEAN]
              \subseteq [hour : 0..(now' - 1), finished : BOOLEAN]
      BY <2>1
    <3>2. QED
      BY ONLY <1>0, <3>1, SeqGrows DEF TypeOK
  <2>4. missing \in Seq([hour : 0..(now' - 1), full : BOOLEAN])
    <3>1. [hour : 0..(now - 1), full : BOOLEAN]
              \subseteq [hour : 0..(now' - 1), full : BOOLEAN]
      BY <2>1
    <3>2. QED
      BY ONLY <1>0, <3>1, SeqGrows DEF TypeOK
  <2>5. UNCHANGED <<held, late, markFailed>>
    BY <1>1 DEF HourPasses, run
  <2>6. /\ t1 \in 0..now' /\ oldest_calldate \in {NoHour} \cup 0..now'
        /\ held \in {NoHour} \cup 0..now'
        /\ hour \in {NoHour} \cup 0..(now' - 1)
    BY <1>0, <2>1 DEF TypeOK
  <2>7. QED
    BY <1>0, <2>2, <2>3, <2>4, <2>5, <2>6 DEF TypeOK
<1>2. CASE Daemon
  <2>1. /\ now' = now /\ held' \in {NoHour, held, now}
        /\ late' = late \/ (held # NoHour /\ late' = late \cup {held})
    BY <1>2 DEF Daemon, StartDaemon, DaemonPolls, DaemonInserts, KillDaemon
  <2>2. UNCHANGED <<pc, till, time_periods, t1, hour_diff, missing, i, hour,
                    oldest_calldate, markFailed>>
    BY <1>2 DEF Daemon, StartDaemon, DaemonPolls, DaemonInserts, KillDaemon, run, search
  <2>3. late' \subseteq Hours /\ held' \in {NoHour} \cup 0..now'
    BY <1>0, <2>1, HourTypes DEF TypeOK
  <2>4. QED
    BY <1>0, <2>1, <2>2, <2>3 DEF TypeOK
<1>3. CASE Start
  <2>1. till' \in Int \cup {NoHour}
    BY <1>0, <1>3, HourTypes, ConstAssumption DEF Start, ConstAssumption
  <2>2. now' = now /\ 0 \in 0..now
    BY <1>0, <1>3, HourTypes DEF Start
  <2>3. held' = held /\ late' = {} /\ markFailed' = FALSE
        /\ held \in {NoHour} \cup 0..now
    BY <1>0, <1>3 DEF Start, NewProcess, TypeOK
  <2>4. /\ late' \subseteq Hours /\ markFailed' \in BOOLEAN
        /\ held' \in {NoHour} \cup 0..now' /\ pc' = "select"
    BY <1>3, <2>2, <2>3 DEF Start
  <2>5. /\ time_periods' = <<>> /\ t1' = 0 /\ hour_diff' = 0 /\ i' = 0 /\ missing' = <<>>
        /\ hour' = NoHour /\ oldest_calldate' = NoHour
    BY <1>3 DEF Start, NewProcess
  <2>6. QED
    BY <1>0, <2>1, <2>2, <2>4, <2>5 DEF TypeOK
<1>4. CASE Abort
  <2>1. now' = now /\ 0 \in 0..now
    BY <1>0, <1>4, HourTypes DEF Abort
  <2>2. held' = held /\ late' = {} /\ markFailed' = FALSE
        /\ held \in {NoHour} \cup 0..now
    BY <1>0, <1>4 DEF Abort, NewProcess, TypeOK
  <2>3. /\ late' \subseteq Hours /\ markFailed' \in BOOLEAN
        /\ held' \in {NoHour} \cup 0..now' /\ pc' = "off" /\ till' = NoHour
    BY <1>4, <2>1, <2>2 DEF Abort
  <2>4. /\ time_periods' = <<>> /\ t1' = 0 /\ hour_diff' = 0 /\ i' = 0 /\ missing' = <<>>
        /\ hour' = NoHour /\ oldest_calldate' = NoHour
    BY <1>4 DEF Abort, NewProcess
  <2>5. QED
    BY <1>0, <2>1, <2>3, <2>4 DEF TypeOK
<1>5. CASE SelectRows
  <2> DEFINE H == Rows(0..(now - 1))
             N == Cardinality(H)
  <2>1. H \subseteq 0..(now - 1) /\ now \in Nat
    BY <1>0, HourTypes DEF Rows
  <2>2. N \in Nat
    <3>1. IsFiniteSet(0..(now - 1))
      BY <2>1, FS_Interval
    <3>2. QED
      BY <2>1, <3>1, FS_Subset, FS_CardinalityType
  <2>3. PICK s \in Sortings(H) :
           time_periods' = [j \in DOMAIN s |->
                               [hour |-> s[j], finished |-> period[s[j]] = "finished"]]
    BY <1>5 DEF SelectRows
  <2>4. s \in [1..N -> H] /\ DOMAIN s = 1..N
    BY <2>3 DEF Sortings, Bijection, Injection
  <2>5. \A j \in 1..N : [hour |-> s[j], finished |-> period[s[j]] = "finished"]
                            \in [hour : 0..(now - 1), finished : BOOLEAN]
    BY <2>1, <2>4
  <2>6. time_periods' \in [1..N -> [hour : 0..(now - 1), finished : BOOLEAN]]
    BY <2>3, <2>4, <2>5
  <2>7. time_periods' \in Seq([hour : 0..(now - 1), finished : BOOLEAN])
    BY <2>2, <2>6, ListIsSeq
  <2>8. pc' \in {"oldest_call", "clock"}
    BY <1>5 DEF SelectRows
  <2>9. QED
    BY <1>0, <1>5, <2>7, <2>8 DEF SelectRows, TypeOK
<1>6. CASE CountHours
  <2>1. hour_diff' \in Int
    <3>1. pc = "clock" /\ Sorted
      BY <1>0, <1>6 DEF CountHours, SearchInv
    <3>2. time_periods[1].hour \in Int
      BY <3>1, CounterpartIsPermutation DEF Sorted, RowType
    <3>3. QED
      BY <1>0, <1>6, <3>2, HourTypes, ConstAssumption
         DEF CountHours, HoursBetween, ConstAssumption
  <2>2. t1' = now /\ now' = now /\ now \in 0..now
    BY <1>0, <1>6, HourTypes DEF CountHours
  <2>3. QED
    BY <1>0, <1>6, <2>1, <2>2 DEF CountHours, TypeOK
<1>7. CASE LookUp
  <2>1. Sorted /\ Bounds /\ i < hour_diff
    BY <1>0, <1>7 DEF LookUp, SearchInv
  <2>2. /\ 1 \in 1..Len(time_periods) /\ t1 \in Nat /\ t1 <= now /\ now \in Nat
        /\ i \in Nat
        /\ \A j \in 1..Len(time_periods) : time_periods[j].hour \in 0..(now - 1)
    BY <1>0, <2>1, HourTypes DEF Sorted
  <2>3. HourBack \in 0..(now - 1)
    <3>1. time_periods[1].hour \in 0..(now - 1)
      BY <2>2
    <3>2. i < t1 - time_periods[1].hour
      BY <2>1, <2>2, <3>1, ConstAssumption DEF Bounds, ConstAssumption
    <3>3. QED
      BY <2>2, <3>1, <3>2 DEF HourBack
  <2>4. missing \o Found(HourBack) \in Seq([hour : 0..(now - 1), full : BOOLEAN])
    <3>1. ASSUME NEW g \in 0..(now - 1), NEW b \in BOOLEAN
          PROVE  missing \o <<[hour |-> g, full |-> b]>>
                     \in Seq([hour : 0..(now - 1), full : BOOLEAN])
      <4>1. missing \in Seq([hour : 0..(now - 1), full : BOOLEAN])
        BY <1>0 DEF TypeOK
      <4>2. [hour |-> g, full |-> b] \in [hour : 0..(now - 1), full : BOOLEAN]
        BY <3>1
      <4>3. <<[hour |-> g, full |-> b]>> \in Seq([hour : 0..(now - 1), full : BOOLEAN])
        BY <4>2
      <4>4. QED
        BY <4>1, <4>3, ConcatProperties
    <3>2. CASE Found(HourBack) = <<>>
      BY <1>0, <3>2, ConcatEmptySeq DEF TypeOK
    <3>3. CASE Found(HourBack) = <<[hour |-> HourBack, full |-> TRUE]>>
      BY <2>3, <3>1, <3>3
    <3>4. ASSUME NEW j \in 1..Len(time_periods),
                 Found(HourBack) = <<[hour |-> time_periods[Counterpart(j)].hour,
                                      full |-> FALSE]>>
          PROVE  missing \o Found(HourBack)
                     \in Seq([hour : 0..(now - 1), full : BOOLEAN])
      <4>1. time_periods[Counterpart(j)].hour \in 0..(now - 1)
        BY <2>1, <2>2, <3>4, CounterpartIsPermutation
      <4>2. QED
        BY <3>1, <3>4, <4>1
    <3>5. HourBack \in Int
      BY <2>3
    <3>6. QED
      BY <2>1, <3>2, <3>3, <3>4, <3>5, FoundCases
  <2>5. QED
    BY <1>0, <1>7, <2>4 DEF LookUp, TypeOK
<1>8. CASE SearchEnds
  BY <1>0, <1>8 DEF SearchEnds, search, TypeOK
<1>9. CASE Repair
  <2>1. missing[i + 1].hour \in 0..(now - 1)
    BY <1>0, <1>9, HourTypes DEF Repair, FlowInv
  <2>2. QED
    BY <1>0, <1>9, <2>1 DEF Repair, search, TypeOK
<1>10. CASE MarkRepaired
  <2>1. markFailed' \in BOOLEAN
    BY <1>0, <1>10 DEF MarkRepaired, Marked, TypeOK
  <2>2. i' \in Nat /\ pc' \in {"oldest_call", "repair"}
    BY <1>0, <1>10 DEF MarkRepaired, TypeOK
  <2>3. QED
    BY <1>0, <1>10, <2>1, <2>2 DEF MarkRepaired, search, TypeOK
<1>11. CASE ReadOldestCall
  BY <1>0, <1>11 DEF ReadOldestCall, search, TypeOK
<1>12. CASE ReadOldestRow
  <2>1. OldestRow \in 0..now
    BY <1>0, <1>12, OldestRowIsFirst DEF ReadOldestRow
  <2>2. oldest_calldate \in Int
    BY <1>0, <1>12, HourTypes DEF ReadOldestRow, FlowInv
  <2>3. t1' \in 0..now /\ hour_diff' \in Int
    BY <1>0, <1>12, <2>1, <2>2 DEF ReadOldestRow, HoursBetween
  <2>4. QED
    BY <1>0, <1>12, <2>3 DEF ReadOldestRow, TypeOK
<1>13. CASE Back
  <2>1. HourBack \in 0..(now - 1)
    BY <1>0, <1>13, HourTypes DEF Back, FlowInv, HourBack
  <2>2. QED
    BY <1>0, <1>13, <2>1 DEF Back, search, TypeOK
<1>14. CASE MarkBack
  <2>1. markFailed' \in BOOLEAN
    BY <1>0, <1>14 DEF MarkBack, Marked, TypeOK
  <2>2. i' \in Nat /\ pc' \in {"done", "back"}
    BY <1>0, <1>14 DEF MarkBack, TypeOK
  <2>3. QED
    BY <1>0, <1>14, <2>1, <2>2 DEF MarkBack, search, TypeOK
<1>15. CASE UNCHANGED vars
  BY <1>0, <1>15 DEF vars, run, search, TypeOK
<1>16. QED
  BY <1>1, <1>2, <1>3, <1>4, <1>5, <1>6, <1>7, <1>8, <1>9, <1>10, <1>11, <1>12,
     <1>13, <1>14, <1>15 DEF Next, Control

\* What a step may do to an hour: it is never unfinished again and never loses
\* its row, and only the hour in hand or the daemon's, which has ended, is
\* finished.
PeriodMoves ==
    \A h \in Hours :
        /\ period[h] = "finished" => period'[h] = "finished"
        /\ period[h] # "absent" => period'[h] # "absent"
        /\ period'[h] # period[h] => h <= now
        /\ period'[h] = "finished" /\ period[h] # "finished" =>
              h \in {held, hour} /\ h < now

\* Where the run marks no hour, the daemon's is the only one, and is noted as
\* marked late if the run may have it on its list.
Unmarked ==
    /\ \A h \in Hours :
          period'[h] = "finished" /\ period[h] # "finished" =>
              h = held /\ (pc \in {"clock", "search", "repair"} => h \in late')
    /\ pc' = pc /\ pc \in {"clock", "search", "repair"} => late \subseteq late'

\* Taking a row finishes no hour.
LEMMA InsertedIs ==
    ASSUME NEW p \in [Hours -> States], NEW h \in Hours
    PROVE  \A g \in Hours :
              Inserted(p, h)[g] = IF g = h /\ p[h] = "absent" THEN "open" ELSE p[g]
BY DEF Inserted

LEMMA InsertedMoves ==
    ASSUME TypeOK, NEW h \in 0..now, period' = Inserted(period, h), late' = late
    PROVE  PeriodMoves /\ Unmarked
<1>1. h \in Hours /\ now \in Nat /\ h <= now
  BY HourTypes DEF Hours
<1>2. \A g \in Hours : period'[g] = IF g = h /\ period[h] = "absent" THEN "open" ELSE period[g]
  BY <1>1, InsertedIs DEF TypeOK
<1>3. QED
  BY <1>1, <1>2 DEF PeriodMoves, Unmarked

\* What the daemon does to the hours, and to the one it has.
LEMMA DaemonMoves ==
    ASSUME TypeOK, RowsInv, Daemon
    PROVE  /\ PeriodMoves /\ Unmarked /\ UNCHANGED <<now, run>>
           /\ held' # NoHour => period'[held'] # "absent"
           /\ held' \in {NoHour, held, now}
<1>1. now \in 0..now /\ now \in Hours /\ period \in [Hours -> States] /\ now \in Nat
  BY HourTypes DEF TypeOK
<1>2. CASE StartDaemon
  <2>1. /\ period' = Inserted(period, now) /\ held' = now /\ late' = late
        /\ UNCHANGED <<now, run>> /\ pc \in {"off", "done"}
    BY <1>2 DEF StartDaemon
  <2>2. period'[now] # "absent"
    BY <1>1, <2>1, InsertedIs
  <2>3. QED
    BY <1>1, <2>1, <2>2, InsertedMoves
<1>3. CASE DaemonPolls
  <2>1. held \in Hours /\ held < now /\ held # NoHour /\ UNCHANGED <<now, run>>
    BY <1>3, HourTypes DEF DaemonPolls
  <2>2. PICK p \in {period, [period EXCEPT ![held] = "finished"]} :
          /\ late' = IF p # period /\ pc \in {"clock", "search", "repair"}
                     THEN late \cup {held} ELSE late
          /\ \/ period' = Inserted(p, now) /\ held' = now
             \/ period' = p /\ held' = NoHour
    BY <1>3 DEF DaemonPolls
  <2>3. /\ p \in [Hours -> States]
        /\ \A g \in Hours : \/ p[g] = period[g]
                            \/ g = held /\ p[g] = "finished" /\ p # period
    <3>1. CASE p = period
      BY <1>1, <3>1
    <3>2. CASE p = [period EXCEPT ![held] = "finished"]
      <4>1. /\ p \in [Hours -> States]
            /\ \A g \in Hours : p[g] = IF g = held THEN "finished" ELSE period[g]
        BY <1>1, <3>2 DEF States
      <4>2. ASSUME NEW g \in Hours, p[g] # period[g] PROVE p # period
        BY <4>2
      <4>3. QED
        BY <4>1, <4>2
    <3>3. QED
      BY <2>2, <3>1, <3>2
  <2>4. \A g \in Hours : period'[g] = p[g] \/ (g = now /\ p[g] = "absent" /\ period'[g] = "open")
    BY <1>1, <2>2, <2>3, InsertedIs
  <2>5. held' # NoHour => period'[held'] # "absent"
    BY <1>1, <2>2, <2>3, InsertedIs
  <2>6. PeriodMoves
    <3>1. now <= now /\ held <= now
      BY <1>1, <2>1 DEF Hours
    <3>2. QED
      BY <2>1, <2>3, <2>4, <3>1 DEF PeriodMoves
  <2>7. Unmarked
    BY <2>2, <2>3, <2>4 DEF Unmarked
  <2>8. QED
    BY <2>1, <2>2, <2>5, <2>6, <2>7
<1>4. CASE DaemonInserts
  <2>1. PICK h \in 0..now : period' = Inserted(period, h)
    BY <1>4 DEF DaemonInserts
  <2>2. UNCHANGED <<now, held, late, run>>
    BY <1>4 DEF DaemonInserts
  <2>3. PeriodMoves /\ Unmarked
    BY <2>1, <2>2, InsertedMoves
  <2>4. held # NoHour => period'[held] # "absent"
    BY <2>3, HourTypes DEF PeriodMoves, RowsInv
  <2>5. QED
    BY <2>2, <2>3, <2>4
<1>5. CASE KillDaemon
  BY <1>5 DEF KillDaemon, PeriodMoves, Unmarked
<1>6. QED
  BY <1>2, <1>3, <1>4, <1>5 DEF Daemon

\* A mark of the run changes no hour but the one in hand.
LEMMA MarkedOnlyHour ==
    ASSUME TypeOK, Marked
    PROVE  \A g \in Hours : g # hour => period'[g] = period[g]
<1>1. \A g \in Hours : g # hour => [period EXCEPT ![hour] = "finished"][g] = period[g]
  BY DEF TypeOK
<1>2. QED
  BY <1>1 DEF Marked

LEMMA MarkedMoves ==
    ASSUME TypeOK, hour # NoHour, Marked
    PROVE  /\ PeriodMoves
           /\ ~markFailed' => ~markFailed /\ period'[hour] = "finished"
<1>1. hour \in Hours /\ hour <= now /\ hour < now
  <2>1. hour \in 0..(now - 1) /\ 0..(now - 1) \subseteq Hours
    BY HourTypes
  <2>2. now \in Nat
    BY HourTypes
  <2>3. hour <= now /\ hour < now
    BY <2>1, <2>2
  <2>4. QED
    BY <2>1, <2>3
<1>2. \A g \in Hours : period'[g] # period[g] => g = hour /\ period'[g] = "finished"
  <2>1. CASE period' = [period EXCEPT ![hour] = "finished"]
    <3>1. period \in [Hours -> States]
      BY DEF TypeOK
    <3>2. \A g \in Hours : period'[g] = IF g = hour THEN "finished" ELSE period[g]
      BY <2>1, <3>1
    <3>3. QED
      BY <3>2
  <2>2. CASE period' = period
    BY <2>2
  <2>3. QED
    BY <2>1, <2>2 DEF Marked
<1>3. PeriodMoves
  BY <1>1, <1>2 DEF PeriodMoves
<1>4. QED
  BY <1>1, <1>3 DEF TypeOK, Marked

LEMMA PeriodNext ==
    ASSUME HoursInv, [Next]_vars
    PROVE  /\ PeriodMoves
           /\ MarkRepaired \/ MarkBack \/ Unmarked
<1>0. TypeOK /\ RowsInv /\ FlowInv
  BY DEF HoursInv
<1>2. CASE Daemon
  BY <1>0, <1>2, DaemonMoves
<1>3. CASE Repair
  <2>1. missing[i + 1].hour \in 0..now /\ hour' = missing[i + 1].hour
    BY <1>0, <1>3, HourTypes DEF Repair, FlowInv
  <2>2. QED
    BY <1>0, <1>3, <2>1, InsertedMoves DEF Repair
<1>4. CASE Back
  <2>1. HourBack \in 0..now /\ hour' = HourBack
    BY <1>0, <1>4, HourTypes DEF Back, FlowInv, HourBack
  <2>2. QED
    BY <1>0, <1>4, <2>1, InsertedMoves DEF Back
<1>5. CASE MarkRepaired \/ MarkBack
  BY <1>0, <1>5, MarkedMoves DEF MarkRepaired, MarkBack
<1>6. CASE period' = period /\ (pc' = pc => late' = late)
  BY <1>6 DEF PeriodMoves, Unmarked
<1>7. CASE HourPasses \/ Start \/ SelectRows \/ CountHours \/ LookUp \/ SearchEnds
           \/ ReadOldestCall \/ ReadOldestRow \/ Abort \/ UNCHANGED vars
  BY <1>6, <1>7 DEF HourPasses, Start, SelectRows, CountHours, LookUp, SearchEnds,
     ReadOldestCall, ReadOldestRow, Abort, vars
<1>8. QED
  BY <1>2, <1>3, <1>4, <1>5, <1>7 DEF Next, Control

LEMMA RowsNext == HoursInv /\ [Next]_vars => RowsInv'
<1> SUFFICES ASSUME HoursInv, [Next]_vars PROVE RowsInv'
  OBVIOUS
<1>1. PeriodMoves /\ TypeOK /\ RowsInv
  BY PeriodNext DEF HoursInv
<1>2. /\ now \in Nat /\ now' \in {now, now + 1}
      /\ pc' # "off" => pc # "off" \/ Rows(Hours) # {}
      /\ held' # NoHour => period'[held'] # "absent"
  <2>1. now \in Nat /\ (held # NoHour => period'[held] # "absent")
    BY <1>1, HourTypes DEF PeriodMoves, RowsInv
  <2>2. CASE Daemon
    BY <1>1, <2>1, <2>2, DaemonMoves DEF run
  <2>3. CASE ~Daemon
    BY <2>1, <2>3 DEF Next, Control, HourPasses, Start, SelectRows, CountHours, LookUp,
       SearchEnds, Repair, MarkRepaired, ReadOldestCall, ReadOldestRow, Back, MarkBack,
       Abort, vars, run
  <2>4. QED
    BY <2>2, <2>3
<1>3. \A h \in Hours : period'[h] # "absent" => period[h] # "absent" \/ h <= now
  BY <1>1 DEF PeriodMoves
<1>4. Rows(Hours) \subseteq Rows(Hours)'
  BY <1>1 DEF PeriodMoves, Rows
<1>5. ASSUME NEW h \in Rows(Hours)' PROVE h <= now'
  <2>1. h \in Hours /\ (h \in Rows(Hours) \/ h <= now)
    BY <1>3, <1>5 DEF Rows
  <2>2. h \in Int /\ h <= now
    BY <1>1, <2>1 DEF RowsInv, Hours
  <2>3. QED
    BY <1>2, <2>2
<1>6. ASSUME NEW h \in Hours, period'[h] = "finished" PROVE h < now'
  <2>1. h \in Int /\ h < now
    BY <1>1, <1>6 DEF RowsInv, PeriodMoves, Hours
  <2>2. QED
    BY <1>2, <2>1
<1>7. QED
  BY <1>1, <1>2, <1>4, <1>5, <1>6 DEF RowsInv

\* Every step keeps the run where it is in its lists.
LEMMA FlowNext == HoursInv /\ [Next]_vars => FlowInv'
<1> SUFFICES ASSUME HoursInv, [Next]_vars PROVE FlowInv'
  OBVIOUS
<1>0. TypeOK /\ RowsInv /\ FlowInv /\ SearchInv
  BY DEF HoursInv
<1>1. CASE HourPasses \/ Daemon \/ UNCHANGED vars
  <2>1. UNCHANGED <<pc, till, search, i, hour, oldest_calldate>>
    BY <1>1 DEF HourPasses, Daemon, StartDaemon, DaemonPolls, DaemonInserts, KillDaemon,
       run, vars
  <2>2. QED
    BY <1>0, <2>1 DEF FlowInv, search, ListedOnce, HourBack
<1>2. CASE Start \/ Abort
  BY <1>2 DEF Start, Abort, NewProcess, FlowInv
<1>3. CASE SelectRows \/ CountHours \/ LookUp \/ ReadOldestCall
  BY <1>0, <1>3 DEF SelectRows, CountHours, LookUp, ReadOldestCall, FlowInv
<1>4. CASE SearchEnds
  <2>1. pc = "search" /\ ListedOnce /\ hour = NoHour
    BY <1>0, <1>4 DEF SearchEnds, SearchInv, Progress, FlowInv
  <2>2. UNCHANGED <<missing, hour, oldest_calldate>> /\ i' = 0
        /\ pc' = IF missing = <<>> THEN "oldest_call" ELSE "repair"
    BY <1>4 DEF SearchEnds, search
  <2>3. ListedOnce'
    BY <2>1, <2>2 DEF ListedOnce
  <2>4. missing # <<>> => 0 < Len(missing)
    BY <1>0, HourTypes, EmptySeq DEF TypeOK
  <2>5. QED
    BY <2>1, <2>2, <2>3, <2>4 DEF FlowInv
<1>5. CASE Repair
  <2>1. /\ pc = "repair" /\ hour' = missing[i + 1].hour
        /\ UNCHANGED <<pc, missing, i>>
    BY <1>5 DEF Repair, search
  <2>2. ListedOnce' /\ i < Len(missing)
    BY <1>0, <2>1 DEF FlowInv, ListedOnce
  <2>3. QED
    BY <2>1, <2>2 DEF FlowInv
<1>6. CASE MarkRepaired
  <2>1. /\ pc = "repair" /\ hour' = NoHour /\ missing' = missing
        /\ \/ i' = 0 /\ pc' = "oldest_call"
           \/ i + 1 # Len(missing) /\ i' = i + 1 /\ pc' = "repair"
    BY <1>6 DEF MarkRepaired, search
  <2>2. ListedOnce' /\ i < Len(missing)
    BY <1>0, <2>1 DEF FlowInv, ListedOnce
  <2>3. i \in Nat /\ Len(missing) \in Nat
    BY <1>0, HourTypes
  <2>4. QED
    BY <2>1, <2>2, <2>3 DEF FlowInv
<1>7. CASE ReadOldestRow
  <2>1. /\ pc = "oldest_row" /\ i' = i /\ hour' = hour
        /\ oldest_calldate' = oldest_calldate
        /\ hour_diff' = t1' - oldest_calldate /\ t1' = OldestRow
        /\ pc' = IF hour_diff' < 1 THEN "done" ELSE "back"
    BY <1>7 DEF ReadOldestRow, HoursBetween
  <2>2. i = 0 /\ hour = NoHour /\ oldest_calldate # NoHour
    BY <1>0, <2>1 DEF FlowInv
  <2>3. oldest_calldate \in Int /\ OldestRow \in Int
    BY <1>0, <2>1, <2>2, HourTypes, OldestRowIsFirst
  <2>4. QED
    BY <2>1, <2>2, <2>3 DEF FlowInv
<1>8. CASE Back
  BY <1>0, <1>8 DEF Back, search, FlowInv, HourBack
<1>9. CASE MarkBack
  <2>1. /\ pc = "back" /\ hour' = NoHour /\ i' = i + 1
        /\ UNCHANGED <<oldest_calldate, t1, hour_diff>>
        /\ \/ pc' = "done"
           \/ i' # hour_diff /\ pc' = "back"
    BY <1>9 DEF MarkBack, search
  <2>2. /\ oldest_calldate # NoHour /\ hour_diff = t1 - oldest_calldate
        /\ i < hour_diff /\ i \in Nat /\ hour_diff \in Int
    BY <1>0, <2>1, HourTypes DEF FlowInv
  <2>3. QED
    BY <2>1, <2>2 DEF FlowInv
<1>10. QED
  BY <1>1, <1>2, <1>3, <1>4, <1>5, <1>6, <1>7, <1>8, <1>9 DEF Next, Control

\* What the run has been through stays finished, and the hour that is marked
\* comes to it unless the mark fails.
LEMMA BehindNext == HoursInv /\ [Next]_vars => Behind'
<1> SUFFICES ASSUME HoursInv, [Next]_vars PROVE Behind'
  OBVIOUS
<1>0. TypeOK /\ RowsInv /\ FlowInv /\ Behind /\ PeriodMoves
  BY PeriodNext DEF HoursInv
<1>a. /\ \A a \in 1..Len(missing) : missing[a].hour \in Hours
      /\ Len(missing) \in Nat /\ i \in Nat /\ t1 \in Nat /\ hour_diff \in Int
      /\ NoHour \notin Int
  BY <1>0, HourTypes
<1>b. \A h \in Hours : period[h] = "finished" => period'[h] = "finished"
  BY <1>0 DEF PeriodMoves
<1>c. ASSUME UNCHANGED <<pc, till, search, i, oldest_calldate>>,
             ~markFailed' => ~markFailed
      PROVE  Behind'
  <2>1. /\ UNCHANGED <<pc, till, t1, missing, i, oldest_calldate>>
        /\ ~markFailed' => ~markFailed
    BY <1>c DEF search
  <2>2. ASSUME pc = "repair", ~markFailed', NEW a \in 1..i
        PROVE  period'[missing[a].hour] = "finished"
    <3>1. a \in 1..Len(missing)
      BY <1>0, <1>a, <2>2 DEF FlowInv
    <3>2. QED
      BY <1>0, <1>a, <1>b, <2>1, <2>2, <3>1 DEF Behind
  <2>3. ASSUME pc \in {"oldest_call", "oldest_row", "back", "done"}, till = NoHour,
               ~markFailed', NEW a \in 1..Len(missing)
        PROVE  period'[missing[a].hour] = "finished"
    BY <1>0, <1>a, <1>b, <2>1, <2>3 DEF Behind
  <2>4. ASSUME pc = "back", ~markFailed', NEW h \in (t1 - i)..(t1 - 1)
        PROVE  period'[h] = "finished"
    <3>1. h \in Hours
      <4>1. oldest_calldate \in Nat /\ i < t1 - oldest_calldate
        BY <1>0, <2>4, HourTypes DEF FlowInv
      <4>2. t1 <= MaxHour /\ MaxHour \in Nat
        BY <1>0, HourTypes
      <4>3. QED
        BY <1>a, <4>1, <4>2 DEF Hours
    <3>2. QED
      BY <1>0, <1>b, <2>1, <2>4, <3>1 DEF Behind
  <2>5. ASSUME pc = "done", till = NoHour, ~markFailed', oldest_calldate # NoHour,
               NEW h \in oldest_calldate..(t1 - 1)
        PROVE  period'[h] = "finished"
    <3>1. h \in Hours
      <4>1. oldest_calldate \in Nat /\ t1 <= MaxHour /\ MaxHour \in Nat
        BY <1>0, <2>5, HourTypes
      <4>2. QED
        BY <1>a, <4>1 DEF Hours
    <3>2. QED
      BY <1>0, <1>b, <2>1, <2>5, <3>1 DEF Behind
  <2>6. QED
    BY <2>1, <2>2, <2>3, <2>4, <2>5 DEF Behind
<1>1. CASE HourPasses \/ Daemon \/ Repair \/ Back \/ UNCHANGED vars
  BY <1>1, <1>c DEF HourPasses, Daemon, StartDaemon, DaemonPolls, DaemonInserts,
     KillDaemon, run, Repair, Back, vars
<1>2. CASE Start \/ Abort \/ CountHours \/ LookUp
  BY <1>2 DEF Start, Abort, CountHours, LookUp, Behind
<1>3. CASE SelectRows
  <2>1. pc = "select" /\ missing' = missing /\ pc' \in {"oldest_call", "clock"}
    BY <1>3 DEF SelectRows
  <2>2. missing = <<>>
    BY <2>1 DEF HoursInv, SearchInv
  <2>3. Len(missing') = 0
    BY <2>1, <2>2
  <2>4. QED
    BY <2>1, <2>3 DEF Behind
<1>4. CASE SearchEnds
  <2>1. /\ missing' = missing /\ i' = 0
        /\ pc' = IF missing = <<>> THEN "oldest_call" ELSE "repair"
    BY <1>4 DEF SearchEnds, search
  <2>2. missing = <<>> => Len(missing') = 0
    BY <2>1
  <2>3. QED
    BY <2>1, <2>2 DEF Behind
<1>5. CASE MarkRepaired
  <2>1. /\ pc = "repair" /\ hour # NoHour /\ hour = missing[i + 1].hour /\ i < Len(missing)
        /\ missing' = missing /\ till' = till
        /\ \/ i' = 0 /\ pc' = "oldest_call" /\ (i + 1 = Len(missing) \/ hour = till)
           \/ i' = i + 1 /\ pc' = "repair"
    BY <1>0, <1>5 DEF MarkRepaired, search, FlowInv
  <2>2. ~markFailed' => ~markFailed /\ period'[hour] = "finished"
    BY <1>0, <1>5, MarkedMoves DEF MarkRepaired
  <2>3. ASSUME ~markFailed', NEW a \in 1..(i + 1)
        PROVE  period'[missing[a].hour] = "finished"
    <3>1. a \in 1..i \/ a = i + 1
      BY <1>a
    <3>2. a \in 1..Len(missing)
      BY <1>a, <2>1
    <3>3. QED
      BY <1>0, <1>a, <1>b, <2>1, <2>2, <2>3, <3>1, <3>2 DEF Behind
  <2>4. QED
    BY <2>1, <2>3 DEF Behind
<1>6. CASE ReadOldestCall
  <2>1. /\ pc = "oldest_call" /\ UNCHANGED <<period, till, missing, markFailed>>
        /\ \/ pc' = "done" /\ oldest_calldate' = NoHour
           \/ pc' = "oldest_row"
    BY <1>6 DEF ReadOldestCall, search
  <2>2. QED
    BY <1>0, <2>1 DEF Behind
<1>7. CASE ReadOldestRow
  <2>1. /\ pc = "oldest_row" /\ UNCHANGED <<period, till, missing, markFailed, i, oldest_calldate>>
        /\ t1' = OldestRow /\ hour_diff' = t1' - oldest_calldate
        /\ pc' = IF hour_diff' < 1 THEN "done" ELSE "back"
    BY <1>7 DEF ReadOldestRow, HoursBetween
  <2>2. i = 0 /\ oldest_calldate \in Int /\ OldestRow \in Int
    BY <1>0, <2>1, HourTypes, OldestRowIsFirst DEF FlowInv
  <2>3. /\ (t1' - i')..(t1' - 1) = {}
        /\ pc' = "done" => oldest_calldate'..(t1' - 1) = {}
    BY <2>1, <2>2
  <2>4. QED
    BY <1>0, <2>1, <2>3 DEF Behind
<1>8. CASE MarkBack
  <2>1. /\ pc = "back" /\ hour # NoHour /\ hour = HourBack /\ i < hour_diff
        /\ oldest_calldate # NoHour /\ hour_diff = t1 - oldest_calldate
        /\ UNCHANGED <<missing, till, t1, oldest_calldate>> /\ i' = i + 1
        /\ \/ pc' = "done" /\ (i' = hour_diff \/ hour = till)
           \/ pc' = "back"
    BY <1>0, <1>8 DEF MarkBack, search, FlowInv
  <2>2. /\ ~markFailed' => ~markFailed /\ period'[hour] = "finished"
    BY <1>0, <1>8, MarkedMoves DEF MarkBack
  <2>3. oldest_calldate \in Nat /\ t1 <= MaxHour /\ MaxHour \in Nat
    BY <1>0, <2>1, HourTypes
  <2>4. ASSUME ~markFailed', NEW h \in (t1 - (i + 1))..(t1 - 1)
        PROVE  period'[h] = "finished"
    <3>1. h \in (t1 - i)..(t1 - 1) \/ h = hour
      BY <1>a, <2>1 DEF HourBack
    <3>2. h \in Hours
      BY <1>a, <2>1, <2>3 DEF Hours
    <3>3. QED
      BY <1>0, <1>b, <2>1, <2>2, <2>4, <3>1, <3>2 DEF Behind
  <2>5. i' = hour_diff => t1 - (i + 1) = oldest_calldate
    BY <1>a, <2>1, <2>3
  <2>6. ASSUME ~markFailed', till = NoHour, NEW a \in 1..Len(missing)
        PROVE  period'[missing[a].hour] = "finished"
    BY <1>0, <1>a, <1>b, <2>1, <2>2, <2>6 DEF Behind
  <2>7. QED
    BY <2>1, <2>4, <2>5, <2>6 DEF Behind
<1>9. QED
  BY <1>1, <1>2, <1>3, <1>4, <1>5, <1>6, <1>7, <1>8 DEF Next, Control

\* Of what the run has before it nothing is finished but by the run itself.
LEMMA AheadNext == HoursInv /\ [Next]_vars => Ahead'
<1> SUFFICES ASSUME HoursInv, [Next]_vars PROVE Ahead'
  OBVIOUS
<1>0. TypeOK /\ RowsInv /\ FlowInv /\ Ahead /\ SearchInv
      /\ (MarkRepaired \/ MarkBack \/ Unmarked) /\ PeriodMoves
  BY PeriodNext DEF HoursInv
<1>a. /\ \A a \in 1..Len(missing) : missing[a].hour \in 0..(now - 1)
      /\ Len(missing) \in Nat /\ i \in Nat /\ t1 \in Nat /\ t1 <= now
      /\ now \in Nat /\ now <= MaxHour /\ MaxHour \in Nat /\ NoHour \notin Int
  BY <1>0, HourTypes
<1>b. \A h \in 0..(now - 1) : h \in Hours /\ h # now
  BY <1>a DEF Hours
<1>c. ASSUME Unmarked, pc' = pc, pc \in {"clock", "search", "repair"},
             NEW h \in 0..(now - 1), period'[h] = "finished", h \notin late'
      PROVE  period[h] = "finished" /\ h \notin late
  BY <1>b, <1>c DEF Unmarked
<1>d. \A h \in 0..(t1 - 1) : h \in 0..(now - 1)
  BY <1>a
\* The daemon and the clock leave the run where it is.
<1>e. ASSUME Unmarked, UNCHANGED <<pc, search, i>>, held' \in {NoHour, held, now},
             held' = now /\ held' # held => now' = now,
             pc = "clock" => now' = now
      PROVE  Ahead'
  <2>1. UNCHANGED <<pc, t1, time_periods, missing, i>>
    BY <1>e DEF search
  <2>2. ASSUME pc \in {"clock", "search"}, NEW n \in {t1, now}, Known(0..(n - 1))
        PROVE  Known(0..(n - 1))'
    <3>1. SUFFICES ASSUME NEW h \in 0..(n - 1), period'[h] = "finished", h \notin late'
                   PROVE  \E j \in 1..Len(time_periods) :
                             time_periods[j].hour = h /\ time_periods[j].finished
      BY <2>1, <2>2 DEF Known
    <3>2. h \in 0..(now - 1)
      BY <1>d
    <3>3. period[h] = "finished" /\ h \notin late
      BY <1>c, <1>e, <2>2, <3>1, <3>2
    <3>4. QED
      BY <2>2, <3>3 DEF Known
  <2>3. ASSUME pc = "repair", NEW a \in (i + 1)..Len(missing)
        PROVE  period'[missing[a].hour] # "finished" \/ missing[a].hour \in late'
    <3>1. a \in 1..Len(missing)
      BY <1>a
    <3>2. QED
      BY <1>0, <1>a, <1>c, <1>e, <2>3, <3>1 DEF Ahead
  <2>4. ASSUME pc = "back", NEW h \in 0..(t1 - 1 - i)
        PROVE  period'[h] # "finished"
    <3>1. h \in 0..(now - 1) /\ h < t1 /\ h \in Int
      BY <1>a
    <3>2. period[h] # "finished" /\ (held # NoHour => held >= t1)
      BY <1>0, <2>4 DEF Ahead
    <3>3. h # held
      BY <1>a, <3>1, <3>2
    <3>4. QED
      BY <1>b, <1>e, <3>1, <3>2, <3>3 DEF Unmarked
  <2>5. pc = "back" => (held' # NoHour => held' >= t1)
    BY <1>0, <1>a, <1>e DEF Ahead
  <2>6. pc = "clock" => Known(0..(now - 1))' /\ now' = now
    <3>1. SUFFICES ASSUME pc = "clock" PROVE Known(0..(now - 1))' /\ now' = now
      OBVIOUS
    <3>2. Known(0..(now - 1)) /\ now' = now
      BY <1>0, <1>e, <3>1 DEF Ahead
    <3>3. QED
      BY <2>2, <3>1, <3>2 DEF Known
  <2>7. pc = "search" => Known(0..(t1 - 1))'
    <3>1. SUFFICES ASSUME pc = "search" PROVE Known(0..(t1 - 1))'
      OBVIOUS
    <3>2. Known(0..(t1 - 1)) /\ t1' = t1
      BY <1>0, <2>1, <3>1 DEF Ahead
    <3>3. QED
      BY <2>2, <3>1, <3>2 DEF Known
  <2>8. QED
    BY <2>1, <2>3, <2>4, <2>5, <2>6, <2>7 DEF Ahead
\* The hour that ends is not finished.
<1>1. CASE HourPasses
  <2>1. now' = now + 1 /\ UNCHANGED <<period, held, late, pc, search, i>>
    BY <1>1 DEF HourPasses, run
  <2>2. Unmarked
    BY <2>1 DEF Unmarked
  <2>3. CASE pc = "clock"
    <3>1. time_periods' = time_periods
      BY <2>1 DEF search
    <3>2. \A h \in 0..(now' - 1) : h \in 0..(now - 1) \/ (h = now /\ h \in Hours)
      BY <1>0, <1>a, <2>1 DEF TypeOK
    <3>3. period[now] # "finished"
      BY <1>0, <1>a DEF RowsInv, TypeOK
    <3>4. Known(0..(now - 1))
      BY <1>0, <2>3 DEF Ahead
    <3>5. Known(0..(now - 1))'
      BY <2>1, <3>1, <3>2, <3>3, <3>4 DEF Known
    <3>6. QED
      BY <2>1, <2>3, <3>5 DEF Ahead
  <2>4. CASE pc # "clock"
    BY <1>a, <1>e, <2>1, <2>2, <2>4
  <2>5. QED
    BY <2>3, <2>4
<1>2. CASE Daemon \/ Repair \/ Back \/ UNCHANGED vars
  <2>1. UNCHANGED <<now, pc, search, i>> /\ held' \in {NoHour, held, now}
    BY <1>2 DEF Daemon, StartDaemon, DaemonPolls, DaemonInserts, KillDaemon, run, Repair,
       Back, vars
  <2>2. Unmarked
    <3>1. CASE Daemon
      BY <1>0, <3>1, DaemonMoves
    <3>2. CASE Repair \/ Back \/ UNCHANGED vars
      BY <1>0, <3>2 DEF Repair, Back, MarkRepaired, MarkBack, vars, run
    <3>3. QED
      BY <1>2, <3>1, <3>2
  <2>3. QED
    BY <1>e, <2>1, <2>2
<1>3. CASE Start \/ Abort \/ ReadOldestCall
  BY <1>3 DEF Start, Abort, ReadOldestCall, Ahead
<1>4. CASE SelectRows
  <2>1. /\ UNCHANGED <<now, period>> /\ pc' \in {"oldest_call", "clock"}
    BY <1>4 DEF SelectRows
  <2> DEFINE H == Rows(0..(now - 1))
  <2>2. PICK s \in Sortings(H) :
           time_periods' = [j \in DOMAIN s |->
                               [hour |-> s[j], finished |-> period[s[j]] = "finished"]]
    BY <1>4 DEF SelectRows
  <2>3. Len(time_periods') \in Nat /\ DOMAIN time_periods' = 1..Len(time_periods')
    <3>1. TypeOK'
      BY TypeNext
    <3>2. QED
      BY <3>1, LenProperties DEF TypeOK
  <2>4. DOMAIN s = 1..Len(time_periods')
    BY <2>2, <2>3
  <2>5. \A h \in H : \E j \in DOMAIN s : s[j] = h
    BY <2>2 DEF Sortings, Bijection, Surjection
  <2>6. ASSUME NEW h \in 0..(now - 1), period[h] = "finished"
        PROVE  \E j \in 1..Len(time_periods') :
                  time_periods'[j].hour = h /\ time_periods'[j].finished
    <3>1. h \in H
      BY <2>6 DEF Rows
    <3>2. PICK j \in DOMAIN s : s[j] = h
      BY <2>5, <3>1
    <3>3. QED
      BY <2>2, <2>4, <2>6, <3>2
  <2>7. Known(0..(now - 1))'
    BY <2>1, <2>6 DEF Known
  <2>8. QED
    BY <2>1, <2>7 DEF Ahead
<1>5. CASE CountHours
  <2>1. /\ pc = "clock" /\ pc' = "search" /\ t1' = now
        /\ UNCHANGED <<period, time_periods, late>>
    BY <1>5 DEF CountHours
  <2>2. QED
    BY <1>0, <2>1 DEF Ahead, Known
<1>6. CASE LookUp
  <2>1. /\ pc = "search" /\ UNCHANGED <<pc, t1, period, time_periods, late>>
    BY <1>6 DEF LookUp
  <2>2. QED
    BY <1>0, <2>1 DEF Ahead, Known
\* An entry is an hour without a row, or with an unfinished one.
<1>7. CASE SearchEnds
  <2>1. /\ pc = "search" /\ pc' \in {"oldest_call", "repair"}
        /\ UNCHANGED <<period, missing, late>>
    BY <1>7 DEF SearchEnds, search
  <2>2. Sorted /\ Bounds /\ Progress
    BY <1>0, <2>1 DEF SearchInv
  <2>3. ASSUME Known(0..(t1 - 1)), NEW a \in 1..Len(missing),
               period[missing[a].hour] = "finished", missing[a].hour \notin late
        PROVE  FALSE
    <3>1. missing[a].hour \in 0..(t1 - 1)
      <4>1. CASE missing[a].hour \in SoFar
        BY <1>a, <4>1 DEF SoFar
      <4>2. ASSUME NEW j \in 1..Len(time_periods),
                   missing[a].hour = time_periods[Counterpart(j)].hour
            PROVE  missing[a].hour \in 0..(t1 - 1)
        <5>1. Counterpart(j) \in 1..Len(time_periods)
          BY <2>2, CounterpartIsPermutation
        <5>2. missing[a].hour < t1
          BY <2>2, <4>2, <5>1 DEF Bounds
        <5>3. QED
          BY <1>a, <5>2
      <4>3. QED
        BY <2>2, <4>1, <4>2 DEF Progress
    <3>2. PICK k \in 1..Len(time_periods) :
             time_periods[k].hour = missing[a].hour /\ time_periods[k].finished
      BY <2>3, <3>1 DEF Known
    <3>3. missing[a].hour \in RowsRead
      BY <2>2, <3>2, CounterpartIsPermutation
    <3>4. PICK j \in 1..Len(time_periods) :
             Due(j) /\ missing[a].hour = time_periods[Counterpart(j)].hour
      BY <2>2, <3>3 DEF Progress
    <3>5. Counterpart(j) = k
      BY <2>2, <3>2, <3>4, CounterpartIsPermutation
    <3>6. QED
      BY <3>2, <3>4, <3>5 DEF Due
  <2>4. (i + 1)'..Len(missing') \subseteq 1..Len(missing)
    BY <1>a, <1>7, <2>1 DEF SearchEnds
  <2>5. QED
    BY <1>0, <2>1, <2>3, <2>4 DEF Ahead
\* The list has each hour once, so that no other entry is marked.
<1>8. CASE MarkRepaired
  <2>1. /\ pc = "repair" /\ hour # NoHour /\ hour = missing[i + 1].hour /\ i < Len(missing)
        /\ missing' = missing /\ pc' \in {"oldest_call", "repair"} /\ ListedOnce
        /\ pc' = "repair" => i' = i + 1
        /\ Marked /\ late' = late
    BY <1>0, <1>8, MarkedMoves DEF MarkRepaired, search, FlowInv
  <2>2. ASSUME NEW a \in (i + 2)..Len(missing),
               period[missing[a].hour] # "finished" \/ missing[a].hour \in late
        PROVE  period'[missing[a].hour] # "finished" \/ missing[a].hour \in late'
    <3>1. a \in 1..Len(missing) /\ i + 1 \in 1..Len(missing) /\ a # i + 1
          /\ a \in (i + 1)..Len(missing)
      BY <1>a, <2>1
    <3>2. missing[a].hour # hour
      BY <2>1, <3>1, <1>0, HourTypes DEF ListedOnce
    <3>3. missing[a].hour \in Hours /\ missing[a].hour # now
      BY <1>a, <1>b, <3>1
    <3>4. period'[missing[a].hour] = period[missing[a].hour]
      BY <1>0, <1>8, <3>2, <3>3, MarkedOnlyHour DEF MarkRepaired
    <3>5. QED
      BY <2>1, <2>2, <3>4
  <2>3. (i + 1) + 1 = i + 2 /\ (i + 2)..Len(missing) \subseteq (i + 1)..Len(missing)
    BY <1>a
  <2>4. QED
    BY <1>0, <2>1, <2>2, <2>3 DEF Ahead
<1>9. CASE ReadOldestRow
  <2>1. /\ pc = "oldest_row" /\ UNCHANGED <<period, held, i>> /\ t1' = OldestRow
        /\ pc' \in {"done", "back"}
    BY <1>9 DEF ReadOldestRow
  <2>2. /\ i = 0 /\ OldestRow \in 0..now /\ \A g \in Rows(Hours) : OldestRow <= g
    BY <1>0, <2>1, OldestRowIsFirst DEF FlowInv
  <2>3. ASSUME NEW h \in 0..(OldestRow - 1)
        PROVE  period[h] # "finished"
    <3>1. h \in Hours /\ ~(OldestRow <= h)
      BY <1>a, <2>2 DEF Hours
    <3>2. h \notin Rows(Hours)
      BY <2>2, <3>1
    <3>3. QED
      BY <3>1, <3>2 DEF Rows
  <2>4. OldestRow - 1 - 0 = OldestRow - 1
    BY <2>2
  <2>5. held # NoHour => held >= OldestRow
    <3>1. held # NoHour => held \in Rows(Hours) /\ held \in 0..now
      BY <1>0, HourTypes DEF RowsInv, Rows
    <3>2. QED
      BY <2>2, <3>1
  <2>6. QED
    BY <2>1, <2>2, <2>3, <2>4, <2>5 DEF Ahead
<1>10. CASE MarkBack
  <2>1. /\ pc = "back" /\ hour # NoHour /\ hour = t1 - 1 - i
        /\ t1' = t1 /\ i' = i + 1 /\ pc' \in {"done", "back"} /\ held' = held /\ Marked
    BY <1>0, <1>10 DEF MarkBack, search, FlowInv, HourBack
  <2>2. ASSUME NEW h \in 0..(t1 - 1 - (i + 1))
        PROVE  period'[h] # "finished"
    <3>1. h \in 0..(t1 - 1 - i) /\ h # hour /\ h \in Hours /\ h # now
      BY <1>a, <2>1 DEF Hours
    <3>2. QED
      BY <1>0, <2>1, <3>1, MarkedOnlyHour DEF Ahead
  <2>3. QED
    BY <1>0, <2>1, <2>2 DEF Ahead
<1>11. QED
  BY <1>1, <1>2, <1>3, <1>4, <1>5, <1>6, <1>7, <1>8, <1>9, <1>10 DEF Next, Control

LEMMA HoursInit == Init => HoursInv
<1> SUFFICES ASSUME Init PROVE HoursInv
  OBVIOUS
<1>1. TypeOK
  BY ConstAssumption DEF ConstAssumption, Init, TypeOK, Hours, States
<1>2. RowsInv /\ FlowInv /\ Behind /\ Ahead
  BY DEF Init, RowsInv, FlowInv, Behind, Ahead, Rows
<1>3. QED
  BY <1>1, <1>2, InitSearch DEF HoursInv

LEMMA HoursInvariant == Spec => []HoursInv
<1>1. HoursInv /\ [Next]_vars => HoursInv'
  BY SearchInvInductive, TypeNext, RowsNext, FlowNext, BehindNext, AheadNext DEF HoursInv
<1>2. QED
  BY <1>1, HoursInit, PTL DEF Spec

\* The variables keep their types.
THEOREM TypeCorrect == Spec => []TypeOK
<1>1. HoursInv => TypeOK
  BY DEF HoursInv
<1>2. QED
  BY <1>1, HoursInvariant, PTL

\* A run of the program that comes to its end undisturbed has finished every
\* hour that it listed and every one between the oldest call and the oldest row.
THEOREM RunsLeaveNoGap == Spec => []FinishedRunLeavesNoGap
<1>1. HoursInv => FinishedRunLeavesNoGap
  BY HourTypes DEF HoursInv, Behind, FinishedRunLeavesNoGap, Listed
<1>2. QED
  BY <1>1, HoursInvariant, PTL

\* The program aggregates no hour that is finished, whoever finished it and
\* whenever, except one that the daemon has marked after the run read its row.
THEOREM FinishedHoursStand == Spec => FinishedHoursAreLeftAlone
<1>1. ASSUME HoursInv, Next, hour' \notin {hour, NoHour}
      PROVE  period[hour'] # "finished" \/ hour' \in late
  <2>1. Repair \/ Back
    BY <1>1 DEF Next, Control, HourPasses, Daemon, StartDaemon, DaemonPolls, DaemonInserts,
       KillDaemon, run, Start, NewProcess, SelectRows, CountHours, LookUp, SearchEnds,
       MarkRepaired, ReadOldestCall, ReadOldestRow, MarkBack, Abort
  <2>2. CASE Repair
    <3>1. pc = "repair" /\ hour' = missing[i + 1].hour /\ i < Len(missing)
      BY <1>1, <2>2 DEF Repair, HoursInv, FlowInv
    <3>2. i + 1 \in (i + 1)..Len(missing)
      BY <1>1, <3>1, HourTypes DEF HoursInv
    <3>3. QED
      BY <1>1, <3>1, <3>2 DEF HoursInv, Ahead
  <2>3. CASE Back
    <3>1. pc = "back" /\ hour' = t1 - 1 - i /\ i < t1 - oldest_calldate
          /\ oldest_calldate # NoHour
      BY <1>1, <2>3 DEF Back, HoursInv, FlowInv, HourBack
    <3>2. t1 - 1 - i \in 0..(t1 - 1 - i)
      BY <1>1, <3>1, HourTypes DEF HoursInv
    <3>3. QED
      BY <1>1, <3>1, <3>2 DEF HoursInv, Ahead
  <2>4. QED
    BY <2>1, <2>2, <2>3
<1>2. HoursInv /\ [Next]_vars =>
         [hour' \notin {hour, NoHour} =>
             period[hour'] # "finished" \/ hour' \in late]_vars
  BY <1>1
<1>3. QED
  BY <1>2, HoursInvariant, PTL DEF Spec, FinishedHoursAreLeftAlone
=============================================================================
