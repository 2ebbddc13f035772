-------------------------- MODULE AutoDialer_proofs --------------------------
(***************************************************************************)
(* For any number of runs, campaigns, numbers and faults: a number that is *)
(* not new has been dialled or is about to be, and a number is dialled     *)
(* once and once more only for a reason.                                   *)
(*                                                                         *)
(* The first follows the call file: as long as no two runs make it at the  *)
(* same moment, the one that has opened it finds it in /tmp until it moves *)
(* it itself.  The second weighs a row: what has been dialled, what lies   *)
(* in the spool directory and in /tmp, and the runs that have yet to write *)
(* a file for it.  A step adds to the weight only when a run selects the   *)
(* row.                                                                    *)
(***************************************************************************)
EXTENDS AutoDialer, FiniteSetTheorems, TLAPS

Runs == [pc : {"off", "get", "write", "touch", "move", "record"}, campaigns : SUBSET Campaigns, limit : Int,
         rows : SUBSET Rows, row : Rows \cup {<<>>}]

Streams == [Crons -> {"none", "tmp", "spool"}]

\* A run that is off has no rows, and one that dials a number has its row.
Formed(r) ==
    /\ r \in Runs
    /\ r.pc = "off" => r.rows = {}
    /\ r.pc \in {"write", "touch", "move", "record"} => r.row \in r.rows

\* A call file with a text is for a row.
FilesTyped(dir) ==
    /\ dir \in [Numbers -> Campaigns \cup {NoFile, Empty}]
    /\ \A n \in Numbers : dir[n] \in Campaigns => <<dir[n], n>> \in Rows

Typed ==
    /\ status \in [Rows -> {"new", "executed", "completed"}]
    /\ FilesTyped(tmp) /\ FilesTyped(spool)
    /\ stream \in Streams
    /\ cron \in [Crons -> Runs]
    /\ \A k \in Crons : Formed(cron[k])
    /\ calling \subseteq Rows
    /\ dialled \in [Rows -> Nat] /\ again \in [Rows -> Nat]

Moves(k, r) == cron' = [cron EXCEPT ![k] = r]

\* A row has been dialled or its file waits to be.
Sent(row) == dialled[row] > 0 \/ Spooled(row)

\* The file of the row is in /tmp.
Written(row) == tmp[NumberOf(row)] = CampaignOf(row)

\* Rows that no other campaign shares, whose file was written and moved, by one run
\* at a time.
Single(row) == row \notin failed \cup crossed /\ ~Shared(NumberOf(row))

TakenOf(row) ==
    /\ status[row] # "new" => Sent(row)
    /\ \A k \in Crons : cron[k].row = row /\ cron[k].pc = "record" => Sent(row)
    /\ \A k \in Crons : Makes(k, row) /\ cron[k].pc = "write" => stream[k] = "tmp"
    /\ \A k \in Crons : Makes(k, row) /\ cron[k].pc # "write" => Written(row)
    /\ \A j, k \in Crons : Makes(j, row) /\ Makes(k, row) => j = k

TakenInv ==
    /\ \A row \in Rows : Single(row) => TakenOf(row)
    /\ \A row \in calling : dialled[row] > 0

\* Whether a run has yet to write a file for the row.
Takes(r, row) == row \in r.rows /\ (r.pc \in {"get", "write"} \/ r.row # row)

Taking(row) == {k \in Crons : Takes(cron[k], row)}

Unit(b) == IF b THEN 1 ELSE 0

Weight(row) ==
    dialled[row] + Unit(Spooled(row)) + Unit(Written(row)) + Cardinality(Taking(row))

ReasonOf(row) ==
    /\ Weight(row) <= 1 + again[row]
    /\ status[row] = "new" /\ ~InHand(row) => Weight(row) <= again[row]

ReasonInv == \A row \in Rows : ReasonOf(row)

DInv == Typed /\ TakenInv /\ ReasonInv

-----------------------------------------------------------------------------
\* A row is a campaign and a number.
LEMMA RowIs ==
  ASSUME DialerAssumption
  PROVE  /\ \A row \in Rows : /\ CampaignOf(row) \in Campaigns /\ NumberOf(row) \in Numbers
                              /\ row = <<CampaignOf(row), NumberOf(row)>>
                              /\ CampaignOf(row) \notin {NoFile, Empty}
         /\ \A c \in Campaigns, n \in Numbers :
              CampaignOf(<<c, n>>) = c /\ NumberOf(<<c, n>>) = n
BY DEF DialerAssumption, CampaignOf, NumberOf

\* A run that moves is formed as before.
LEMMA MovedTyped ==
  ASSUME Typed, NEW k \in Crons, NEW r, Formed(r), Moves(k, r)
  PROVE  /\ cron' \in [Crons -> Runs]
         /\ \A j \in Crons : cron'[j] = IF j = k THEN r ELSE cron[j]
         /\ \A j \in Crons : Formed(cron'[j])
<1>1. cron' \in [Crons -> Runs] /\ \A j \in Crons : cron'[j] = IF j = k THEN r ELSE cron[j]
  BY DEF Typed, Formed, Moves
<1> QED
  BY <1>1 DEF Typed

\* The row of a call file.
LEMMA FileOf ==
  ASSUME DialerAssumption, NEW dir, FilesTyped(dir), NEW n \in Numbers, dir[n] \in Campaigns
  PROVE  /\ <<dir[n], n>> \in Rows
         /\ CampaignOf(<<dir[n], n>>) = dir[n] /\ NumberOf(<<dir[n], n>>) = n
BY DEF FilesTyped, CampaignOf, NumberOf

\* A row that shares no number is the only one with its number.
LEMMA Alone ==
  ASSUME NEW row \in Rows, ~Shared(NumberOf(row)), NEW other \in Rows,
         NumberOf(other) = NumberOf(row)
  PROVE  other = row
BY DEF Shared

\* The weight of a row is a number.
LEMMA Numbered ==
  ASSUME DialerAssumption, Typed, NEW row \in Rows
  PROVE  /\ dialled[row] \in Nat /\ again[row] \in Nat
         /\ Cardinality(Taking(row)) \in Nat
<1>1. IsFiniteSet(Taking(row))
  BY FS_Subset DEF DialerAssumption, Taking
<1> QED
  BY <1>1, FS_CardinalityType DEF Typed

\* How the runs that have yet to write a file for a row change with one run.
LEMMA Counting ==
  ASSUME DialerAssumption, Typed, NEW k \in Crons, NEW r, Formed(r), Moves(k, r),
         NEW row \in Rows
  PROVE  LET is == Takes(cron[k], row)
             be == Takes(r, row)
             c == Cardinality(Taking(row))
             d == Cardinality(Taking(row)')
         IN  /\ c \in Nat /\ d \in Nat
             /\ is /\ ~be => d = c - 1
             /\ ~is /\ be => d = c + 1
             /\ (is <=> be) => d = c
<1> DEFINE is == Takes(cron[k], row)
           be == Takes(r, row)
           C == Taking(row)
           D == Taking(row)'
<1>1. C \in SUBSET Crons /\ D \in SUBSET Crons
  BY DEF Taking
<1>2. IsFiniteSet(C) /\ IsFiniteSet(D)
  BY <1>1, FS_Subset DEF DialerAssumption
<1>3. Cardinality(C) \in Nat /\ Cardinality(D) \in Nat
  BY <1>2, FS_CardinalityType
<1>4. k \in C <=> is
  BY DEF Taking
<1>5. \A j \in Crons : cron'[j] = IF j = k THEN r ELSE cron[j]
  BY MovedTyped
<1>6. \A j \in Crons : j \in D <=> IF j = k THEN be ELSE j \in C
  BY <1>5 DEF Taking, Takes
<1>7. CASE is /\ ~be
  <2>1. D = C \ {k}
    BY <1>1, <1>6, <1>7
  <2>2. Cardinality(C \ {k}) = Cardinality(C) - 1
    BY <1>2, <1>4, <1>7, FS_RemoveElement
  <2> QED
    BY <2>1, <2>2, <1>3, <1>7
<1>8. CASE ~is /\ be
  <2>1. D = C \cup {k}
    BY <1>1, <1>6, <1>8
  <2>2. Cardinality(C \cup {k}) = Cardinality(C) + 1
    BY <1>2, <1>4, <1>8, FS_AddElement
  <2> QED
    BY <2>1, <2>2, <1>3, <1>8
<1>9. CASE is <=> be
  <2>1. D = C
    BY <1>1, <1>4, <1>6, <1>9
  <2> QED
    BY <2>1, <1>3, <1>9
<1> QED
  BY <1>3, <1>7, <1>8, <1>9

-----------------------------------------------------------------------------
\* A row stays in hand unless the run that moves lets go of it.
LEMMA HandKept ==
  ASSUME Typed, NEW k \in Crons, NEW r, Formed(r), Moves(k, r), NEW row \in Rows,
         row \in cron[k].rows => row \in r.rows
  PROVE  InHand(row) => InHand(row)'
<1>1. \A j \in Crons : cron'[j] = IF j = k THEN r ELSE cron[j]
  BY MovedTyped
<1> QED
  BY <1>1 DEF InHand

\* A step that adds nothing to the weight of a row keeps it accounted for, if it
\* keeps the row in hand, or makes it lighter, or gives a reason.
LEMMA Lighter ==
  ASSUME DialerAssumption, Typed, Typed', NEW row \in Rows, ReasonOf(row),
         Weight(row)' <= Weight(row), again'[row] >= again[row],
         status'[row] = "new" /\ ~InHand(row)' =>
            \/ status[row] = "new" /\ ~InHand(row)
            \/ Weight(row)' < Weight(row)
            \/ again'[row] > again[row]
  PROVE  ReasonOf(row)'
<1>1. /\ dialled[row] \in Nat /\ again[row] \in Nat /\ Cardinality(Taking(row)) \in Nat
      /\ dialled'[row] \in Nat /\ again'[row] \in Nat /\ Cardinality(Taking(row)') \in Nat
  <2>1. IsFiniteSet(Taking(row)')
    BY FS_Subset DEF DialerAssumption, Taking
  <2>2. Cardinality(Taking(row)') \in Nat
    BY <2>1, FS_CardinalityType
  <2> QED
    BY <2>2, Numbered DEF Typed
<1>2. Weight(row) \in Nat /\ Weight(row)' \in Nat
  BY <1>1 DEF Weight, Unit
<1> QED
  BY <1>1, <1>2 DEF ReasonOf

\* A step of a run that touches no file and is not at one afterwards.
LEMMA QuietKept ==
  ASSUME DInv, NEW k \in Crons, NEW r, Formed(r), Moves(k, r), r.pc \in {"off", "get"},
         UNCHANGED <<status, tmp, spool, calling, dialled, failed, crossed>>,
         stream' \in Streams, \A j \in Crons : j # k => stream'[j] = stream[j],
         again' \in [Rows -> Nat], ReasonInv'
  PROVE  DInv'
<1>1. \A j \in Crons : cron'[j] = IF j = k THEN r ELSE cron[j]
  BY MovedTyped DEF DInv
<1>2. Typed'
  BY MovedTyped DEF DInv, Typed, FilesTyped
<1>3. ASSUME NEW row \in Rows, Single(row)' PROVE TakenOf(row)'
  <2>1. Single(row) /\ TakenOf(row)
    BY <1>3 DEF Single, DInv, TakenInv
  <2>2. (Sent(row)' <=> Sent(row)) /\ (Written(row)' <=> Written(row))
    BY DEF Sent, Spooled, Written
  <2>3. \A j \in Crons : Makes(j, row)' => j # k /\ Makes(j, row) /\ cron'[j] = cron[j]
    BY <1>1 DEF Makes
  <2>4. \A j \in Crons : cron'[j].pc = "record" => cron'[j] = cron[j]
    BY <1>1
  <2> QED
    BY <2>1, <2>2, <2>3, <2>4 DEF TakenOf
<1>4. TakenInv'
  BY <1>3 DEF DInv, TakenInv
<1> QED
  BY <1>2, <1>4 DEF DInv

\* The same when the rows that the run has to write files for are fewer.
LEMMA DropKept ==
  ASSUME DialerAssumption, DInv, NEW k \in Crons, NEW r, Formed(r), Moves(k, r),
         r.pc \in {"off", "get"},
         UNCHANGED <<status, tmp, spool, calling, dialled, failed, crossed>>,
         stream' \in Streams, \A j \in Crons : j # k => stream'[j] = stream[j],
         again' \in [Rows -> Nat],
         \A row \in Rows : /\ Takes(r, row) => Takes(cron[k], row)
                           /\ again'[row] >= again[row]
                           /\ \/ row \in cron[k].rows => row \in r.rows
                              \/ Takes(cron[k], row) /\ ~Takes(r, row)
                              \/ again'[row] > again[row]
  PROVE  DInv'
<1>1. Typed'
  BY MovedTyped DEF DInv, Typed, FilesTyped
<1>2. ASSUME NEW row \in Rows PROVE ReasonOf(row)'
  <2>1. /\ dialled'[row] = dialled[row]
        /\ Spooled(row)' <=> Spooled(row)
        /\ Written(row)' <=> Written(row)
    BY DEF Spooled, Written
  <2>2. dialled[row] \in Nat /\ again[row] \in Nat
    BY DEF DInv, Typed
  <2>3. /\ Weight(row)' <= Weight(row)
        /\ Takes(cron[k], row) /\ ~Takes(r, row) => Weight(row)' < Weight(row)
    BY <2>1, <2>2, Counting DEF DInv, Weight, Unit
  <2>4. (row \in cron[k].rows => row \in r.rows) => (InHand(row) => InHand(row)')
    BY HandKept DEF DInv
  <2> QED
    BY <1>1, <2>3, <2>4, Lighter DEF DInv, ReasonInv
<1> QED
  BY <1>2, QuietKept DEF ReasonInv

LEMMA GetCampaignsKept ==
  ASSUME DialerAssumption, DInv, NEW k \in Crons, GetCampaigns(k)
  PROVE  DInv'
<1>1. PICK active \in (SUBSET Campaigns) \ {{}} :
         cron' = [cron EXCEPT ![k] = [Off EXCEPT !.pc = "get", !.campaigns = active,
                                        !.limit = Share(active)]]
  BY DEF GetCampaigns
<1>2. PICK limit \in Int : limit = Share(active)
  <2>1. IsFiniteSet(active)
    BY FS_Subset DEF DialerAssumption
  <2>2. Cardinality(active) \in Nat \ {0}
    BY <2>1, FS_CardinalityType, FS_EmptySet
  <2> QED
    BY <2>2 DEF DialerAssumption, Share
<1> DEFINE r == [Off EXCEPT !.pc = "get", !.campaigns = active, !.limit = Share(active)]
<1>3. Moves(k, r)
  BY <1>1 DEF Moves
<1>4. Formed(r) /\ r.rows = {} /\ r.pc = "get"
  BY <1>2 DEF Formed, Runs, Off
<1> HIDE DEF r
<1>5. cron[k].rows = {} /\ again' = again
  BY DEF GetCampaigns, At, DInv, Typed, Formed, history
<1>6. \A row \in Rows : ~Takes(r, row) /\ row \notin cron[k].rows
  BY <1>4, <1>5 DEF Takes
<1>7. again \in [Rows -> Nat]
  BY DEF DInv, Typed
<1>8. UNCHANGED <<status, tmp, spool, stream, calling, dialled, failed, crossed>>
  BY DEF GetCampaigns, files, history
<1>9. stream' \in Streams /\ \A j \in Crons : stream'[j] = stream[j]
  BY <1>8 DEF DInv, Typed
<1> QED
  BY <1>3, <1>4, <1>5, <1>6, <1>7, <1>8, <1>9, DropKept

LEMMA GetNumbersKept ==
  ASSUME DialerAssumption, DInv, NEW k \in Crons, NEW c \in Campaigns, GetNumbers(k, c)
  PROVE  DInv'
<1>1. PICK rows \in SUBSET Rows :
        /\ Selects(c, cron[k].limit, rows)
        /\ cron' = [cron EXCEPT ![k].campaigns = @ \ {c}, ![k].rows = @ \cup rows,
                                ![k].limit = IF cron[k].campaigns = {c} THEN 0 ELSE @]
        /\ again' = [row \in Rows |-> again[row] + IF row \in rows /\ InHand(row) THEN 1 ELSE 0]
  BY DEF GetNumbers
<1>2. cron \in [Crons -> Runs] /\ cron[k] \in Runs /\ cron[k].pc = "get"
  BY DEF DInv, Typed, GetNumbers, At
<1>2a. PICK limit \in Int : limit = IF cron[k].campaigns = {c} THEN 0 ELSE cron[k].limit
  BY <1>2 DEF Runs
<1> DEFINE r == [cron[k] EXCEPT !.campaigns = @ \ {c}, !.rows = @ \cup rows, !.limit = limit]
<1>3. Moves(k, r)
  BY <1>1, <1>2, <1>2a DEF Moves
<1>4. Formed(r) /\ r.pc = "get" /\ r.rows = cron[k].rows \cup rows
  BY <1>2, <1>2a DEF Formed, Runs
<1> HIDE DEF r
<1>5. UNCHANGED <<status, tmp, spool, stream, calling, dialled, failed, crossed>>
  BY DEF GetNumbers, files
<1>5a. stream' \in Streams /\ \A j \in Crons : stream'[j] = stream[j]
  BY <1>5 DEF DInv, Typed
<1>6. again' \in [Rows -> Nat]
  BY <1>1 DEF DInv, Typed
<1>7. Typed'
  BY <1>3, <1>4, <1>5, <1>6, MovedTyped DEF DInv, Typed, FilesTyped
<1>8. \A row \in rows : status[row] = "new"
  BY <1>1 DEF Selects, NewRows
<1>9. ASSUME NEW row \in Rows PROVE ReasonOf(row)'
  <2>1. /\ dialled'[row] = dialled[row]
        /\ Spooled(row)' <=> Spooled(row)
        /\ Written(row)' <=> Written(row)
        /\ dialled[row] \in Nat /\ again[row] \in Nat
    BY <1>5 DEF Spooled, Written, DInv, Typed
  <2>2. InHand(row) => InHand(row)'
    BY <1>3, <1>4, HandKept DEF DInv
  <2>3. CASE row \notin rows
    <3>1. Takes(r, row) <=> Takes(cron[k], row)
      BY <1>2, <1>4, <2>3 DEF Takes
    <3>2. Weight(row)' = Weight(row)
      BY <1>3, <1>4, <2>1, <3>1, Counting DEF DInv, Weight, Unit
    <3>3. again'[row] = again[row]
      BY <1>1, <2>1, <2>3
    <3>4. Weight(row) \in Nat
      BY <2>1, Numbered DEF DInv, Weight, Unit
    <3> QED
      BY <1>5, <1>7, <2>1, <2>2, <3>2, <3>3, <3>4, Lighter DEF DInv, ReasonInv
  <2>4. CASE row \in rows
    <3>1. Weight(row) \in Nat
      BY <2>1, Numbered DEF DInv, Weight, Unit
    <3>2. Weight(row)' \in Nat /\ Weight(row)' <= Weight(row) + 1
      BY <1>3, <1>4, <2>1, Counting DEF DInv, Weight, Unit
    <3>3. again'[row] = again[row] + IF InHand(row) THEN 1 ELSE 0
      BY <1>1, <2>4
    <3>4. InHand(row)'
      <4>1. cron'[k] = r
        BY <1>3, <1>4, MovedTyped DEF DInv
      <4> QED
        BY <1>4, <2>4, <4>1 DEF InHand
    <3>5. ReasonOf(row) /\ status[row] = "new"
      BY <1>8, <2>4 DEF DInv, ReasonInv
    <3> QED
      BY <2>1, <3>1, <3>2, <3>3, <3>4, <3>5 DEF ReasonOf
  <2> QED
    BY <2>3, <2>4
<1> QED
  BY <1>3, <1>4, <1>5, <1>5a, <1>6, <1>9, QuietKept DEF ReasonInv

LEMMA GetFailsKept ==
  ASSUME DialerAssumption, DInv, NEW k \in Crons, NEW c \in Campaigns, GetFails(k, c)
  PROVE  DInv'
<1>1. cron \in [Crons -> Runs] /\ cron[k] \in Runs /\ cron[k].pc = "get"
  BY DEF DInv, Typed, GetFails, At
<1> DEFINE r == [cron[k] EXCEPT !.campaigns = @ \ {c}]
<1>2. Moves(k, r)
  BY <1>1 DEF GetFails, Moves
<1>3. Formed(r) /\ r.pc = "get" /\ r.rows = cron[k].rows
  BY <1>1 DEF Formed, Runs
<1> HIDE DEF r
<1>4. UNCHANGED <<status, tmp, spool, stream, calling, dialled, again, failed, crossed>>
  BY DEF GetFails, files, history
<1>4a. stream' \in Streams /\ \A j \in Crons : stream'[j] = stream[j]
  BY <1>4 DEF DInv, Typed
<1>5. again \in [Rows -> Nat] /\ \A row \in Rows : again[row] >= again[row]
  BY DEF DInv, Typed
<1>6. \A row \in Rows : Takes(r, row) => Takes(cron[k], row)
  BY <1>1, <1>3 DEF Takes
<1> QED
  BY <1>2, <1>3, <1>4, <1>4a, <1>5, <1>6, DropKept

LEMMA FinishKept ==
  ASSUME DialerAssumption, DInv, NEW k \in Crons, Finish(k)
  PROVE  DInv'
<1>1. Moves(k, Off) /\ cron[k].rows = {} /\ Off.pc = "off" /\ Off.rows = {}
  BY DEF Finish, Moves, Off
<1>2. Formed(Off)
  BY DEF Formed, Runs, Off
<1>3. UNCHANGED <<status, tmp, spool, stream, calling, dialled, again, failed, crossed>>
  BY DEF Finish, files, history
<1>3a. stream' \in Streams /\ \A j \in Crons : stream'[j] = stream[j]
  BY <1>3 DEF DInv, Typed
<1>4. again \in [Rows -> Nat] /\ \A row \in Rows : again[row] >= again[row]
  BY DEF DInv, Typed
<1>5. \A row \in Rows : ~Takes(Off, row) /\ row \notin cron[k].rows
  BY <1>1 DEF Takes
<1> QED
  BY <1>1, <1>2, <1>3, <1>3a, <1>4, <1>5, DropKept

LEMMA KillKept ==
  ASSUME DialerAssumption, DInv, NEW k \in Crons, Kill(k)
  PROVE  DInv'
<1>1. Moves(k, Off) /\ Off.pc = "off" /\ Off.rows = {} /\ Formed(Off)
  BY DEF Kill, Moves, Off, Formed, Runs
<1>2. UNCHANGED <<status, tmp, spool, calling, dialled, failed, crossed>>
  BY DEF Kill
<1>2a. stream' \in Streams /\ \A j \in Crons : j # k => stream'[j] = stream[j]
  BY DEF Kill, DInv, Typed, Streams
<1>3. /\ again \in [Rows -> Nat] /\ Formed(cron[k])
      /\ cron[k].pc \in {"get", "write", "touch", "move", "record"}
  BY DEF DInv, Typed, Formed, Runs, Kill, At
<1>4. again' = IF cron[k].pc \in {"touch", "move", "record"}
                 THEN [again EXCEPT ![cron[k].row] = @ + 1] ELSE again
  BY DEF Kill, At
<1>5. /\ again' \in [Rows -> Nat]
      /\ \A row \in Rows : again'[row] >= again[row]
      /\ cron[k].pc \in {"touch", "move", "record"} => again'[cron[k].row] > again[cron[k].row]
  BY <1>3, <1>4 DEF Formed, Runs
<1>6. \A row \in Rows : ~Takes(Off, row)
  BY <1>1 DEF Takes
<1>7. \A row \in Rows : row \in cron[k].rows => Takes(cron[k], row) \/ again'[row] > again[row]
  BY <1>3, <1>5 DEF Takes
<1> QED
  BY <1>1, <1>2, <1>2a, <1>5, <1>6, <1>7, DropKept


\* What is to be shown of a step of a run that moves or writes a call file.
LEMMA FileKept ==
  ASSUME DialerAssumption, DInv, NEW k \in Crons, NEW r, Formed(r), Moves(k, r),
         FilesTyped(tmp)', FilesTyped(spool)', stream' \in Streams,
         UNCHANGED <<status, calling, dialled, again>>,
         TakenInv', r.rows = cron[k].rows,
         \A row \in Rows :
            Unit(Spooled(row)') + Unit(Written(row)') + Unit(Takes(r, row))
              <= Unit(Spooled(row)) + Unit(Written(row)) + Unit(Takes(cron[k], row))
  PROVE  DInv'
<1>1. Typed'
  BY MovedTyped DEF DInv, Typed
<1>2. ASSUME NEW row \in Rows PROVE ReasonOf(row)'
  <2>1. dialled'[row] = dialled[row] /\ dialled[row] \in Nat /\ again[row] \in Nat
    BY DEF DInv, Typed
  <2>2. Weight(row)' <= Weight(row)
    BY <2>1, Counting DEF DInv, Weight, Unit
  <2>3. InHand(row) => InHand(row)'
    BY HandKept DEF DInv
  <2> QED
    BY <1>1, <2>1, <2>2, <2>3, Lighter DEF DInv, ReasonInv
<1> QED
  BY <1>1, <1>2 DEF DInv, ReasonInv

\* The row that is next is one of the rows of the run.
LEMMA NextIsOne ==
  ASSUME NEW k, NEW row, IsNext(k, row)
  PROVE  row \in cron[k].rows
<1> DEFINE rows == cron[k].rows
           c == Foremost({CampaignOf(r) : r \in rows})
           S == {r \in rows : CampaignOf(r) = c}
<1>1. rows # {} /\ row = Foremost(S)
  BY DEF IsNext
<1>2. \A X : X # {} => Foremost(X) \in X
  BY DEF Foremost
<1>3. c \in {CampaignOf(r) : r \in rows}
  <2>1. PICK C : C = {CampaignOf(r) : r \in rows}
    OBVIOUS
  <2>2. C # {}
    BY <1>1, <2>1
  <2> QED
    BY <1>2, <2>1, <2>2
<1>4. S # {}
  BY <1>3
<1> QED
  BY <1>1, <1>2, <1>4

\* A run in the middle of a call file goes on to its next step.
LEMMA OnTyped ==
  ASSUME DInv, NEW k \in Crons, cron[k].pc \in {"write", "touch", "move"},
         NEW pc \in {"touch", "move", "record"}, cron' = [cron EXCEPT ![k].pc = pc]
  PROVE  \E r : /\ Formed(r) /\ Moves(k, r)
                /\ r.pc = pc /\ r.row = cron[k].row /\ r.rows = cron[k].rows
<1>1. cron \in [Crons -> Runs] /\ Formed(cron[k])
  BY DEF DInv, Typed
<1> DEFINE r == [cron[k] EXCEPT !.pc = pc]
<1>2. Moves(k, r)
  BY <1>1 DEF Moves
<1>3. Formed(r) /\ r.pc = pc /\ r.row = cron[k].row /\ r.rows = cron[k].rows
  BY <1>1 DEF Formed, Runs
<1> HIDE DEF r
<1> QED
  BY <1>2, <1>3

\* The open files after a file has gone, and before another comes in its place.
LEMMA FollowedTyped ==
  ASSUME Typed, NEW n
  PROVE  /\ Follow(n, [tmp |-> "tmp", spool |-> "none"]) \in Streams
         /\ Follow(n, [tmp |-> "spool", spool |-> "none"]) \in Streams
         /\ \A j \in Crons : stream[j] = "tmp" =>
              Follow(n, [tmp |-> "tmp", spool |-> "none"])[j] = "tmp"
         /\ \A j \in Crons : NumberOf(cron[j].row) # n =>
              Follow(n, [tmp |-> "spool", spool |-> "none"])[j] = stream[j]
<1>1. \A j \in Crons : stream[j] \in {"none", "tmp", "spool"}
  BY DEF Typed, Streams
<1> QED
  BY <1>1 DEF Follow, Streams

\* A step of a run at the call file of a row disturbs no other row that is single.
LEMMA MakerKept ==
  ASSUME DialerAssumption, DInv, NEW k \in Crons, NEW r, Formed(r), Moves(k, r),
         NEW w \in Rows, r.row = w,
         UNCHANGED <<status, calling, dialled>>,
         failed \subseteq failed', crossed \subseteq crossed',
         \A m \in Numbers : m # NumberOf(w) => tmp'[m] = tmp[m] /\ spool'[m] = spool[m],
         \A j \in Crons : j # k /\ NumberOf(cron[j].row) # NumberOf(w) => stream'[j] = stream[j],
         Single(w)' => TakenOf(w)'
  PROVE  TakenInv'
<1>1. \A j \in Crons : cron'[j] = IF j = k THEN r ELSE cron[j]
  BY MovedTyped DEF DInv
<1>2. ASSUME NEW row \in Rows, Single(row)', row # w PROVE TakenOf(row)'
  <2>1. Single(row) /\ TakenOf(row)
    BY <1>2 DEF Single, DInv, TakenInv
  <2>2. NumberOf(row) # NumberOf(w) /\ NumberOf(row) \in Numbers
    BY <1>2, <2>1, Alone, RowIs DEF Single
  <2>3. (Sent(row)' <=> Sent(row)) /\ (Written(row)' <=> Written(row))
    BY <2>2 DEF Sent, Spooled, Written
  <2>4. \A j \in Crons : cron'[j].row = row =>
           j # k /\ cron'[j] = cron[j] /\ stream'[j] = stream[j]
    BY <1>1, <1>2, <2>2
  <2>5. \A j \in Crons : Makes(j, row)' => Makes(j, row) /\ cron'[j] = cron[j]
                                           /\ stream'[j] = stream[j]
    BY <2>4 DEF Makes
  <2> QED
    BY <2>1, <2>3, <2>4, <2>5 DEF TakenOf
<1> QED
  BY <1>2 DEF DInv, TakenInv

LEMMA OpenFileKept ==
  ASSUME DialerAssumption, DInv, NEW k \in Crons, NEW w \in Rows, OpenFile(k, w)
  PROVE  DInv'
<1>1. cron \in [Crons -> Runs] /\ cron[k] \in Runs /\ cron[k].pc = "get" /\ w \in cron[k].rows
  <2>1. At(k, "get") /\ w \in cron[k].rows
    BY NextIsOne DEF OpenFile
  <2> QED
    BY <2>1 DEF DInv, Typed, At
<1> DEFINE r == [cron[k] EXCEPT !.pc = "write", !.row = w]
<1>2. Moves(k, r)
  BY <1>1 DEF OpenFile, Moves
<1>3. Formed(r) /\ r.pc = "write" /\ r.row = w /\ r.rows = cron[k].rows
  BY <1>1 DEF Formed, Runs
<1> HIDE DEF r
<1>4. /\ UNCHANGED <<status, spool, calling, dialled, again, failed>>
      /\ crossed' = IF \E j \in Crons : Makes(j, w) THEN crossed \cup {w} ELSE crossed
  BY DEF OpenFile
<1>5. CampaignOf(w) \notin {NoFile, Empty} /\ NumberOf(w) \in Numbers
  BY RowIs
<1>6. /\ FilesTyped(tmp) /\ FilesTyped(spool)
      /\ tmp' \in [Numbers -> Campaigns \cup {NoFile, Empty}]
      /\ \A n \in Numbers : tmp'[n] = IF n = NumberOf(w) THEN Empty ELSE tmp[n]
  BY <1>5 DEF OpenFile, DInv, Typed, FilesTyped
<1>7. FilesTyped(tmp)' /\ FilesTyped(spool)'
  BY <1>4, <1>6 DEF FilesTyped, DialerAssumption
<1>8. /\ stream' \in Streams /\ stream'[k] = "tmp"
      /\ \A j \in Crons : j # k => stream'[j] = stream[j]
  BY DEF OpenFile, DInv, Typed, Streams
<1>9. \A j \in Crons : cron'[j] = IF j = k THEN r ELSE cron[j]
  BY <1>2, <1>3, MovedTyped DEF DInv
<1>10. ASSUME Single(w)' PROVE TakenOf(w)'
  <2>1. \A j \in Crons : ~Makes(j, w)
    BY <1>4, <1>10 DEF Single
  <2>2. Single(w) /\ TakenOf(w)
    BY <1>4, <1>10 DEF Single, DInv, TakenInv
  <2>3. Sent(w)' <=> Sent(w)
    BY <1>4 DEF Sent, Spooled
  <2>4. \A j \in Crons : Makes(j, w)' => j = k
    BY <1>9, <2>1 DEF Makes
  <2>5. \A j \in Crons : cron'[j].pc = "record" => cron'[j] = cron[j]
    BY <1>3, <1>9
  <2> QED
    BY <1>3, <1>4, <1>8, <1>9, <2>2, <2>3, <2>4, <2>5 DEF TakenOf
<1>11. TakenInv'
  BY <1>2, <1>3, <1>4, <1>6, <1>8, <1>10, MakerKept
<1>12. \A row \in Rows :
         Unit(Spooled(row)') + Unit(Written(row)') + Unit(Takes(r, row))
           <= Unit(Spooled(row)) + Unit(Written(row)) + Unit(Takes(cron[k], row))
  <2>1. ASSUME NEW row \in Rows
        PROVE  /\ Spooled(row)' <=> Spooled(row)
               /\ Written(row)' => Written(row)
               /\ Takes(r, row) <=> Takes(cron[k], row)
    <3>1. NumberOf(row) \in Numbers /\ CampaignOf(row) \notin {NoFile, Empty}
      BY RowIs
    <3> QED
      BY <1>1, <1>3, <1>4, <1>6, <3>1 DEF Spooled, Written, Takes
  <2> QED
    BY <2>1 DEF Unit
<1> QED
  BY <1>2, <1>3, <1>4, <1>7, <1>8, <1>11, <1>12, FileKept

\* The text of a file after a run has written to it: the new one, or the campaign
\* that was there.
LEMMA Overwritten ==
  ASSUME DialerAssumption, NEW dir, FilesTyped(dir), NEW w \in Rows,
         NEW text \in Overwrite(dir[NumberOf(w)], w)
  PROVE  /\ text \in Campaigns
         /\ FilesTyped([dir EXCEPT ![NumberOf(w)] = text])
         /\ text = CampaignOf(w) \/ text = dir[NumberOf(w)]
         /\ ~Shared(NumberOf(w)) => text = CampaignOf(w)
<1>1. /\ CampaignOf(w) \in Campaigns /\ NumberOf(w) \in Numbers
      /\ w = <<CampaignOf(w), NumberOf(w)>>
  BY RowIs
<1>2. /\ text = CampaignOf(w) \/ text = dir[NumberOf(w)]
      /\ text \in Campaigns
  BY <1>1 DEF Overwrite
<1>3. <<text, NumberOf(w)>> \in Rows
  BY <1>1, <1>2 DEF FilesTyped
<1>4. FilesTyped([dir EXCEPT ![NumberOf(w)] = text])
  BY <1>1, <1>2, <1>3 DEF FilesTyped
<1>5. ~Shared(NumberOf(w)) => text = CampaignOf(w)
  <2>1. NumberOf(<<text, NumberOf(w)>>) = NumberOf(w)
    BY DEF NumberOf
  <2>2. ~Shared(NumberOf(w)) => <<text, NumberOf(w)>> = w
    BY <1>3, <2>1, Alone
  <2> QED
    BY <1>1, <2>2
<1> QED
  BY <1>2, <1>4, <1>5

LEMMA WriteFileKept ==
  ASSUME DialerAssumption, DInv, NEW k \in Crons, WriteFile(k)
  PROVE  DInv'
<1>1. Formed(cron[k]) /\ cron[k].pc = "write" /\ cron[k].row \in cron[k].rows
  BY DEF DInv, Typed, Formed, WriteFile, At
<1>2. PICK r : /\ Formed(r) /\ Moves(k, r)
               /\ r.pc = "touch" /\ r.row = cron[k].row /\ r.rows = cron[k].rows
  BY <1>1, OnTyped DEF WriteFile
<1>3. PICK w \in Rows : w = cron[k].row
  BY <1>1 DEF Formed, Runs
<1>4. PICK n : n = NumberOf(w)
  OBVIOUS
<1>5. n \in Numbers /\ CampaignOf(w) \notin {NoFile, Empty}
  BY <1>4, RowIs
<1>6. UNCHANGED <<status, calling, dialled, again, failed, crossed>>
  BY DEF WriteFile, history
<1>7. stream' \in Streams /\ \A j \in Crons : j # k => stream'[j] = stream[j]
  BY DEF WriteFile, DInv, Typed, Streams
<1>8. FilesTyped(tmp) /\ FilesTyped(spool)
  BY DEF DInv, Typed
<1>9. /\ FilesTyped(tmp)' /\ FilesTyped(spool)'
      /\ \A m \in Numbers : m # n => tmp'[m] = tmp[m] /\ spool'[m] = spool[m]
      /\ \/ spool'[n] = spool[n] /\ tmp'[n] \in {tmp[n], CampaignOf(w)}
         \/ tmp'[n] = tmp[n] /\ spool'[n] \in {spool[n], CampaignOf(w)}
      /\ stream[k] = "tmp" /\ ~Shared(n) => tmp'[n] = CampaignOf(w) /\ spool'[n] = spool[n]
  <2>1. \/ /\ stream[k] = "tmp"
           /\ \E text \in Overwrite(tmp[n], w) : tmp' = [tmp EXCEPT ![n] = text]
           /\ UNCHANGED spool
        \/ /\ stream[k] = "spool"
           /\ \E text \in Overwrite(spool[n], w) : spool' = [spool EXCEPT ![n] = text]
           /\ UNCHANGED tmp
        \/ stream[k] = "none" /\ UNCHANGED <<tmp, spool>>
    BY <1>3, <1>4 DEF WriteFile
  <2>2. CASE stream[k] = "tmp"
    <3>1. PICK text \in Overwrite(tmp[n], w) : tmp' = [tmp EXCEPT ![n] = text]
      BY <2>1, <2>2
    <3>2. spool' = spool
      BY <2>1, <2>2
    <3>3. /\ FilesTyped(tmp') /\ text \in {tmp[n], CampaignOf(w)}
          /\ ~Shared(n) => text = CampaignOf(w)
      BY <1>4, <1>8, <3>1, Overwritten
    <3>4. tmp'[n] = text /\ \A m \in Numbers : m # n => tmp'[m] = tmp[m]
      BY <1>5, <1>8, <3>1 DEF FilesTyped
    <3> QED
      BY <1>8, <3>2, <3>3, <3>4 DEF FilesTyped
  <2>3. CASE stream[k] = "spool"
    <3>1. PICK text \in Overwrite(spool[n], w) : spool' = [spool EXCEPT ![n] = text]
      BY <2>1, <2>3
    <3>2. tmp' = tmp
      BY <2>1, <2>3
    <3>3. FilesTyped(spool') /\ text \in {spool[n], CampaignOf(w)}
      BY <1>4, <1>8, <3>1, Overwritten
    <3>4. spool'[n] = text /\ \A m \in Numbers : m # n => spool'[m] = spool[m]
      BY <1>5, <1>8, <3>1 DEF FilesTyped
    <3> QED
      BY <1>8, <2>3, <3>2, <3>3, <3>4 DEF FilesTyped
  <2>4. CASE stream[k] = "none"
    <3>1. UNCHANGED <<tmp, spool>>
      BY <2>1, <2>4
    <3> QED
      BY <1>8, <2>4, <3>1 DEF FilesTyped
  <2> QED
    BY <2>1, <2>2, <2>3, <2>4
<1>10. \A j \in Crons : cron'[j] = IF j = k THEN r ELSE cron[j]
  BY <1>2, MovedTyped DEF DInv
<1>11. ASSUME Single(w)' PROVE TakenOf(w)'
  <2>1. Single(w) /\ TakenOf(w)
    BY <1>6, <1>11 DEF Single, DInv, TakenInv
  <2>2. Makes(k, w)
    BY <1>1, <1>3 DEF Makes
  <2>3. stream[k] = "tmp" /\ ~Shared(n)
    BY <1>1, <1>4, <2>1, <2>2 DEF TakenOf, Single
  <2>4. Written(w)' /\ (Sent(w)' <=> Sent(w))
    BY <1>4, <1>6, <1>9, <2>3 DEF Written, Sent, Spooled
  <2>5. \A j \in Crons : Makes(j, w)' => j = k
    BY <1>10, <2>1, <2>2 DEF Makes, TakenOf
  <2>6. \A j \in Crons : cron'[j].pc = "record" => cron'[j] = cron[j]
    BY <1>2, <1>10
  <2> QED
    BY <1>2, <1>6, <1>10, <2>1, <2>4, <2>5, <2>6 DEF TakenOf
<1>12. TakenInv'
  BY <1>2, <1>3, <1>4, <1>6, <1>7, <1>9, <1>11, MakerKept
<1>13. \A row \in Rows :
         Unit(Spooled(row)') + Unit(Written(row)') + Unit(Takes(r, row))
           <= Unit(Spooled(row)) + Unit(Written(row)) + Unit(Takes(cron[k], row))
  <2>1. ASSUME NEW row \in Rows, row # w
        PROVE  /\ Spooled(row)' => Spooled(row)
               /\ Written(row)' => Written(row)
               /\ Takes(r, row) <=> Takes(cron[k], row)
    <3>1. /\ NumberOf(row) \in Numbers
          /\ row = <<CampaignOf(row), NumberOf(row)>> /\ w = <<CampaignOf(w), NumberOf(w)>>
      BY RowIs
    <3>2. NumberOf(row) = n => CampaignOf(row) # CampaignOf(w)
      BY <1>4, <2>1, <3>1
    <3>3. Takes(r, row) <=> Takes(cron[k], row)
      BY <1>1, <1>2, <1>3, <2>1 DEF Takes
    <3> QED
      BY <1>9, <3>1, <3>2, <3>3 DEF Spooled, Written
  <2>2. Takes(cron[k], w) /\ ~Takes(r, w)
    BY <1>1, <1>2, <1>3 DEF Takes
  <2>3. \/ Spooled(w)' <=> Spooled(w)
        \/ Written(w)' <=> Written(w)
    BY <1>4, <1>9 DEF Spooled, Written
  <2> QED
    BY <2>1, <2>2, <2>3 DEF Unit
<1> QED
  BY <1>2, <1>6, <1>7, <1>9, <1>12, <1>13, FileKept

\* A step that fails leaves the files as they are, and excuses the row.
LEMMA FailureKept ==
  ASSUME DialerAssumption, DInv, NEW k \in Crons, cron[k].pc \in {"write", "move"},
         NEW pc \in {"touch", "record"}, cron' = [cron EXCEPT ![k].pc = pc],
         failed' = failed \cup {cron[k].row},
         UNCHANGED <<status, tmp, spool, calling, dialled, again, crossed>>,
         stream' \in Streams, \A j \in Crons : j # k => stream'[j] = stream[j]
  PROVE  DInv'
<1>1. Formed(cron[k]) /\ cron[k].row \in cron[k].rows
  BY DEF DInv, Typed, Formed
<1>2. PICK r : /\ Formed(r) /\ Moves(k, r)
               /\ r.pc = pc /\ r.row = cron[k].row /\ r.rows = cron[k].rows
  <2>1. pc \in {"touch", "move", "record"} /\ cron[k].pc \in {"write", "touch", "move"}
    OBVIOUS
  <2>2. PICK to \in {"touch", "move", "record"} : to = pc
    BY <2>1
  <2>3. cron' = [cron EXCEPT ![k].pc = to]
    BY <2>2
  <2> QED
    BY <2>1, <2>2, <2>3, OnTyped
<1>3. PICK w \in Rows : w = cron[k].row
  BY <1>1 DEF Formed, Runs
<1>4. ~(Single(w)')
  BY <1>3 DEF Single
<1>5. TakenInv'
  BY <1>2, <1>3, <1>4, MakerKept
<1>6. FilesTyped(tmp)' /\ FilesTyped(spool)'
  BY DEF DInv, Typed, FilesTyped
<1>7. \A row \in Rows : Takes(r, row) => Takes(cron[k], row)
  BY <1>2 DEF Takes
<1>8. \A row \in Rows :
         Unit(Spooled(row)') + Unit(Written(row)') + Unit(Takes(r, row))
           <= Unit(Spooled(row)) + Unit(Written(row)) + Unit(Takes(cron[k], row))
  BY <1>7 DEF Unit, Spooled, Written
<1> QED
  BY <1>2, <1>5, <1>6, <1>8, FileKept

LEMMA WriteFailsKept ==
  ASSUME DialerAssumption, DInv, NEW k \in Crons, WriteFails(k)
  PROVE  DInv'
<1>1. /\ cron[k].pc = "write" /\ cron' = [cron EXCEPT ![k].pc = "touch"]
      /\ failed' = failed \cup {cron[k].row}
      /\ UNCHANGED <<status, tmp, spool, calling, dialled, again, crossed>>
  BY DEF WriteFails, At
<1>2. stream' \in Streams /\ \A j \in Crons : j # k => stream'[j] = stream[j]
  BY DEF WriteFails, DInv, Typed, Streams
<1> QED
  BY <1>1, <1>2, FailureKept

LEMMA MoveFailsKept ==
  ASSUME DialerAssumption, DInv, NEW k \in Crons, MoveFails(k)
  PROVE  DInv'
<1>1. /\ cron[k].pc = "move" /\ cron' = [cron EXCEPT ![k].pc = "record"]
      /\ failed' = failed \cup {cron[k].row}
      /\ UNCHANGED <<status, tmp, spool, stream, calling, dialled, again, crossed>>
  BY DEF MoveFails, At, files
<1>2. stream' \in Streams /\ \A j \in Crons : j # k => stream'[j] = stream[j]
  BY <1>1 DEF DInv, Typed
<1> QED
  BY <1>1, <1>2, FailureKept

LEMMA TouchKept ==
  ASSUME DialerAssumption, DInv, NEW k \in Crons, TouchFile(k) \/ TouchFails(k)
  PROVE  DInv'
<1>1. Formed(cron[k]) /\ cron[k].pc = "touch" /\ cron[k].row \in cron[k].rows
  BY DEF DInv, Typed, Formed, TouchFile, TouchFails, At
<1>2. PICK r : /\ Formed(r) /\ Moves(k, r)
               /\ r.pc = "move" /\ r.row = cron[k].row /\ r.rows = cron[k].rows
  BY <1>1, OnTyped DEF TouchFile, TouchFails
<1>3. PICK w \in Rows : w = cron[k].row
  BY <1>1 DEF Formed, Runs
<1>4. NumberOf(w) \in Numbers
  BY RowIs
<1>5. UNCHANGED <<status, spool, stream, calling, dialled, again, failed, crossed>>
  BY DEF TouchFile, TouchFails, files, history
<1>6. FilesTyped(tmp) /\ FilesTyped(spool)
  BY DEF DInv, Typed
<1>7. /\ tmp' \in [Numbers -> Campaigns \cup {NoFile, Empty}]
      /\ \A m \in Numbers : \/ tmp'[m] = tmp[m]
                            \/ m = NumberOf(w) /\ tmp[m] = NoFile /\ tmp'[m] = Empty
  BY <1>3, <1>4, <1>6 DEF TouchFile, TouchFails, files, FilesTyped
<1>8. FilesTyped(tmp)' /\ FilesTyped(spool)' /\ stream' \in Streams
  BY <1>5, <1>6, <1>7 DEF FilesTyped, DialerAssumption, DInv, Typed
<1>9. ASSUME NEW row \in Rows
      PROVE  (Spooled(row)' <=> Spooled(row)) /\ (Written(row)' <=> Written(row))
  <2>1. NumberOf(row) \in Numbers /\ CampaignOf(row) \notin {NoFile, Empty}
    BY RowIs
  <2> QED
    BY <1>5, <1>7, <2>1 DEF Spooled, Written
<1>10. \A j \in Crons : cron'[j] = IF j = k THEN r ELSE cron[j]
  BY <1>2, MovedTyped DEF DInv
<1>11. ASSUME Single(w)' PROVE TakenOf(w)'
  <2>1. Single(w) /\ TakenOf(w)
    BY <1>5, <1>11 DEF Single, DInv, TakenInv
  <2>2. Makes(k, w) /\ Written(w)
    BY <1>1, <1>3, <2>1 DEF Makes, TakenOf
  <2>3. Written(w)' /\ (Sent(w)' <=> Sent(w))
    BY <1>5, <1>9, <2>2 DEF Sent
  <2>4. \A j \in Crons : Makes(j, w)' => j = k
    BY <1>10, <2>1, <2>2 DEF Makes, TakenOf
  <2>5. \A j \in Crons : cron'[j].pc = "record" => cron'[j] = cron[j]
    BY <1>2, <1>10
  <2> QED
    BY <1>2, <1>5, <1>10, <2>1, <2>3, <2>4, <2>5 DEF TakenOf
<1>12. TakenInv'
  BY <1>2, <1>3, <1>5, <1>7, <1>11, MakerKept
<1>13. \A row \in Rows : Takes(r, row) <=> Takes(cron[k], row)
  BY <1>1, <1>2 DEF Takes
<1>14. \A row \in Rows :
         Unit(Spooled(row)') + Unit(Written(row)') + Unit(Takes(r, row))
           <= Unit(Spooled(row)) + Unit(Written(row)) + Unit(Takes(cron[k], row))
  BY <1>9, <1>13 DEF Unit
<1> QED
  BY <1>2, <1>5, <1>8, <1>12, <1>14, FileKept

LEMMA MoveFileKept ==
  ASSUME DialerAssumption, DInv, NEW k \in Crons, MoveFile(k)
  PROVE  DInv'
<1>1. Formed(cron[k]) /\ cron[k].pc = "move" /\ cron[k].row \in cron[k].rows
  BY DEF DInv, Typed, Formed, MoveFile, At
<1>2. PICK r : /\ Formed(r) /\ Moves(k, r)
               /\ r.pc = "record" /\ r.row = cron[k].row /\ r.rows = cron[k].rows
  BY <1>1, OnTyped DEF MoveFile
<1>3. PICK w \in Rows : w = cron[k].row
  BY <1>1 DEF Formed, Runs
<1>4. PICK n : n = NumberOf(w)
  OBVIOUS
<1>5. n \in Numbers /\ CampaignOf(w) \notin {NoFile, Empty}
  BY <1>4, RowIs
<1>6. UNCHANGED <<status, calling, dialled, again, failed, crossed>>
  BY DEF MoveFile, history
<1>7. FilesTyped(tmp) /\ FilesTyped(spool)
  BY DEF DInv, Typed
<1>8. /\ \A m \in Numbers : /\ tmp'[m] = IF m = n THEN NoFile ELSE tmp[m]
                            /\ spool'[m] = IF m = n /\ tmp[n] # NoFile THEN tmp[n] ELSE spool[m]
      /\ tmp' \in [Numbers -> Campaigns \cup {NoFile, Empty}]
      /\ spool' \in [Numbers -> Campaigns \cup {NoFile, Empty}]
  BY <1>3, <1>4, <1>5, <1>7 DEF MoveFile, FilesTyped, files
<1>9. stream' \in Streams /\ \A j \in Crons : NumberOf(cron[j].row) # n => stream'[j] = stream[j]
  <2>1. CASE tmp[n] = NoFile
    BY <1>3, <1>4, <2>1 DEF MoveFile, files, DInv, Typed
  <2>2. CASE tmp[n] # NoFile
    <3>1. stream' = Follow(n, [tmp |-> "spool", spool |-> "none"])
      BY <1>3, <1>4, <2>2 DEF MoveFile
    <3> QED
      BY <3>1, FollowedTyped DEF DInv
  <2> QED
    BY <2>1, <2>2
<1>10. FilesTyped(tmp)' /\ FilesTyped(spool)'
  BY <1>7, <1>8 DEF FilesTyped, DialerAssumption
<1>11. \A row \in Rows : Takes(r, row) <=> Takes(cron[k], row)
  BY <1>1, <1>2 DEF Takes
<1>12. ASSUME NEW row \in Rows
       PROVE  /\ Spooled(row)' => Spooled(row) \/ (Written(row) /\ ~Written(row)')
              /\ Written(row)' => Written(row)
  <2>1. NumberOf(row) \in Numbers /\ CampaignOf(row) \notin {NoFile, Empty}
    BY RowIs
  <2> QED
    BY <1>8, <2>1 DEF Spooled, Written
<1>13. \A j \in Crons : cron'[j] = IF j = k THEN r ELSE cron[j]
  BY <1>2, MovedTyped DEF DInv
<1>14. ASSUME Single(w)' PROVE TakenOf(w)'
  <2>1. Single(w) /\ TakenOf(w)
    BY <1>6, <1>14 DEF Single, DInv, TakenInv
  <2>2. Makes(k, w) /\ Written(w)
    BY <1>1, <1>3, <2>1 DEF Makes, TakenOf
  <2>3. Sent(w)'
    BY <1>4, <1>5, <1>8, <2>2 DEF Written, Sent, Spooled
  <2>4. \A j \in Crons : ~(Makes(j, w)')
    BY <1>2, <1>13, <2>1, <2>2 DEF Makes, TakenOf
  <2> QED
    BY <2>3, <2>4 DEF TakenOf
<1>15. TakenInv'
  BY <1>2, <1>3, <1>4, <1>6, <1>8, <1>9, <1>14, MakerKept
<1>16. \A row \in Rows :
         Unit(Spooled(row)') + Unit(Written(row)') + Unit(Takes(r, row))
           <= Unit(Spooled(row)) + Unit(Written(row)) + Unit(Takes(cron[k], row))
  BY <1>11, <1>12 DEF Unit
<1> QED
  BY <1>2, <1>6, <1>9, <1>10, <1>15, <1>16, FileKept

-----------------------------------------------------------------------------
\* A run that is done with a number: what it has left.
LEMMA NextRun ==
  ASSUME Typed, NEW k \in Crons, cron[k].pc = "record", NextNumber(k)
  PROVE  \E r : /\ Formed(r) /\ Moves(k, r) /\ r.pc \in {"off", "get"}
                /\ r.rows = cron[k].rows \ {cron[k].row}
                /\ \A row \in Rows : Takes(r, row) <=> Takes(cron[k], row)
<1>1. cron \in [Crons -> Runs] /\ Formed(cron[k]) /\ cron[k].row \in cron[k].rows
  BY DEF Typed, Formed
<1>2. PICK rows : rows = cron[k].rows \ {cron[k].row}
  OBVIOUS
<1>3. cron' = [cron EXCEPT ![k] = IF rows = {} THEN Off
                                  ELSE [cron[k] EXCEPT !.pc = "get", !.rows = rows, !.row = <<>>]]
  BY <1>2 DEF NextNumber
<1>4. CASE rows = {}
  <2>1. Moves(k, Off) /\ Off.pc = "off" /\ Off.rows = {} /\ Formed(Off)
    BY <1>3, <1>4 DEF Moves, Off, Formed, Runs
  <2>2. \A row \in Rows : ~Takes(Off, row) /\ ~Takes(cron[k], row)
    BY <1>2, <1>4, <2>1 DEF Takes
  <2> QED
    BY <1>2, <1>4, <2>1, <2>2
<1>5. CASE rows # {}
  <2> DEFINE r == [cron[k] EXCEPT !.pc = "get", !.rows = rows, !.row = <<>>]
  <2>1. Moves(k, r)
    BY <1>3, <1>5 DEF Moves
  <2>2. Formed(r) /\ r.pc = "get" /\ r.rows = rows
    BY <1>1, <1>2 DEF Formed, Runs
  <2> HIDE DEF r
  <2>3. \A row \in Rows : Takes(r, row) <=> Takes(cron[k], row)
    BY <1>2, <2>2 DEF Takes
  <2> QED
    BY <1>2, <2>1, <2>2, <2>3
<1> QED
  BY <1>4, <1>5

LEMMA MarkFailsKept ==
  ASSUME DialerAssumption, DInv, NEW k \in Crons, MarkFails(k)
  PROVE  DInv'
<1>1. Formed(cron[k]) /\ cron[k].pc = "record" /\ cron[k].row \in Rows
  BY DEF DInv, Typed, MarkFails, At, Formed, Runs
<1>2. PICK r : /\ Formed(r) /\ Moves(k, r) /\ r.pc \in {"off", "get"}
               /\ r.rows = cron[k].rows \ {cron[k].row}
               /\ \A row \in Rows : Takes(r, row) <=> Takes(cron[k], row)
  BY <1>1, NextRun DEF MarkFails, DInv
<1>3. UNCHANGED <<status, tmp, spool, stream, calling, dialled, failed, crossed>>
  BY DEF MarkFails, files
<1>3a. stream' \in Streams /\ \A j \in Crons : stream'[j] = stream[j]
  BY <1>3 DEF DInv, Typed
<1>4. again \in [Rows -> Nat] /\ again' = [again EXCEPT ![cron[k].row] = @ + 1]
  BY DEF MarkFails, DInv, Typed
<1>5. /\ again' \in [Rows -> Nat]
      /\ \A row \in Rows : again'[row] >= again[row]
      /\ again'[cron[k].row] > again[cron[k].row]
  BY <1>1, <1>4
<1> QED
  BY <1>2, <1>3, <1>3a, <1>5, DropKept

LEMMA MarkExecutedKept ==
  ASSUME DialerAssumption, DInv, NEW k \in Crons, MarkExecuted(k)
  PROVE  DInv'
<1>1. Formed(cron[k]) /\ cron[k].pc = "record" /\ cron[k].row \in Rows
  BY DEF DInv, Typed, MarkExecuted, At, Formed, Runs
<1>2. PICK r : /\ Formed(r) /\ Moves(k, r) /\ r.pc \in {"off", "get"}
               /\ r.rows = cron[k].rows \ {cron[k].row}
               /\ \A row \in Rows : Takes(r, row) <=> Takes(cron[k], row)
  BY <1>1, NextRun DEF MarkExecuted, DInv
<1>3. UNCHANGED <<tmp, spool, stream, calling, dialled, again, failed, crossed>>
  BY DEF MarkExecuted, files, history
<1>4. /\ status' \in [Rows -> {"new", "executed", "completed"}]
      /\ status'[cron[k].row] = "executed"
      /\ \A row \in Rows : row # cron[k].row => status'[row] = status[row]
  BY <1>1 DEF MarkExecuted, DInv, Typed
<1>5. Typed'
  BY <1>2, <1>3, <1>4, MovedTyped DEF DInv, Typed, FilesTyped
<1>6. \A j \in Crons : cron'[j] = IF j = k THEN r ELSE cron[j]
  BY <1>2, MovedTyped DEF DInv
<1>7. ASSUME NEW row \in Rows, Single(row)' PROVE TakenOf(row)'
  <2>1. TakenOf(row)
    BY <1>3, <1>7 DEF Single, DInv, TakenInv
  <2>2. (Sent(row)' <=> Sent(row)) /\ (Written(row)' <=> Written(row))
    BY <1>3 DEF Sent, Spooled, Written
  <2>3. row = cron[k].row => Sent(row)
    BY <1>1, <2>1 DEF TakenOf
  <2>4. \A j \in Crons : Makes(j, row)' => j # k /\ Makes(j, row) /\ cron'[j] = cron[j]
    BY <1>2, <1>6 DEF Makes
  <2>5. \A j \in Crons : cron'[j].pc = "record" => cron'[j] = cron[j]
    BY <1>2, <1>6
  <2> QED
    BY <1>3, <1>4, <2>1, <2>2, <2>3, <2>4, <2>5 DEF TakenOf
<1>8. TakenInv'
  BY <1>3, <1>7 DEF DInv, TakenInv
<1>9. ASSUME NEW row \in Rows PROVE ReasonOf(row)'
  <2>1. /\ dialled'[row] = dialled[row]
        /\ Spooled(row)' <=> Spooled(row)
        /\ Written(row)' <=> Written(row)
        /\ dialled[row] \in Nat /\ again[row] \in Nat
    BY <1>3 DEF Spooled, Written, DInv, Typed
  <2>2. Weight(row)' = Weight(row) /\ Weight(row) \in Nat
    BY <1>2, <2>1, Counting DEF DInv, Weight, Unit
  <2>3. row # cron[k].row => (InHand(row) => InHand(row)')
    BY <1>2, HandKept DEF DInv
  <2>4. ReasonOf(row) /\ again'[row] = again[row]
    BY <1>3 DEF DInv, ReasonInv
  <2> QED
    BY <1>4, <2>1, <2>2, <2>3, <2>4 DEF ReasonOf
<1> QED
  BY <1>5, <1>8, <1>9 DEF DInv, ReasonInv

-----------------------------------------------------------------------------
LEMMA DialKept ==
  ASSUME DialerAssumption, DInv, NEW n \in Numbers, Dial(n)
  PROVE  DInv'
<1>1. PICK w : w = <<spool[n], n>>
  OBVIOUS
<1>2. /\ w \in Rows /\ CampaignOf(w) = spool[n] /\ NumberOf(w) = n /\ spool[n] \in Campaigns
  BY <1>1, FileOf DEF DInv, Typed, Dial
<1>3. /\ calling' = calling \cup {w} /\ dialled' = [dialled EXCEPT ![w] = @ + 1]
      /\ UNCHANGED <<status, tmp, cron, again, failed, crossed>>
  BY <1>1 DEF Dial
<1>4. /\ \A m \in Numbers : spool'[m] = IF m = n THEN NoFile ELSE spool[m]
      /\ spool' \in [Numbers -> Campaigns \cup {NoFile, Empty}]
  BY DEF Dial, DInv, Typed, FilesTyped
<1>4a. /\ NoFile \notin Campaigns
       /\ stream' \in Streams /\ \A j \in Crons : stream[j] = "tmp" => stream'[j] = "tmp"
  BY FollowedTyped DEF Dial, DInv, Typed, DialerAssumption
<1>5. /\ dialled' \in [Rows -> Nat]
      /\ \A row \in Rows : dialled[row] \in Nat
                           /\ dialled'[row] = IF row = w THEN dialled[row] + 1 ELSE dialled[row]
  BY <1>2, <1>3 DEF DInv, Typed
<1>6. Typed'
  BY <1>2, <1>3, <1>4, <1>4a, <1>5 DEF DInv, Typed, FilesTyped
<1>7. ASSUME NEW row \in Rows
      PROVE  /\ row = w => Spooled(row) /\ ~Spooled(row)'
             /\ row # w => (Spooled(row)' <=> Spooled(row))
             /\ Written(row)' <=> Written(row)
             /\ Sent(row) => Sent(row)'
  <2>1. NumberOf(row) \in Numbers /\ CampaignOf(row) \notin {NoFile, Empty}
        /\ row = <<CampaignOf(row), NumberOf(row)>>
    BY RowIs
  <2>2. row # w => ~(NumberOf(row) = n /\ CampaignOf(row) = spool[n])
    BY <1>1, <2>1
  <2>3. /\ row = w => Spooled(row) /\ ~Spooled(row)'
        /\ row # w => (Spooled(row)' <=> Spooled(row))
    BY <1>2, <1>4, <2>1, <2>2 DEF Spooled
  <2> QED
    BY <1>3, <1>5, <2>3 DEF Written, Sent
<1>8. TakenInv'
  <2>1. ASSUME NEW row \in Rows, Single(row)' PROVE TakenOf(row)'
    BY <1>3, <1>4a, <1>7, <2>1 DEF Single, DInv, TakenInv, TakenOf, Makes
  <2>2. \A row \in calling' : dialled'[row] > 0
    BY <1>3, <1>5 DEF DInv, Typed, TakenInv
  <2> QED
    BY <2>1, <2>2 DEF TakenInv
<1>9. ASSUME NEW row \in Rows PROVE ReasonOf(row)'
  <2>1. Taking(row)' = Taking(row) /\ (InHand(row)' <=> InHand(row))
    BY <1>3 DEF Taking, InHand
  <2>2. Weight(row)' = Weight(row) /\ Weight(row) \in Nat
    BY <1>5, <1>7, <2>1, Numbered DEF DInv, Weight, Unit
  <2> QED
    BY <1>3, <2>1, <2>2 DEF DInv, ReasonInv, ReasonOf
<1> QED
  BY <1>6, <1>8, <1>9 DEF DInv, ReasonInv

LEMMA DiscardKept ==
  ASSUME DialerAssumption, DInv, NEW n \in Numbers, Discard(n)
  PROVE  DInv'
<1>1. UNCHANGED <<status, tmp, cron, calling, dialled, again, failed, crossed>>
  BY DEF Discard, history
<1>2. /\ \A m \in Numbers : spool'[m] = IF m = n THEN NoFile ELSE spool[m]
      /\ spool' \in [Numbers -> Campaigns \cup {NoFile, Empty}]
      /\ spool[n] = Empty
  BY DEF Discard, DInv, Typed, FilesTyped
<1>3. /\ NoFile \notin Campaigns
      /\ stream' \in Streams /\ \A j \in Crons : stream[j] = "tmp" => stream'[j] = "tmp"
  BY FollowedTyped DEF Discard, DInv, Typed, DialerAssumption
<1>4. Typed'
  BY <1>1, <1>2, <1>3 DEF DInv, Typed, FilesTyped
<1>5. ASSUME NEW row \in Rows
      PROVE  (Spooled(row)' <=> Spooled(row)) /\ (Written(row)' <=> Written(row))
  <2>1. NumberOf(row) \in Numbers /\ CampaignOf(row) \notin {NoFile, Empty}
    BY RowIs
  <2> QED
    BY <1>1, <1>2, <2>1 DEF Spooled, Written
<1>6. ASSUME NEW row \in Rows, Single(row)' PROVE TakenOf(row)'
  <2>1. Single(row) /\ TakenOf(row)
    BY <1>1, <1>6 DEF Single, DInv, TakenInv
  <2>2. Sent(row)' <=> Sent(row)
    BY <1>1, <1>5 DEF Sent
  <2> QED
    BY <1>1, <1>3, <1>5, <2>1, <2>2 DEF TakenOf, Makes
<1>7. TakenInv'
  BY <1>1, <1>6 DEF DInv, TakenInv
<1>8. ASSUME NEW row \in Rows PROVE ReasonOf(row)'
  <2>1. Weight(row)' = Weight(row) /\ (InHand(row)' <=> InHand(row))
    BY <1>1, <1>5 DEF Weight, Unit, Taking, InHand
  <2> QED
    BY <1>1, <2>1 DEF DInv, ReasonInv, ReasonOf
<1> QED
  BY <1>4, <1>7, <1>8 DEF DInv, ReasonInv

LEMMA CallOverKept ==
  ASSUME DialerAssumption, DInv, NEW w \in Rows, Answered(w) \/ NotAnswered(w)
  PROVE  DInv'
<1>1. w \in calling /\ calling' = calling \ {w}
      /\ UNCHANGED <<tmp, spool, stream, cron, dialled, again, failed, crossed>>
  BY DEF Answered, NotAnswered, files, history
<1>2. /\ status' \in [Rows -> {"new", "executed", "completed"}]
      /\ \A row \in Rows : status'[row] = status[row] \/ (row = w /\ status'[row] = "completed")
  BY DEF Answered, NotAnswered, DInv, Typed
<1>3. Typed'
  BY <1>1, <1>2 DEF DInv, Typed, FilesTyped
<1>4. \A row \in Rows : /\ Sent(row)' <=> Sent(row)
                        /\ Written(row)' <=> Written(row)
  BY <1>1 DEF Sent, Spooled, Written
<1>5. Sent(w)
  BY <1>1 DEF DInv, TakenInv, Sent
<1>6. TakenInv'
  <2>1. ASSUME NEW row \in Rows, Single(row)' PROVE TakenOf(row)'
    BY <1>1, <1>2, <1>4, <1>5, <2>1 DEF Single, DInv, TakenInv, TakenOf, Makes
  <2>2. \A row \in calling' : dialled'[row] > 0
    BY <1>1 DEF DInv, TakenInv
  <2> QED
    BY <2>1, <2>2 DEF TakenInv
<1>7. ASSUME NEW row \in Rows PROVE ReasonOf(row)'
  <2>1. Weight(row)' = Weight(row) /\ (InHand(row)' <=> InHand(row))
    BY <1>1 DEF Weight, Unit, Spooled, Written, Taking, InHand
  <2> QED
    BY <1>1, <1>2, <2>1 DEF DInv, ReasonInv, ReasonOf
<1> QED
  BY <1>3, <1>6, <1>7 DEF DInv, ReasonInv

-----------------------------------------------------------------------------
LEMMA InitKept == DialerAssumption /\ Init => DInv
<1> SUFFICES ASSUME DialerAssumption, Init PROVE DInv
  OBVIOUS
<1>1. Formed(Off) /\ Off.pc = "off" /\ Off.rows = {}
  BY DEF Formed, Runs, Off
<1>2. Typed
  BY <1>1 DEF Init, Typed, FilesTyped, Formed, Streams, DialerAssumption
<1>3. TakenInv
  BY <1>1 DEF Init, TakenInv, TakenOf, Makes
<1>4. ASSUME NEW row \in Rows PROVE ReasonOf(row)
  <2>1. Taking(row) = {}
    BY <1>1 DEF Init, Taking, Takes
  <2>2. NumberOf(row) \in Numbers /\ CampaignOf(row) \notin {NoFile, Empty}
    BY RowIs
  <2>3. ~Spooled(row) /\ ~Written(row)
    BY <2>2 DEF Init, Spooled, Written
  <2>4. Weight(row) = 0 /\ again[row] = 0
    BY <2>1, <2>3, FS_EmptySet DEF Init, Weight, Unit
  <2> QED
    BY <2>4 DEF ReasonOf
<1> QED
  BY <1>2, <1>3, <1>4 DEF DInv, ReasonInv

LEMMA StepKept == DialerAssumption /\ DInv /\ [Next]_vars => DInv'
<1> SUFFICES ASSUME DialerAssumption, DInv, [Next]_vars PROVE DInv'
  OBVIOUS
<1>1. CASE \E k \in Crons : Cron(k)
  <2>1. PICK k \in Crons : Cron(k)
    BY <1>1
  <2> QED
    BY <2>1, GetCampaignsKept, GetNumbersKept, GetFailsKept, OpenFileKept, WriteFileKept,
       WriteFailsKept, TouchKept, MoveFileKept, MoveFailsKept, MarkExecutedKept, MarkFailsKept, FinishKept, KillKept DEF Cron
<1>2. CASE Asterisk
  BY <1>2, DialKept, DiscardKept, CallOverKept DEF Asterisk
<1>3. CASE UNCHANGED vars
  BY <1>3 DEF vars, files, history, DInv, Typed, FilesTyped, TakenInv, TakenOf, Single, Makes, Sent,
     Spooled, Written, ReasonInv, ReasonOf, Weight, Taking, InHand, Unit
<1> QED
  BY <1>1, <1>2, <1>3 DEF Next

LEMMA Invariant == Spec => []DInv
<1>1. Init => DInv
  BY DialerAssumption, InitKept
<1>2. DInv /\ [Next]_vars => DInv'
  BY DialerAssumption, StepKept
<1> QED
  BY <1>1, <1>2, PTL DEF Spec

\* Whatever fails, whoever is killed and however many runs overlap, a number that
\* is not new has been dialled or waits in the spool directory, unless its file
\* could not be written or moved, two runs were making it at the same moment, or
\* two campaigns have the number.
THEOREM TakenNumbersAreDialled == Spec => []TakenIsDialled
<1>1. DInv => TakenIsDialled
  BY DEF DInv, TakenInv, TakenOf, Single, Sent, TakenIsDialled
<1> QED
  BY <1>1, Invariant, PTL

\* A number is dialled for a campaign once, and once more only for each run that
\* took it while another had it in hand or that wrote its file and did not record it.
THEOREM NumbersAreDialledOnce == Spec => []DialledAgainForAReason
<1>1. DInv => DialledAgainForAReason
  <2> SUFFICES ASSUME DInv, NEW row \in Rows
               PROVE  dialled[row] + (IF Spooled(row) THEN 1 ELSE 0) <= 1 + again[row]
    BY DEF DialledAgainForAReason
  <2>1. /\ dialled[row] \in Nat /\ again[row] \in Nat /\ Cardinality(Taking(row)) \in Nat
        /\ ReasonOf(row)
    BY DialerAssumption, Numbered DEF DInv, ReasonInv
  <2> QED
    BY <2>1 DEF ReasonOf, Weight, Unit
<1> QED
  BY <1>1, Invariant, PTL

=============================================================================
