----------------------------- MODULE AutoDialer -----------------------------
(***************************************************************************)
(* The automatic dialer: mor_ad_cron, started by cron, writes call files   *)
(* for the new numbers of the campaigns; Asterisk dials them; and the AGI  *)
(* program mor_ad_agi marks the numbers that answer.                       *)
(*                                                                         *)
(* No lock keeps a run from overlapping the one before.  A call file is    *)
(* named by its number only.  It is opened in /tmp, written, touched,      *)
(* moved to the spool directory and then recorded, each in a step of its   *)
(* own and without a check: touch makes an empty file when another run has *)
(* moved this one, and mv puts it in the place of the good one.            *)
(*                                                                         *)
(* Both directories are on one file system, so that mv renames the file,   *)
(* and a run that has opened it writes to it wherever it is.               *)
(***************************************************************************)
EXTENDS Integers, FiniteSets

CONSTANTS
    Campaigns,
    Numbers,
    Rows,            \* adnumbers: pairs of a campaign and a number
    Crons,           \* the runs of mor_ad_cron that may overlap
    CallsPerPeriod,  \* calls_one_time * cron_interval
    NoFile, Empty,   \* what a path has that has no call file, or one without text
    MaxRuns,         \* bound: how often cron starts a run
    MaxFaults        \* bound: how many statements fail and runs are killed

ASSUME DialerAssumption ==
    /\ Rows \subseteq Campaigns \X Numbers
    /\ NoFile # Empty /\ {NoFile, Empty} \cap Campaigns = {}
    /\ IsFiniteSet(Campaigns) /\ IsFiniteSet(Crons)
    /\ CallsPerPeriod \in Nat /\ MaxRuns \in Nat /\ MaxFaults \in Nat

VARIABLES
    status,   \* adnumbers.status
    tmp,      \* /tmp/mor_ad_<number>: the campaign in it, Empty or NoFile
    spool,    \* the same of the call file of the number in the spool directory
    cron,     \* the runs
    stream,   \* where the file is that the run has opened, and "none" when it is gone
    calling,  \* the calls Asterisk is making
    dialled,  \* history: how often a number has been dialled for a campaign
    again,    \* history: what may have a number dialled once more
    failed,   \* history: rows whose file could not be written or moved
    crossed,  \* history: rows whose file two runs have been making at once
    runs,     \* how often cron is still to start a run
    faults    \* how many faults are still to come

files == <<tmp, spool, stream>>
history == <<dialled, again, failed, crossed>>
vars == <<status, files, cron, calling, history, runs, faults>>

CampaignOf(row) == row[1]
NumberOf(row) == row[2]

Off == [pc |-> "off", campaigns |-> {}, limit |-> 0, rows |-> {}, row |-> <<>>]

At(k, pc) == cron[k].pc = pc

Fault == faults > 0 /\ faults' = faults - 1

\* The rows of a campaign with status new.
NewRows(c) == {row \in Rows : CampaignOf(row) = c /\ status[row] = "new"}

\* The campaigns and their numbers are worked through in the order in which they
\* were read, which is the same in every run.
Foremost(S) == CHOOSE x \in S : TRUE
IsNext(k, row) ==
    LET c == Foremost({CampaignOf(r) : r \in cron[k].rows}) IN
    /\ cron[k].rows # {}
    /\ row = Foremost({r \in cron[k].rows : CampaignOf(r) = c})

\* The rows that some run is about to dial.
InHand(row) == \E k \in Crons : row \in cron[k].rows

\* The run is making the call file of the row.
Makes(k, row) == cron[k].pc \in {"write", "touch", "move"} /\ cron[k].row = row

\* The files that are open for number n, after what they were has gone elsewhere.
Follow(n, to) ==
    [k \in Crons |-> IF stream[k] # "none" /\ NumberOf(cron[k].row) = n
                        THEN to[stream[k]] ELSE stream[k]]

-----------------------------------------------------------------------------
Init ==
    /\ status = [row \in Rows |-> "new"]
    /\ tmp = [n \in Numbers |-> NoFile]
    /\ spool = [n \in Numbers |-> NoFile]
    /\ cron = [k \in Crons |-> Off]
    /\ stream = [k \in Crons |-> "none"]
    /\ calling = {}
    /\ dialled = [row \in Rows |-> 0]
    /\ again = [row \in Rows |-> 0]
    /\ failed = {} /\ crossed = {}
    /\ runs = MaxRuns /\ faults = MaxFaults

\* The calls of the period are shared among the campaigns.
Share(active) == CallsPerPeriod \div Cardinality(active)

\* get_campaigns: campaigns with new numbers that are enabled, at their hours, and
\* whose user can pay.
GetCampaigns(k) ==
    /\ At(k, "off")
    /\ runs > 0 /\ runs' = runs - 1
    /\ \E active \in (SUBSET {c \in Campaigns : NewRows(c) # {}}) \ {{}} :
         cron' = [cron EXCEPT ![k] = [Off EXCEPT !.pc = "get", !.campaigns = active,
                                        !.limit = Share(active)]]
    /\ UNCHANGED <<status, files, calling, history, faults>>

\* Mutation of Selects: numbers are taken whatever their status.
SelectsAny(c, n, rows) ==
    LET all == {row \in Rows : CampaignOf(row) = c} IN
    /\ rows \subseteq all
    /\ Cardinality(rows) = IF n < Cardinality(all) THEN n ELSE Cardinality(all)

\* status = 'new' LIMIT n, in any order
Selects(c, n, rows) ==
    /\ rows \subseteq NewRows(c)
    /\ Cardinality(rows) = IF n < Cardinality(NewRows(c)) THEN n ELSE Cardinality(NewRows(c))

\* get_numbers, campaign by campaign; the limit is of no use after the last.
GetNumbers(k, c) ==
    /\ At(k, "get") /\ cron[k].campaigns # {} /\ c = Foremost(cron[k].campaigns)
    /\ \E rows \in SUBSET Rows :
        /\ Selects(c, cron[k].limit, rows)
        /\ cron' = [cron EXCEPT ![k].campaigns = @ \ {c}, ![k].rows = @ \cup rows,
                                  ![k].limit = IF cron[k].campaigns = {c} THEN 0 ELSE @]
        /\ again' = [row \in Rows |-> again[row] + IF row \in rows /\ InHand(row) THEN 1 ELSE 0]
    /\ UNCHANGED <<status, files, calling, dialled, failed, crossed, runs, faults>>

\* A query fails: no numbers for this campaign.
GetFails(k, c) ==
    /\ At(k, "get") /\ cron[k].campaigns # {} /\ c = Foremost(cron[k].campaigns)
    /\ Fault
    /\ cron' = [cron EXCEPT ![k].campaigns = @ \ {c}]
    /\ UNCHANGED <<status, files, calling, history, runs>>

\* Mutation of OpenFile: the number is recorded before its file is made.
OpenFileRecorded(k, row) ==
    /\ At(k, "get") /\ cron[k].campaigns = {} /\ IsNext(k, row)
    /\ tmp' = [tmp EXCEPT ![NumberOf(row)] = Empty]
    /\ status' = [status EXCEPT ![row] = "executed"]
    /\ stream' = [stream EXCEPT ![k] = "tmp"]
    /\ cron' = [cron EXCEPT ![k].pc = "write", ![k].row = row]
    /\ crossed' = IF \E j \in Crons : Makes(j, row) THEN crossed \cup {row} ELSE crossed
    /\ UNCHANGED <<spool, calling, dialled, again, failed, runs, faults>>

\* create_call_file: fopen makes the file in /tmp, or empties the one there is,
\* whoever made it.
OpenFile(k, row) ==
    /\ At(k, "get") /\ cron[k].campaigns = {} /\ IsNext(k, row)
    /\ tmp' = [tmp EXCEPT ![NumberOf(row)] = Empty]
    /\ stream' = [stream EXCEPT ![k] = "tmp"]
    /\ cron' = [cron EXCEPT ![k].pc = "write", ![k].row = row]
    /\ crossed' = IF \E j \in Crons : Makes(j, row) THEN crossed \cup {row} ELSE crossed
    /\ UNCHANGED <<status, spool, calling, dialled, again, failed, runs, faults>>

\* The text is written over the one of another run; of a longer one the end
\* remains, in which the campaign is named.
Overwrite(text, row) == {CampaignOf(row)} \cup ({text} \cap Campaigns)

\* fprintf and fclose write to the file that was opened, wherever it is now.
WriteFile(k) ==
    LET row == cron[k].row
        n == NumberOf(row)
    IN
    /\ At(k, "write")
    /\ \/ /\ stream[k] = "tmp"
          /\ \E text \in Overwrite(tmp[n], row) : tmp' = [tmp EXCEPT ![n] = text]
          /\ UNCHANGED spool
       \/ /\ stream[k] = "spool"
          /\ \E text \in Overwrite(spool[n], row) : spool' = [spool EXCEPT ![n] = text]
          /\ UNCHANGED tmp
       \/ stream[k] = "none" /\ UNCHANGED <<tmp, spool>>
    /\ stream' = [stream EXCEPT ![k] = "none"]
    /\ cron' = [cron EXCEPT ![k].pc = "touch"]
    /\ UNCHANGED <<status, calling, history, runs, faults>>

\* They fail, and their results are not looked at.
WriteFails(k) ==
    /\ At(k, "write")
    /\ Fault
    /\ failed' = failed \cup {cron[k].row}
    /\ stream' = [stream EXCEPT ![k] = "none"]
    /\ cron' = [cron EXCEPT ![k].pc = "touch"]
    /\ UNCHANGED <<status, tmp, spool, calling, dialled, again, crossed, runs>>

\* touch makes an empty file if another run has moved this one.
TouchFile(k) ==
    LET n == NumberOf(cron[k].row) IN
    /\ At(k, "touch")
    /\ tmp' = [tmp EXCEPT ![n] = IF @ = NoFile THEN Empty ELSE @]
    /\ cron' = [cron EXCEPT ![k].pc = "move"]
    /\ UNCHANGED <<status, spool, stream, calling, history, runs, faults>>

\* It fails, and leaves the file as it is.
TouchFails(k) ==
    /\ At(k, "touch")
    /\ Fault
    /\ cron' = [cron EXCEPT ![k].pc = "move"]
    /\ UNCHANGED <<status, files, calling, history, runs>>

\* mv puts the file in the place of the one in the spool directory, whatever is in
\* either, and fails only if another run has moved it since the touch.
MoveFile(k) ==
    LET n == NumberOf(cron[k].row) IN
    /\ At(k, "move")
    /\ IF tmp[n] = NoFile
         THEN UNCHANGED files
         ELSE /\ spool' = [spool EXCEPT ![n] = tmp[n]]
              /\ tmp' = [tmp EXCEPT ![n] = NoFile]
              /\ stream' = Follow(n, [tmp |-> "spool", spool |-> "none"])
    /\ cron' = [cron EXCEPT ![k].pc = "record"]
    /\ UNCHANGED <<status, calling, history, runs, faults>>

\* It fails otherwise, and its result is not looked at.
MoveFails(k) ==
    /\ At(k, "move")
    /\ Fault
    /\ failed' = failed \cup {cron[k].row}
    /\ cron' = [cron EXCEPT ![k].pc = "record"]
    /\ UNCHANGED <<status, files, calling, dialled, again, crossed, runs>>

NextNumber(k) ==
    LET rows == cron[k].rows \ {cron[k].row} IN
    cron' = [cron EXCEPT ![k] = IF rows = {} THEN Off
                                ELSE [@ EXCEPT !.pc = "get", !.rows = rows, !.row = <<>>]]

\* execute_numbers: status = 'executed', even if the call has been answered
MarkExecuted(k) ==
    /\ At(k, "record")
    /\ status' = [status EXCEPT ![cron[k].row] = "executed"]
    /\ NextNumber(k)
    /\ UNCHANGED <<files, calling, history, runs, faults>>

\* The UPDATE fails, and its result is not looked at either.
MarkFails(k) ==
    /\ At(k, "record")
    /\ Fault
    /\ again' = [again EXCEPT ![cron[k].row] = @ + 1]
    /\ NextNumber(k)
    /\ UNCHANGED <<status, files, calling, dialled, failed, crossed, runs>>

\* There is nothing to dial.
Finish(k) ==
    /\ At(k, "get") /\ cron[k].campaigns = {} /\ cron[k].rows = {}
    /\ cron' = [cron EXCEPT ![k] = Off]
    /\ UNCHANGED <<status, files, calling, history, runs, faults>>

\* A run is killed, with the command it waits for.  What it has not written yet is
\* lost.
Kill(k) ==
    /\ ~At(k, "off")
    /\ Fault
    /\ cron' = [cron EXCEPT ![k] = Off]
    /\ stream' = [stream EXCEPT ![k] = "none"]
    /\ again' = IF At(k, "touch") \/ At(k, "move") \/ At(k, "record")
                  THEN [again EXCEPT ![cron[k].row] = @ + 1] ELSE again
    /\ UNCHANGED <<status, tmp, spool, calling, dialled, failed, crossed, runs>>

Cron(k) ==
    \/ GetCampaigns(k)
    \/ \E c \in Campaigns : GetNumbers(k, c) \/ GetFails(k, c)
    \/ \E row \in Rows : OpenFile(k, row)
    \/ WriteFile(k) \/ WriteFails(k) \/ TouchFile(k) \/ TouchFails(k)
    \/ MoveFile(k) \/ MoveFails(k) \/ MarkExecuted(k) \/ MarkFails(k)
    \/ Finish(k) \/ Kill(k)

-----------------------------------------------------------------------------
\* Asterisk takes a call file, when its time has come, and dials the number.
Dial(n) ==
    LET row == <<spool[n], n>> IN
    /\ spool[n] \in Campaigns
    /\ spool' = [spool EXCEPT ![n] = NoFile]
    /\ stream' = Follow(n, [tmp |-> "tmp", spool |-> "none"])
    /\ calling' = calling \cup {row}
    /\ dialled' = [dialled EXCEPT ![row] = @ + 1]
    /\ UNCHANGED <<status, tmp, cron, again, failed, crossed, runs, faults>>

\* It deletes one without text.
Discard(n) ==
    /\ spool[n] = Empty
    /\ spool' = [spool EXCEPT ![n] = NoFile]
    /\ stream' = Follow(n, [tmp |-> "tmp", spool |-> "none"])
    /\ UNCHANGED <<status, tmp, cron, calling, history, runs, faults>>

\* mark_call_as_completed, when the number answers
Answered(row) ==
    /\ row \in calling
    /\ calling' = calling \ {row}
    /\ status' = [status EXCEPT ![row] = "completed"]
    /\ UNCHANGED <<files, cron, history, runs, faults>>

\* It does not answer, as often as it is tried.
NotAnswered(row) ==
    /\ row \in calling
    /\ calling' = calling \ {row}
    /\ UNCHANGED <<status, files, cron, history, runs, faults>>

Asterisk == \/ \E n \in Numbers : Dial(n) \/ Discard(n)
            \/ \E row \in Rows : Answered(row) \/ NotAnswered(row)

Next == (\E k \in Crons : Cron(k)) \/ Asterisk

Spec == Init /\ [][Next]_vars

-----------------------------------------------------------------------------
\* Two campaigns have number n.
Shared(n) == \E r1, r2 \in Rows : r1 # r2 /\ NumberOf(r1) = n /\ NumberOf(r2) = n
Spooled(row) == spool[NumberOf(row)] = CampaignOf(row)

\* A number that is not new any more has been dialled or is about to be, whenever
\* a run is killed, and also when two runs have it in hand: unless its call file
\* could not be written or moved, the two were making that file at the same moment,
\* or another campaign has the number and its file took the place of this one.
TakenIsDialled ==
    \A row \in Rows \ (failed \cup crossed) :
        status[row] # "new" /\ ~Shared(NumberOf(row)) => dialled[row] > 0 \/ Spooled(row)

\* A number is dialled once for a campaign, and once more only for a run that took
\* it while another had it in hand, and for one that wrote its call file and did
\* not record it: another run may move the file.
DialledAgainForAReason ==
    \A row \in Rows : dialled[row] + (IF Spooled(row) THEN 1 ELSE 0) <= 1 + again[row]

=============================================================================
