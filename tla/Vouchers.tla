------------------------------ MODULE Vouchers ------------------------------
(***************************************************************************)
(* Callers who fill their balance with a voucher: the AGI program          *)
(* mor_usevoucher, once per call.                                          *)
(*                                                                         *)
(* A session looks a voucher up, adds its value to the balance of the user *)
(* and of the reseller the user belongs to, and marks the voucher last.    *)
(* These are separate statements without a transaction; their results are  *)
(* ignored, and the caller may hang up before any of them.                 *)
(*                                                                         *)
(* The value of a voucher is not told apart from the voucher: the books    *)
(* say how often it has been credited and entered as a payment.            *)
(***************************************************************************)
EXTENDS Integers, FiniteSets

CONSTANTS
    Sessions,    \* the calls to the program
    Users,
    Vouchers,
    Cards,       \* the calling cards
    Nobody,
    Owner,       \* the reseller of each user, or Nobody
    SameNumber,  \* the card with the number of a voucher, or Nobody
    Disable,     \* the setting Voucher_Card_Disable
    MaxTries     \* how often a session may ask for a number, 3 in the code

VARIABLES
    used,     \* vouchers.user_id
    book,     \* the entries made for each voucher
    vcall,    \* the sessions
    cards,    \* the calling cards, see CardTopup
    left,     \* how many sessions, hang-ups and failures are still to come
    spare,    \* history: how often a voucher may have been credited once more
    short     \* history: vouchers for which a statement failed

own == <<used, book, vcall, spare, short>>
vars == <<own, cards, left>>

Idle == [pc |-> "idle", user |-> Nobody, voucher |-> Nobody, tries |-> 0]

NoEntries == [credit |-> 0, payment |-> 0, owner_credit |-> 0, owner_payment |-> 0]

\* The statements of a session that has found a voucher, in their order.
Statements == {"credit", "payment", "owner_credit", "owner_payment", "mark", "block"}

At(s, pc) == vcall[s].pc = pc

\* The sessions that have found v and have not marked it yet.
InHand(v) == {s \in Sessions : vcall[s].voucher = v /\ vcall[s].pc \in Statements \ {"block"}}

\* Mutation of After: the voucher is marked before it is credited to a reseller.
AfterEarly(s) ==
    CASE At(s, "credit")        -> "payment"
      [] At(s, "payment")       -> "mark"
      [] At(s, "mark")          -> IF Owner[vcall[s].user] = Nobody THEN "block" ELSE "owner_credit"
      [] At(s, "owner_credit")  -> "owner_payment"
      [] At(s, "owner_payment") -> "block"
      [] OTHER                  -> "idle"

\* The statement after the one session s is at.
After(s) ==
    CASE At(s, "credit")        -> "payment"
      [] At(s, "payment")       -> IF Owner[vcall[s].user] = Nobody THEN "mark" ELSE "owner_credit"
      [] At(s, "owner_credit")  -> "owner_payment"
      [] At(s, "owner_payment") -> "mark"
      [] At(s, "mark")          -> "block"
      [] OTHER                  -> "idle"

Goto(s, pc) ==
    vcall' = [vcall EXCEPT ![s] = IF pc = "idle" THEN Idle ELSE [@ EXCEPT !.pc = pc]]

Event(kind) == left[kind] > 0 /\ left' = [left EXCEPT ![kind] = @ - 1]

-----------------------------------------------------------------------------
Init ==
    /\ used = [v \in Vouchers |-> Nobody]
    /\ book = [v \in Vouchers |-> NoEntries]
    /\ vcall = [s \in Sessions |-> Idle]
    /\ spare = [v \in Vouchers |-> 0]
    /\ short = {}

\* A user calls, and is recognised by device, caller id or PIN.
Begin(s, u) ==
    /\ At(s, "idle") /\ Event("sessions")
    /\ vcall' = [vcall EXCEPT ![s] = [Idle EXCEPT !.pc = "ask", !.user = u]]
    /\ UNCHANGED <<used, book, cards, spare, short>>

\* The number entered is that of an unused voucher.
Find(s, v) ==
    /\ At(s, "ask")
    /\ used[v] = Nobody
    /\ vcall' = [vcall EXCEPT ![s].pc = "credit", ![s].voucher = v]
    /\ spare' = IF InHand(v) = {} THEN spare ELSE [spare EXCEPT ![v] = @ + 1]
    /\ UNCHANGED <<used, book, cards, left, short>>

\* It is not, or the voucher has expired, or the query fails.
FindNone(s) ==
    /\ At(s, "ask")
    /\ IF vcall[s].tries + 1 < MaxTries
         THEN vcall' = [vcall EXCEPT ![s].tries = @ + 1]
         ELSE Goto(s, "idle")
    /\ UNCHANGED <<used, book, cards, left, spare, short>>

\* An entry that statement pc makes in the books.
Enter(s, pc) ==
    /\ At(s, pc)
    /\ book' = [book EXCEPT ![vcall[s].voucher][pc] = @ + 1]
    /\ Goto(s, After(s))
    /\ UNCHANGED <<used, cards, left, spare, short>>

UpdateBalance(s) == Enter(s, "credit")
InsertPayment(s) == Enter(s, "payment")
UpdateOwnerBalance(s) == Enter(s, "owner_credit")
InsertOwnerPayment(s) == Enter(s, "owner_payment")

\* Mutation of MarkUsed: a voucher of a reseller's user is not marked.
MarkUsedDirect(s) ==
    /\ At(s, "mark")
    /\ used' = IF Owner[vcall[s].user] = Nobody
                 THEN [used EXCEPT ![vcall[s].voucher] = vcall[s].user] ELSE used
    /\ Goto(s, After(s))
    /\ UNCHANGED <<book, cards, left, spare, short>>

MarkUsed(s) ==
    /\ At(s, "mark")
    /\ used' = [used EXCEPT ![vcall[s].voucher] = vcall[s].user]
    /\ Goto(s, After(s))
    /\ UNCHANGED <<book, cards, left, spare, short>>

\* check_duplicate_card
BlockCard(s) ==
    LET c == SameNumber[vcall[s].voucher] IN
    /\ At(s, "block")
    /\ cards' = IF Disable /\ c # Nobody THEN [cards EXCEPT ![c].sold = FALSE] ELSE cards
    /\ Goto(s, After(s))
    /\ UNCHANGED <<used, book, left, spare, short>>

\* A session leaves a voucher credited and unmarked.
Unmarked(s) ==
    spare' = IF vcall[s].pc \in Statements \ {"credit", "block"}
               THEN [spare EXCEPT ![vcall[s].voucher] = @ + 1] ELSE spare

\* A statement fails.
Fails(s) ==
    /\ vcall[s].pc \in Statements
    /\ Event("faults")
    /\ Goto(s, After(s))
    /\ IF At(s, "mark") THEN Unmarked(s) ELSE UNCHANGED spare
    /\ short' = short \cup {vcall[s].voucher}
    /\ UNCHANGED <<used, book, cards>>

\* The caller hangs up and the program is killed.
Hangup(s) ==
    /\ vcall[s].pc \in Statements
    /\ Event("faults")
    /\ Goto(s, "idle")
    /\ Unmarked(s)
    /\ UNCHANGED <<used, book, cards, short>>

Statement(s) ==
    \/ UpdateBalance(s) \/ InsertPayment(s)
    \/ UpdateOwnerBalance(s) \/ InsertOwnerPayment(s)
    \/ MarkUsed(s) \/ BlockCard(s)

Next ==
    \E s \in Sessions :
        \/ \E u \in Users : Begin(s, u)
        \/ \E v \in Vouchers : Find(s, v)
        \/ FindNone(s) \/ Statement(s) \/ Fails(s) \/ Hangup(s)

-----------------------------------------------------------------------------
TypeOK ==
    /\ used \in [Vouchers -> Users \cup {Nobody}]
    /\ book \in [Vouchers -> [{"credit", "payment", "owner_credit", "owner_payment"} -> Nat]]
    /\ vcall \in [Sessions -> [pc : {"idle", "ask"} \cup Statements,
                               user : Users \cup {Nobody},
                               voucher : Vouchers \cup {Nobody},
                               tries : 0 .. MaxTries - 1]]
    /\ spare \in [Vouchers -> Nat]
    /\ short \subseteq Vouchers

\* A voucher is credited once, and once more only for a session that found it
\* while another had it in hand, and for one that left it unmarked.
VoucherPaysOnce == \A v \in Vouchers : book[v].credit <= 1 + spare[v]

\* A voucher that is marked has been paid out in full, to its user and to the
\* reseller: a caller who hangs up never loses the money.  Unless a statement
\* failed.
MarkedIsPaid ==
    \A v \in Vouchers \ short : used[v] # Nobody =>
        /\ book[v].credit > 0 /\ book[v].payment > 0
        /\ Owner[used[v]] # Nobody => book[v].owner_credit > 0 /\ book[v].owner_payment > 0

=============================================================================
