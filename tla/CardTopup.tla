----------------------------- MODULE CardTopup ------------------------------
(***************************************************************************)
(* Callers who move the balance of one calling card to another: the AGI    *)
(* program mor_card_topup, once per call.                                  *)
(*                                                                         *)
(* A session reads the balance of card B, adds it to card A, and sets B to *)
(* zero.  What it adds is rounded to six decimals, while the table has     *)
(* fifteen.  With the setting Charge_Distributor_on_first_use a card that  *)
(* has not been used yet is sold by its top-up, and the distributor who    *)
(* has it pays its price.  The statements are separate, their results are  *)
(* ignored, and the caller may hang up before any of them.                 *)
(***************************************************************************)
EXTENDS Integers, FiniteSets, Functions

CONSTANTS
    Sessions,
    Cards,
    Nobody,
    Admin,       \* user 0
    Distributor, \* cards.user_id: the distributor who has a card, Admin or Nobody
    Price,       \* what the distributor pays for a card
    MayOwe,       \* what each distributor may owe: -1 if there is no limit, and
                 \* nothing if the distributor is prepaid
    Unit,        \* balances are printed as multiples of it
    FaceValue,   \* the balance of a card at first
    Deposit,     \* the balance of each distributor at first
    MaxTries     \* how often a session may ask for card B, 3 in the code

Distributors == {Distributor[c] : c \in Cards} \ {Nobody}

VARIABLES
    cards,    \* balance, sold, and whether first_use is set
    calls,    \* activecalls: the calls made with a card now
    distr,    \* the balances of the distributors
    tcall,    \* the sessions
    touch,    \* the setting Charge_Distributor_on_first_use
    left,     \* how many sessions, calls and faults are to come
    spent,    \* history: what calls have cost
    slack,    \* history: twice what rounding may have added or taken away
    charged,  \* history: how often a distributor paid for a card
    upset     \* history: what has happened, see Upsets

own == <<calls, distr, tcall, touch, spent, slack, charged, upset>>
vars == <<own, cards, left>>

\* failed     a statement failed
\* hangup     a caller hung up between the statements
\* shared     two sessions had the same card B
\* crossed    a session added to a card that another one was about to empty
\* called     a call was made with a card B
\* unmatched  there is no card with the id of card A
\* stale      a session charges for an earlier card it had tried
Upsets == {"failed", "hangup", "shared", "crossed", "called", "unmatched", "stale"}

Idle == [pc |-> "idle", a |-> Nobody, b |-> Nobody, amount |-> 0, tries |-> 0,
         charge |-> FALSE, fresh |-> FALSE]

Statements == {"credit", "charge", "empty"}

At(s, pc) == tcall[s].pc = pc

\* The sessions that are about to empty card c.
InHand(c) == {s \in Sessions : tcall[s].b = c /\ tcall[s].pc \in Statements}

\* Whether the session charges the distributor.
Charges(s) == touch /\ tcall[s].charge

\* Mutation of After: card B is emptied before card A is credited.
AfterEmptied(s) ==
    CASE At(s, "ask")    -> "empty"
      [] At(s, "empty")  -> IF Charges(s) THEN "charge" ELSE "credit"
      [] At(s, "charge") -> "credit"
      [] OTHER           -> "idle"

\* What a session does next: after card B has been accepted, the statements.
After(s) ==
    CASE At(s, "ask")    -> "credit"
      [] At(s, "credit") -> IF Charges(s) THEN "charge" ELSE "empty"
      [] At(s, "charge") -> "empty"
      [] OTHER           -> "idle"

Goto(s, pc) ==
    tcall' = [tcall EXCEPT ![s] = IF pc = "idle" THEN Idle ELSE [@ EXCEPT !.pc = pc]]

Event(kind) == left[kind] > 0 /\ left' = [left EXCEPT ![kind] = @ - 1]

Upset(what) == upset' = upset \cup what

-----------------------------------------------------------------------------
Init ==
    /\ cards \in [Cards -> [balance : {FaceValue}, sold : BOOLEAN, used : {FALSE}]]
    /\ calls = [c \in Cards |-> 0]
    /\ distr = [d \in Distributors |-> Deposit]
    /\ tcall = [s \in Sessions |-> Idle]
    /\ touch \in BOOLEAN
    /\ spent = 0 /\ slack = 0
    /\ charged = [c \in Cards |-> 0]
    /\ upset = {}

\* Card A is found by its caller id, PIN or number, or it is said by the dial plan
\* to be the one with some id; a mistake there is an id that no card has.
Begin(s, a) ==
    /\ At(s, "idle")
    /\ \/ a \in Cards /\ Event("sessions")
       \/ /\ a \notin Cards /\ left.sessions > 0 /\ left.faults > 0
          /\ left' = [left EXCEPT !.sessions = @ - 1, !.faults = @ - 1]
    /\ tcall' = [tcall EXCEPT ![s] = [Idle EXCEPT !.pc = "ask", !.a = a]]
    /\ UNCHANGED <<cards, calls, distr, touch, spent, slack, charged, upset>>

\* The first use of a card that a distributor has.
FirstUse(b) == touch /\ ~cards[b].used /\ Distributor[b] \notin {Nobody, Admin}

CanPay(b) ==
    LET d == Distributor[b] IN MayOwe[d] = -1 \/ MayOwe[d] + (distr[d] - Price) >= 0

\* Mutation of Accepted: a card with active calls is accepted.
AcceptedOnCall(s, b) ==
    /\ b # tcall[s].a
    /\ cards[b].sold \/ (touch /\ Distributor[b] # Nobody)
    /\ cards[b].balance > 0
    /\ FirstUse(b) => CanPay(b)

\* Mutation of Accepted: whether the card is sold does not matter.
AcceptedUnsold(s, b) ==
    /\ calls[b] = 0
    /\ b # tcall[s].a
    /\ cards[b].balance > 0
    /\ FirstUse(b) => CanPay(b)

\* The checks on card B: valid cards only.
Accepted(s, b) ==
    /\ calls[b] = 0
    /\ b # tcall[s].a
    /\ cards[b].sold \/ (touch /\ Distributor[b] # Nobody)
    /\ cards[b].balance > 0
    /\ FirstUse(b) => CanPay(b)

\* What is kept of a card B that was tried, accepted or not: once set, the mark
\* that a distributor is to be charged stays for the next card.
Tried(s, b) ==
    [tcall[s] EXCEPT !.b = b, !.charge = @ \/ (FirstUse(b) /\ CanPay(b)),
                     !.fresh = FirstUse(b)]

\* The number is asked for again, but not for ever.
AskAgain(s, n) ==
    IF n.tries + 1 < MaxTries THEN [n EXCEPT !.tries = @ + 1] ELSE Idle

\* Card B is looked up and checked; it may have expired, too.
Find(s, b) ==
    /\ At(s, "ask")
    /\ \/ /\ Accepted(s, b)
          /\ tcall' = [tcall EXCEPT ![s] =
                [Tried(s, b) EXCEPT !.pc = After(s), !.amount = cards[b].balance]]
          /\ Upset(IF InHand(b) # {} THEN {"shared"} ELSE {})
       \/ /\ tcall' = [tcall EXCEPT ![s] = AskAgain(s, Tried(s, b))]
          /\ UNCHANGED upset
    /\ UNCHANGED <<cards, calls, distr, touch, left, spent, slack, charged>>

\* There is no such card, or the query fails.
FindNone(s) ==
    /\ At(s, "ask")
    /\ tcall' = [tcall EXCEPT ![s] = AskAgain(s, tcall[s])]
    /\ UNCHANGED <<cards, calls, distr, touch, left, spent, slack, charged, upset>>

\* "%f" prints the nearest multiple; of two that are as near, either.
Printed(amount) ==
    {p \in amount - Unit .. amount + Unit : p % Unit = 0 /\ 2 * (p - amount) \in -Unit .. Unit}

\* Card A is credited with what is printed, or the UPDATE matches no row.
Credit(s) ==
    LET a == tcall[s].a amount == tcall[s].amount IN
    /\ At(s, "credit")
    /\ \/ /\ a \in Cards
          /\ \E p \in Printed(amount) :
               /\ cards' = [cards EXCEPT ![a].balance = @ + p]
               /\ slack' = IF p = amount THEN slack ELSE slack + Unit
          /\ Upset(IF InHand(a) # {} THEN {"crossed"} ELSE {})
       \/ /\ a \notin Cards
          /\ UNCHANGED <<cards, slack>>
          /\ Upset({"unmatched"})
    /\ Goto(s, After(s))
    /\ UNCHANGED <<calls, distr, touch, left, spent, charged>>

\* The distributor of the card pays, if it has one.
Charge(s) ==
    LET b == tcall[s].b IN
    /\ At(s, "charge")
    /\ IF Distributor[b] = Nobody
         THEN UNCHANGED <<distr, charged>>
         ELSE /\ distr' = [distr EXCEPT ![Distributor[b]] = @ - Price]
              /\ charged' = [charged EXCEPT ![b] = @ + 1]
    /\ Upset(IF tcall[s].fresh THEN {} ELSE {"stale"})
    /\ Goto(s, After(s))
    /\ UNCHANGED <<cards, calls, touch, left, spent, slack>>

\* Mutation of Empty: a card that was not charged for is not marked as used.
EmptyUnused(s) ==
    LET b == tcall[s].b IN
    /\ At(s, "empty")
    /\ cards' = [cards EXCEPT ![b] =
         [balance |-> 0, sold |-> @.sold \/ Charges(s), used |-> @.used]]
    /\ Goto(s, After(s))
    /\ UNCHANGED <<calls, distr, touch, left, spent, slack, charged, upset>>

\* Card B is emptied, whatever it has by now.
Empty(s) ==
    LET b == tcall[s].b IN
    /\ At(s, "empty")
    /\ cards' = [cards EXCEPT ![b] =
         [balance |-> 0, sold |-> @.sold \/ Charges(s), used |-> TRUE]]
    /\ Goto(s, After(s))
    /\ UNCHANGED <<calls, distr, touch, left, spent, slack, charged, upset>>

\* A statement fails.
Fails(s) ==
    /\ tcall[s].pc \in Statements
    /\ Event("faults")
    /\ Goto(s, After(s))
    /\ Upset({"failed"})
    /\ UNCHANGED <<cards, calls, distr, touch, spent, slack, charged>>

\* The caller hangs up and the program is killed.
Hangup(s) ==
    /\ tcall[s].pc \in Statements
    /\ Event("faults")
    /\ Goto(s, "idle")
    /\ Upset({"hangup"})
    /\ UNCHANGED <<cards, calls, distr, touch, spent, slack, charged>>

-----------------------------------------------------------------------------
\* The core lets a call be made with a card that is sold and not empty.
CallBegins(c) ==
    /\ cards[c].sold /\ cards[c].balance > 0
    /\ Event("calls")
    /\ calls' = [calls EXCEPT ![c] = @ + 1]
    /\ cards' = [cards EXCEPT ![c].used = TRUE]
    /\ Upset(IF InHand(c) # {} THEN {"called"} ELSE {})
    /\ UNCHANGED <<distr, tcall, touch, spent, slack, charged>>

CallEnds(c) ==
    /\ calls[c] > 0
    /\ calls' = [calls EXCEPT ![c] = @ - 1]
    /\ cards' = [cards EXCEPT ![c].balance = @ - 1]
    /\ spent' = spent + 1
    /\ UNCHANGED <<distr, tcall, touch, left, slack, charged, upset>>

Statement(s) == Credit(s) \/ Charge(s) \/ Empty(s)

Next ==
    \/ \E s \in Sessions :
        \/ \E a \in Cards \cup {Nobody} : Begin(s, a)
        \/ \E b \in Cards : Find(s, b)
        \/ FindNone(s) \/ Statement(s) \/ Fails(s) \/ Hangup(s)
    \/ \E c \in Cards : CallBegins(c) \/ CallEnds(c)

-----------------------------------------------------------------------------
TypeOK ==
    /\ cards \in [Cards -> [balance : Int, sold : BOOLEAN, used : BOOLEAN]]
    /\ calls \in [Cards -> Nat]
    /\ distr \in [Distributors -> Int]
    /\ tcall \in [Sessions -> [pc : {"idle", "ask"} \cup Statements,
                               a : Cards \cup {Nobody}, b : Cards \cup {Nobody},
                               amount : Int, tries : 0 .. MaxTries - 1,
                               charge : BOOLEAN, fresh : BOOLEAN]]
    /\ touch \in BOOLEAN
    /\ spent \in Nat /\ slack \in Nat
    /\ charged \in [Cards -> Nat]
    /\ upset \subseteq Upsets

Money == FoldFunction(+, 0, [c \in Cards |-> cards[c].balance]) + spent

FirstMoney == FoldFunction(+, 0, [c \in Cards |-> FaceValue])

\* The callers lose no money at any moment, whoever hangs up, but what rounding
\* takes, half a unit by each top-up of an amount that is not printed exactly:
\* only by a failed statement, a card A that does not exist, or a session that
\* empties a card another one has just filled.
NoMoneyIsLost ==
    upset \cap {"failed", "crossed", "unmatched"} = {} => 2 * (FirstMoney - Money) <= slack

\* Nor do they gain any once all sessions are over, but what rounding adds, unless
\* something got in between.
NoMoneyIsMade ==
    upset \subseteq {"stale"} /\ (\A s \in Sessions : tcall[s].pc \notin Statements)
      => 2 * (Money - FirstMoney) <= slack

\* A distributor pays for a card once.
DistributorPaysOnce ==
    upset \cap {"failed", "hangup", "shared", "stale"} = {} =>
        \A c \in Cards : charged[c] <= 1

=============================================================================
