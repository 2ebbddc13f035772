------------------------------ MODULE Prepaid -------------------------------
(***************************************************************************)
(* Vouchers and calling cards together.  They meet in the cards: a voucher *)
(* that is used may block the card with the same number.                   *)
(***************************************************************************)
EXTENDS Integers, FiniteSets

CONSTANTS Sessions, Users, Vouchers, Cards, Nobody, Owner, SameNumber, Disable, MaxTries,
          Admin, Distributor, Price, MayOwe, Unit, FaceValue, Deposit,
          MaxSessions,  \* bound: how many sessions there will be
          MaxCalls,     \* bound: how many calls will be made with cards
          MaxFaults     \* bound: how many statements fail, callers hang up and ids of no card

ASSUME PrepaidAssumption ==
    /\ Nobody \notin Users \cup Vouchers \cup Cards \cup {Admin}
    /\ IsFiniteSet(Sessions) /\ IsFiniteSet(Cards)
    /\ SameNumber \in [Vouchers -> Cards \cup {Nobody}]
    /\ Disable \in BOOLEAN
    /\ MayOwe \in [{Distributor[c] : c \in Cards} \ {Nobody} -> Nat \cup {-1}]
    /\ Unit \in Nat \ {0}
    /\ Price \in Nat /\ FaceValue \in Nat /\ Deposit \in Nat
    /\ MaxTries \in Nat \ {0}

VARIABLES used, book, vcall, spare, short,
          cards, calls, distr, tcall, touch, spent, slack, charged, upset,
          left,
          blocked   \* history: the cards that vouchers have blocked

V == INSTANCE Vouchers
T == INSTANCE CardTopup

voucherVars == <<used, book, vcall, spare, short>>
topupVars == <<calls, distr, tcall, touch, spent, slack, charged, upset>>
vars == <<voucherVars, topupVars, cards, left, blocked>>

Init ==
    /\ V!Init /\ T!Init
    /\ left = [sessions |-> MaxSessions, calls |-> MaxCalls, faults |-> MaxFaults]
    /\ blocked = {}

\* A session is of one of the two programs.
VoucherStep ==
    /\ V!Next
    /\ \A s \in Sessions : vcall'[s].pc = "idle" \/ tcall[s].pc = "idle"
    /\ blocked' = blocked \cup {c \in Cards : cards[c].sold /\ ~cards'[c].sold}
    /\ UNCHANGED topupVars

TopupStep ==
    /\ T!Next
    /\ \A s \in Sessions : vcall[s].pc = "idle" \/ tcall'[s].pc = "idle"
    /\ UNCHANGED <<voucherVars, blocked>>

Next == VoucherStep \/ TopupStep

Spec == Init /\ [][Next]_vars

-----------------------------------------------------------------------------
TypeOK == V!TypeOK /\ T!TypeOK /\ blocked \subseteq Cards

\* mor_usevoucher credits a voucher once, and once more only for a session that
\* found it while another had it in hand, and for one that left it unmarked.
VoucherPaysOnce == V!VoucherPaysOnce

\* A voucher that is marked has been paid out in full, to its user and to the
\* reseller, unless a statement failed.
MarkedIsPaid == V!MarkedIsPaid

\* mor_card_topup loses no money of the callers at any moment, whoever hangs up,
\* but what rounding takes: only a failed statement, two sessions that cross, and
\* a card A that does not exist, do.
NoMoneyIsLost == T!NoMoneyIsLost

\* Nor does it make any, but what rounding adds, unless something gets in between.
NoMoneyIsMade == T!NoMoneyIsMade

\* A distributor pays for the first use of a card once.
DistributorPaysOnce == T!DistributorPaysOnce

\* A card that was blocked because its number was used as a voucher is not taken
\* for a top-up any more; unless cards are sold by their first use, where a card
\* that a distributor has need not be sold to be taken, and where a session that
\* charges for an earlier card it had tried sells the one it has in hand again.
BlockedIsNotTaken ==
    [][\A s \in Sessions, c \in blocked :
         /\ tcall[s].pc = "ask" /\ tcall'[s].pc = "credit" /\ tcall'[s].b = c
         => touch /\ (Distributor[c] # Nobody \/ upset \cap {"stale", "failed"} # {})]_vars

=============================================================================
