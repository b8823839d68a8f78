------------------------------- MODULE Domain -------------------------------
(***************************************************************************)
(* The pure part of the ledger: fides-server/src/domain and the conversion *)
(* helpers at the end of service/ledger.rs.  No state, only operators; the *)
(* modules that have state extend this one.                                *)
(*                                                                         *)
(* Amounts and balances are i64 in the code.  The width is the constant    *)
(* MaxI64, so that a model checker meets the limits with small numbers and *)
(* a proof covers the real one.                                            *)
(***************************************************************************)
EXTENDS Integers, Sequences, FiniteSetsExt, Folds

CONSTANT MaxI64  \* i64::MAX (and the largest BIGINT of the database)

ASSUME MaxI64Assumption == MaxI64 \in Nat \ {0}

MinI64 == -MaxI64 - 1

I64 == MinI64 .. MaxI64

-----------------------------------------------------------------------------
(* Types. *)

AccountType == {"Asset", "Liability", "Equity", "Revenue", "Expense"}

EntryType == {"Debit", "Credit"}

\* TransactionStatus::Failed exists in the code but nothing ever writes it;
\* an entry has the first three only.
EntryStatus == {"Pending", "Posted", "Voided"}

TransactionStatus == EntryStatus \cup {"Failed"}

\* A leg as it arrives in the request: every field is an unchecked integer.
ProtoLeg == [account_id : Int, entry_type : Int, amount : I64]

\* A leg that parse_transfer_legs accepted.
TransferLeg == [account : Nat \ {0}, type : EntryType, amount : 1 .. MaxI64]

-----------------------------------------------------------------------------
(* Loops and arithmetic. *)

\* A `for` loop over s: turn(state, element) for one element after the other.
loop(turn(_, _), start, s) ==
  MapThenFoldSet(LAMBDA i, state : turn(state, s[i]), start,
                 LAMBDA i : i, LAMBDA S : Max(S), DOMAIN s)

\* i64::saturating_add.
saturating_add(x, y) ==
  IF x + y \in I64 THEN x + y ELSE IF x + y > MaxI64 THEN MaxI64 ELSE MinI64

saturating_sub(x, y) == saturating_add(x, -y)

\* `x as u8` of an i32: the low eight bits.
as_u8(x) == x % 256

-----------------------------------------------------------------------------
(* Accounting rules. *)

normal_balance(t) == IF t \in {"Asset", "Expense"} THEN "Debit" ELSE "Credit"

\* The sign convention with its two sides exchanged.
compute_balance_delta_flipped(normal, type, amount) ==
  IF normal = type THEN -amount ELSE amount

compute_balance_delta(normal, type, amount) ==
  IF normal = type THEN amount ELSE -amount

\* AccountBalance of the cache: posted, pending and what is left of them.
available(balance) == saturating_sub(balance.posted, balance.pending)

has_available(balance, amount) == available(balance) >= amount

\* Does this leg take money out of an account of type t?
reduces_balance(t, leg) == normal_balance(t) # leg.type

\* A second leg of an account replaces the first one's delta.
leg_delta_last(t, legs, a) ==
  loop(LAMBDA last, leg :
         IF leg.account = a
         THEN compute_balance_delta(normal_balance(t), leg.type, leg.amount)
         ELSE last,
       0, legs)

\* What `balance_updates` accumulates for account a of type t over the legs:
\* the loops add or subtract one delta per leg of that account.
leg_delta(t, legs, a) ==
  loop(LAMBDA sum, leg :
         IF leg.account = a
         THEN sum + compute_balance_delta(normal_balance(t), leg.type, leg.amount)
         ELSE sum,
       0, legs)

-----------------------------------------------------------------------------
(* Validation. *)

EntryTypeOfProto == <<"Debit", "Credit">>

AccountTypeOfProto == <<"Asset", "Liability", "Equity", "Revenue", "Expense">>

\* AccountId::new, proto_to_entry_type, Amount::new and TransferLeg::new; each
\* failure becomes InvalidArgument, so their order is immaterial.
leg_parses(leg) ==
  /\ leg.account_id > 0
  /\ leg.entry_type \in DOMAIN EntryTypeOfProto
  /\ leg.amount > 0

parse_transfer_legs(proto_legs) ==
  [i \in DOMAIN proto_legs |->
     [account |-> proto_legs[i].account_id,
      type    |-> EntryTypeOfProto[proto_legs[i].entry_type],
      amount  |-> proto_legs[i].amount]]

\* One turn of the loop with a plain `+=`: no overflow is noticed.
add_unchecked(totals, type, amount) ==
  [ok |-> totals.ok,
   debits |-> totals.debits + (IF type = "Debit" THEN amount ELSE 0),
   credits |-> totals.credits + (IF type = "Credit" THEN amount ELSE 0)]

\* One turn of a checked_add loop: `ok` turns FALSE at the first overflow.
add_checked(totals, type, amount) ==
  LET debits  == totals.debits + (IF type = "Debit" THEN amount ELSE 0)
      credits == totals.credits + (IF type = "Credit" THEN amount ELSE 0)
  IN  [ok |-> totals.ok /\ debits \in I64 /\ credits \in I64,
       debits |-> debits, credits |-> credits]

ZeroTotals == [ok |-> TRUE, debits |-> 0, credits |-> 0]

leg_totals(legs) ==
  loop(LAMBDA totals, leg : add_checked(totals, leg.type, leg.amount), ZeroTotals, legs)

\* The comparison of the two totals left out.
balance_unvalidated(legs) ==
  IF Len(legs) < 2 THEN "InvalidArgument"
  ELSE IF ~leg_totals(legs).ok THEN "Internal" ELSE "Ok"

\* "Ok" or the ServiceError that From<ValidationError> makes of the failure:
\* InsufficientLegs is InvalidArgument, SumOverflow is Internal.
validate_transaction_balance(legs) ==
  LET totals == leg_totals(legs)
  IN  IF Len(legs) < 2 THEN "InvalidArgument"
      ELSE IF ~totals.ok THEN "Internal"
      ELSE IF totals.debits # totals.credits THEN "UnbalancedTransaction"
      ELSE "Ok"

-----------------------------------------------------------------------------
(* Recomputing a balance from entries [type, amount, status] of an account. *)

entry_totals(entries, status) ==
  loop(LAMBDA totals, e :
         IF e.status = status THEN add_checked(totals, e.type, e.amount) ELSE totals,
       ZeroTotals, entries)

net(normal, totals) ==
  IF normal = "Debit" THEN totals.debits - totals.credits
                      ELSE totals.credits - totals.debits

\* ok = FALSE stands for the two overflow errors.
compute_account_balance(normal, entries) ==
  LET posted  == entry_totals(entries, "Posted")
      pending == entry_totals(entries, "Pending")
      p       == net(normal, posted)
      q       == net(normal, pending)
  IN  [ok |-> posted.ok /\ pending.ok /\ {p, q, p - q} \subseteq I64,
       posted |-> p, pending |-> q, available |-> p - q]
=============================================================================
