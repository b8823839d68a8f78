------------------------------ MODULE MCDomain ------------------------------
(***************************************************************************)
(* The operators of Domain against reference definitions, on every list of *)
(* entries up to MaxEntries.  A state is such a list; a step appends.      *)
(***************************************************************************)
EXTENDS Domain

CONSTANTS MaxEntries, SomeAccounts

VARIABLE entries

SomeEntries == [account : SomeAccounts, type : EntryType, amount : 1 .. MaxI64, status : EntryStatus]

Init == entries = <<>>

\* One more leg reaches the loop.
AppendEntry == Len(entries) < MaxEntries /\ \E e \in SomeEntries : entries' = Append(entries, e)

Next == AppendEntry

Spec == Init /\ [][Next]_entries

-----------------------------------------------------------------------------
\* The amounts of one side, added up as integers of any size.
Side(s, type) ==
  MapThenSumSet(LAMBDA i : s[i].amount, {i \in DOMAIN s : s[i].type = type})

\* validate_transaction_balance accepts exactly the lists of two or more legs
\* whose sides are equal and fit in i64, although it adds one leg at a time and
\* stops at the first overflow.
ValidationIsExact ==
  validate_transaction_balance(entries) = "Ok" <=>
    /\ Len(entries) >= 2
    /\ Side(entries, "Debit") = Side(entries, "Credit")
    /\ Side(entries, "Debit") <= MaxI64

\* The unchecked `+=` and `-=` on balance_updates cannot overflow: for legs that
\* passed validation every partial sum, of any account, stays within i64.
DeltasNeverOverflow ==
  validate_transaction_balance(entries) = "Ok" =>
    \A t \in AccountType, a \in SomeAccounts, n \in 0 .. Len(entries) :
      {leg_delta(t, SubSeq(entries, 1, n), a), -leg_delta(t, SubSeq(entries, 1, n), a)} \subseteq I64

Of(a, status) == SelectSeq(entries, LAMBDA e : e.account = a /\ e.status = status)

\* Adding deltas transaction by transaction and recomputing a balance from all
\* entries are the same: compute_account_balance, when it does not overflow,
\* returns what the deltas of the posted and of the pending entries come to.
RecomputationAgrees ==
  \A t \in AccountType, a \in SomeAccounts :
    LET own == SelectSeq(entries, LAMBDA e : e.account = a)
        b   == compute_account_balance(normal_balance(t), own)
    IN  b.ok => /\ b.posted = leg_delta(t, Of(a, "Posted"), a)
                /\ b.pending = leg_delta(t, Of(a, "Pending"), a)
                /\ b.available = b.posted - b.pending
=============================================================================
