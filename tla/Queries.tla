------------------------------ MODULE Queries ------------------------------
(***************************************************************************)
(* The queries of the token (contract.rs query_*, allowances.rs            *)
(* query_allowance, enumerable.rs), and a client that lists the allowances *)
(* of an owner, of a spender, or all accounts, page by page, while         *)
(* transactions go on adding and removing what it lists.                   *)
(*                                                                         *)
(* A query sees the store of the last finished transaction.  The store     *)
(* keeps its entries in the order of the bytes of their keys.              *)
(*                                                                         *)
(* A definition under the comment "Wrong:" is a bug the code does not have.*)
(***************************************************************************)
EXTENDS Cw20Taxed

CONSTANTS
    Rank,         \* Rank[a]: the place of the address a in the order of bytes
    MAX_LIMIT,    \* no page is longer, 30 in the code
    DEFAULT_LIMIT,\* the length of a page nobody gave a limit for, 10 in the code
    Listings      \* the listings the client may ask for

VARIABLES
    accounts,   \* the keys of BALANCES, now and when no transaction ran last
    listing,    \* what the client is listing, None when it is idle
    start_after,\* the last key of the page before, None on the first page
    listed,     \* the keys of all pages so far
    throughout, \* history: the keys that were there since the first page
    complete    \* the client took a page to be the last

client_vars == <<listing, start_after, listed, throughout, complete>>
query_vars == <<vars, accounts, client_vars>>

Listing == [of : {"owner", "spender"}, address : Addr, limit : Nat \cup {None}]
           \cup [of : {"accounts"}, limit : Nat \cup {None}]

\* A client that asks for pages of no entries never gets any.
ASSUME QueriesAssumption ==
    /\ Rank \in [Addr -> Nat]
    /\ \A a, b \in Addr : Rank[a] = Rank[b] => a = b
    /\ MAX_LIMIT \in Nat \ {0}
    /\ DEFAULT_LIMIT \in Nat \ {0}
    /\ Listings \subseteq {l \in Listing : l.limit # 0}

-----------------------------------------------------------------------------
\* Queries of single items.

QueryBalance(a) == balances[a]
QueryMinter == token_info.mint
QueryTotalSupply == token_info.total_supply

\* An allowance nobody set is the default one.
QueryAllowance(owner, spender) == EntryOf(allowances[<<owner, spender>>])

-----------------------------------------------------------------------------
\* Pages.

\* The keys a query ranges over: the prefix of an owner or a spender.
KeysOf(l, store_now, accounts_now) ==
    CASE l.of = "owner" -> {a \in Addr : store_now.allowances[<<l.address, a>>] # None}
      [] l.of = "spender" -> {a \in Addr : store_now.allowances_spender[<<l.address, a>>] # None}
      [] l.of = "accounts" -> accounts_now

\* Wrong: a limit above DEFAULT_LIMIT is cut to it.
PageLimitDefault(limit) ==
    IF limit = None \/ limit > DEFAULT_LIMIT THEN DEFAULT_LIMIT ELSE limit

PageLimit(limit) ==
    LET asked == IF limit = None THEN DEFAULT_LIMIT ELSE limit
    IN  IF asked < MAX_LIMIT THEN asked ELSE MAX_LIMIT

\* Wrong: Bound::InclusiveRaw.
AfterInclusive(keys, start) ==
    {k \in keys : start = None \/ Rank[start] <= Rank[k]}

\* Bound::ExclusiveRaw; the start need not be a key (any more).
After(keys, start) == {k \in keys : start = None \/ Rank[start] < Rank[k]}

\* take(limit), in ascending order.
First(keys, n) == {k \in keys : Cardinality({j \in keys : Rank[j] <= Rank[k]}) <= n}

\* Wrong: the bound is applied after take.
PageTakenFirst(keys, start, limit) == After(First(keys, PageLimit(limit)), start)

Page(keys, start, limit) == First(After(keys, start), PageLimit(limit))

-----------------------------------------------------------------------------
\* The ledger, with the entries of BALANCES.

\* Wrong: only the payer is.
TouchedPayer(m) == IF m.op \in {"transfer", "send", "burn"} THEN {m.sender} ELSE {}

\* update and save write an entry for every address they are asked for, also when
\* the amount is 0: the tax, mostly 0, creates the entry of the contract.
Touched(m) ==
    CASE m.op \in {"transfer", "send"} -> {m.sender, m.recipient, Self}
      [] m.op \in {"transfer_from", "send_from"} -> {m.owner, m.recipient, Self}
      [] m.op = "burn" -> {m.sender}
      [] m.op = "burn_from" -> {m.owner}
      [] m.op = "mint" -> {m.recipient}
      [] OTHER -> {}

EntriesKept == accounts' = [accounts EXCEPT !.saved = IF pending' = <<>> THEN accounts.now ELSE @]
EntriesTouched ==
    LET now == accounts.now \cup Touched(Head(pending))
    IN  accounts' = [now |-> now, saved |-> IF pending' = <<>> THEN now ELSE accounts.saved]

\* What the client can no longer count on.
History ==
    /\ throughout' = IF listing = None THEN throughout
                     ELSE throughout \cap KeysOf(listing, committed', accounts'.saved)
    /\ UNCHANGED <<listing, start_after, listed, complete>>

Chain ==
    \/ (Submit \/ NextBlock) /\ UNCHANGED <<accounts, client_vars>>
    \/ Receive /\ EntriesKept /\ History
    \/ Execute /\ EntriesTouched /\ History
    \/ Fail /\ accounts' = [accounts EXCEPT !.now = accounts.saved] /\ History

-----------------------------------------------------------------------------
\* The client.

Keys == KeysOf(listing, committed, accounts.saved)

Ask ==
    /\ listing = None \/ complete
    /\ listing' \in Listings
    /\ start_after' = None
    /\ listed' = {}
    /\ throughout' = KeysOf(listing', committed, accounts.saved)
    /\ complete' = FALSE
    /\ UNCHANGED <<vars, accounts>>

\* The page is shorter than the one asked for, and than any page may be: the client
\* knows MAX_LIMIT, which the answer does not mention.
Short(page, limit) ==
    /\ Cardinality(page) < (IF limit = None THEN DEFAULT_LIMIT ELSE limit)
    /\ Cardinality(page) < MAX_LIMIT

\* One query: the next page starts after the last key of this one.  An empty page is
\* the last; a client in a hurry takes a short one to be the last, too.
NextPage ==
    /\ listing # None /\ ~complete
    /\ LET page == Page(Keys, start_after, listing.limit)
       IN  /\ listed' = listed \cup page
           /\ complete' \in BOOLEAN
           /\ page = {} => complete'
           /\ complete' => Short(page, listing.limit)
           /\ start_after' = IF page = {} THEN start_after
                             ELSE CHOOSE k \in page : \A j \in page : Rank[j] <= Rank[k]
    /\ UNCHANGED <<vars, accounts, listing, throughout>>

QueryInit ==
    /\ Init
    \* An initial balance, 0 or not, has an entry; here those that are not 0.
    /\ accounts = LET holders == {a \in Addr : balances[a] > 0}
                  IN  [now |-> holders, saved |-> holders]
    /\ listing = None
    /\ start_after = None
    /\ listed = {}
    /\ throughout = {}
    /\ complete = FALSE

QueryNext == Chain \/ Ask \/ NextPage

\* The chain goes on, and a client that began a listing asks for its next page.
QuerySpec ==
    /\ QueryInit
    /\ [][QueryNext]_query_vars
    /\ WF_vars(TxStep) /\ WF_query_vars(NextPage)

-----------------------------------------------------------------------------
\* Properties.

\* A complete listing has every entry that was there from the first page to the
\* last, whatever was added and removed in between, the entry the client stopped
\* at included, and also for a client that does not ask on after a short page.
NothingMissed == listing # None /\ complete => throughout \subseteq listed

\* No page repeats a key of an earlier one, also when an entry that was listed is
\* removed and set again.
NothingTwice ==
    [][NextPage => Page(Keys, start_after, listing.limit) \cap listed = {}]_query_vars

\* An account that holds tokens is among the accounts.
HoldersHaveEntries == \A a \in Addr : balances[a] > 0 => a \in accounts.now

\* A listing ends, although entries may be set again and again.
ListingEnds == listing # None ~> complete
=============================================================================
