----------------------------- MODULE BlindBank -----------------------------
(***************************************************************************)
(* The bank's accounts (anonpay/banking/inmem/bank.go) behind its HTTP      *)
(* server and its retrying client (anonpay/banking/httpapi).                *)
(*                                                                         *)
(* A call is one operation of a client: WithdrawBatch, WithdrawFullUnblinded *)
(* or Deposit.  As in Payments, every attempt is a message that executes at  *)
(* most once, at any time.  Redeeming a credit is the abstract step that     *)
(* CreditLedger promises; the transfer IDs are not looked at by the server.  *)
(* Values are amounts; the bank's signatures are the value they stand for.   *)
(***************************************************************************)
EXTENDS Integers, Sequences, FiniteSets

CONSTANTS Accounts,
          Calls,
          OpOf,          \* Calls -> what the client asks for (see Operation)
          Opening,       \* the balance every existing account starts with
          Existing,      \* the accounts that exist at the start
          MaxReqs,       \* maxReqs of bank.go
          Representable, \* the amounts a currency value can stand for
          MaxTries,      \* bound: attempts of one call
          Lossy          \* whether attempts may time out, be late or be lost

\* A withdrawal is a sequence of sign requests, each a blinded message and an
\* amount (0 stands for a zero or a special value).
Operation ==
    [kind : {"withdraw"}, account : Accounts, reqs : Seq([msg : Nat, amount : Nat])]
    \cup [kind : {"full"}, account : Accounts]
    \cup [kind : {"deposit"}, account : Accounts, credit : Nat, amount : Nat]

ASSUME BlindBankAssumption ==
    /\ IsFiniteSet(Accounts) /\ IsFiniteSet(Calls)
    /\ \A c \in Calls : OpOf[c] \in Operation
    /\ Opening \in Nat /\ Existing \subseteq Accounts
    /\ MaxReqs \in Nat /\ MaxTries \in Nat \ {0} /\ Lossy \in BOOLEAN
    /\ Representable \subseteq Nat /\ 0 \in Representable

VARIABLES balance,    \* Accounts -> storedAccount.balance
          known,      \* the accounts in the map
          rounding,   \* the sum of roundingMutations
          redeemed,   \* the calls whose credit the locker has consumed
          crediting,  \* deposits between the commit and the balance
          late,       \* the calls with a Consume that Deposit gave up on and that
                      \* the locker may still execute
          stranded,   \* the redeemed calls that no account is credited for
          issuedBy,   \* Calls -> the value the bank has signed for the call
          pc,         \* Calls -> the client's state
          rpc,        \* Calls -> the attempt it waits for, and the answer
          inflight,   \* attempts sent and not executed
          received    \* Calls -> the value of the credits it was given

ledgerVars == <<redeemed, crediting, late, stranded>>
bankVars == <<balance, known, rounding, issuedBy, ledgerVars>>
vars == <<bankVars, pc, rpc, inflight, received>>

TypeOK ==
    /\ balance \in [Accounts -> Nat]
    /\ known \subseteq Accounts
    /\ rounding \in Int
    /\ redeemed \subseteq Calls
    /\ crediting \subseteq Calls \X (1 .. MaxTries)
    /\ late \subseteq Calls /\ stranded \subseteq Calls
    /\ issuedBy \in [Calls -> Nat]
    /\ pc \in [Calls -> {"idle", "waiting", "ok", "failed"}]
    /\ rpc \in [Calls -> [try : 1 .. MaxTries, status : {0, 200, 400, 500}, value : Nat]]
    /\ inflight \subseteq Calls \X (1 .. MaxTries)
    /\ received \in [Calls -> Nat]

NoAnswer(try) == [try |-> try, status |-> 0, value |-> 0]

Init ==
    /\ balance = [a \in Accounts |-> IF a \in Existing THEN Opening ELSE 0]
    /\ known = Existing
    /\ rounding = 0 /\ redeemed = {} /\ crediting = {} /\ late = {} /\ stranded = {}
    /\ issuedBy = [c \in Calls |-> 0]
    /\ pc = [c \in Calls |-> "idle"]
    /\ rpc = [c \in Calls |-> NoAnswer(1)]
    /\ inflight = {}
    /\ received = [c \in Calls |-> 0]

\* The sum of f over S: how many units f has there.
Units(f, S) == UNION {{x} \X (1 .. f[x]) : x \in S}
Sum(f, S)   == Cardinality(Units(f, S))
-----------------------------------------------------------------------------
(* The bank *)

\* The answer reaches the client only if it still waits for this attempt;
\* an InputError is a 400, every other error a 500 (writeErrorResponse).
Answer(c, try, status, value) ==
    rpc' = IF pc[c] = "waiting" /\ rpc[c] = NoAnswer(try)
           THEN [rpc EXCEPT ![c] = [try |-> try, status |-> status, value |-> value]]
           ELSE rpc

Total(reqs) == Sum([i \in DOMAIN reqs |-> reqs[i].amount], DOMAIN reqs)

InvalidBatch(reqs) ==
    \/ Len(reqs) = 0 \/ Len(reqs) > MaxReqs
    \/ \E i, j \in DOMAIN reqs : i # j /\ reqs[i].msg = reqs[j].msg
    \/ \E i \in DOMAIN reqs : reqs[i].amount = 0

Refuse(c, try, status) == Answer(c, try, status, 0) /\ UNCHANGED bankVars

\* Mutated form: the balance is not checked.
WithdrawBatchUnchecked(c, try) ==
    LET op == OpOf[c] IN
    IF InvalidBatch(op.reqs) THEN Refuse(c, try, 400)
    ELSE /\ balance' = [balance EXCEPT ![op.account] = @ - Total(op.reqs)]
         /\ issuedBy' = [issuedBy EXCEPT ![c] = @ + Total(op.reqs)]
         /\ Answer(c, try, 200, Total(op.reqs))
         /\ UNCHANGED <<known, rounding, ledgerVars>>

\* Mutated form: a retry is taken for a batch that has been debited before.
WithdrawBatchTrustsRetry(c, try) ==
    LET op == OpOf[c]
        paid == IF try > 1 THEN 0 ELSE Total(op.reqs) IN
    IF InvalidBatch(op.reqs) THEN Refuse(c, try, 400)
    ELSE IF op.account \notin known \/ balance[op.account] < paid
    THEN Refuse(c, try, 500)
    ELSE /\ balance' = [balance EXCEPT ![op.account] = @ - paid]
         /\ issuedBy' = [issuedBy EXCEPT ![c] = @ + paid]
         /\ Answer(c, try, 200, Total(op.reqs))
         /\ UNCHANGED <<known, rounding, ledgerVars>>

WithdrawBatch(c, try) ==
    LET op == OpOf[c] IN
    IF InvalidBatch(op.reqs) THEN Refuse(c, try, 400)
    ELSE IF op.account \notin known \/ balance[op.account] < Total(op.reqs)
    THEN Refuse(c, try, 500)
    ELSE /\ balance' = [balance EXCEPT ![op.account] = @ - Total(op.reqs)]
         /\ issuedBy' = [issuedBy EXCEPT ![c] = @ + Total(op.reqs)]
         /\ Answer(c, try, 200, Total(op.reqs))
         /\ UNCHANGED <<known, rounding, ledgerVars>>

\* The credit's value is one of the two neighbours of the balance (Rounded); a
\* balance above every representable amount has none.
Neighbours(b) ==
    {r \in Representable : \A q \in Representable : ~(r < q /\ q <= b) /\ ~(b <= q /\ q < r)}
TooLarge(b) == \A r \in Representable : r < b

\* Mutated form: the rounding difference is left out of the books.
WithdrawFullUnblindedUnrecorded(c, try) ==
    LET a == OpOf[c].account IN
    IF a \notin known \/ balance[a] = 0 \/ TooLarge(balance[a]) THEN Refuse(c, try, 500)
    ELSE \E credit \in Neighbours(balance[a]) :
            /\ issuedBy' = [issuedBy EXCEPT ![c] = @ + credit]
            /\ balance' = [balance EXCEPT ![a] = 0]
            /\ Answer(c, try, 200, credit)
            /\ UNCHANGED <<known, rounding, ledgerVars>>

WithdrawFullUnblinded(c, try) ==
    LET a == OpOf[c].account IN
    IF a \notin known \/ balance[a] = 0 \/ TooLarge(balance[a]) THEN Refuse(c, try, 500)
    ELSE \E credit \in Neighbours(balance[a]) :
            /\ rounding' = rounding + balance[a] - credit
            /\ issuedBy' = [issuedBy EXCEPT ![c] = @ + credit]
            /\ balance' = [balance EXCEPT ![a] = 0]
            /\ Answer(c, try, 200, credit)
            /\ UNCHANGED <<known, ledgerVars>>

\* The calls that present the same credit as c.
SameCredit(c) == {d \in Calls : OpOf[d].kind = "deposit" /\ OpOf[d].credit = OpOf[c].credit}

\* The credit is redeemed, and the account credited in a later step; or the
\* transaction fails (the locker refuses, or does not answer one of its calls) and
\* Deposit returns the error, whatever the Consume it gave up on may still do.
Redeems(c, try) ==
    /\ SameCredit(c) \cap redeemed = {}
    /\ redeemed' = redeemed \cup {c}
    /\ crediting' = crediting \cup {<<c, try>>}
    /\ UNCHANGED <<balance, known, rounding, issuedBy, late, stranded, rpc>>

CommitFails(c, try) ==
    /\ Lossy
    /\ late' = late \cup {c}
    /\ Answer(c, try, 500, 0)
    /\ UNCHANGED <<balance, known, rounding, issuedBy, redeemed, crediting, stranded>>

\* Mutated form: the error of Commit is dropped, and the account is credited.
DepositCommitsAnyway(c, try) ==
    IF OpOf[c].amount = 0 THEN Refuse(c, try, 400)
    ELSE \/ Redeems(c, try)
         \/ /\ Lossy /\ crediting' = crediting \cup {<<c, try>>}
            /\ UNCHANGED <<balance, known, rounding, issuedBy, redeemed, late, stranded, rpc>>

DepositCommits(c, try) ==
    IF OpOf[c].amount = 0 THEN Refuse(c, try, 400)
    ELSE \/ Redeems(c, try)
         \/ CommitFails(c, try)
         \/ SameCredit(c) \cap redeemed # {} /\ Refuse(c, try, 500)

\* The locker executes a Consume that nobody waits for: the credit is spent and
\* no account gets it.
ConsumesLate(c) ==
    /\ c \in late
    /\ late' = late \ {c}
    /\ IF SameCredit(c) \cap redeemed = {}
       THEN redeemed' = redeemed \cup {c} /\ stranded' = stranded \cup {c}
       ELSE UNCHANGED <<redeemed, stranded>>
    /\ UNCHANGED <<balance, known, rounding, crediting, issuedBy, pc, rpc, inflight, received>>

\* Takes the bank's mutex: the account is created if need be.
DepositCredits(c, try) ==
    LET a == OpOf[c].account IN
    /\ <<c, try>> \in crediting
    /\ crediting' = crediting \ {<<c, try>>}
    /\ known' = known \cup {a}
    /\ balance' = [balance EXCEPT ![a] = @ + OpOf[c].amount]
    /\ Answer(c, try, 200, 0)
    /\ UNCHANGED <<rounding, redeemed, late, stranded, issuedBy, pc, inflight, received>>

Execute(c, try) ==
    /\ <<c, try>> \in inflight
    /\ inflight' = inflight \ {<<c, try>>}
    /\ \/ OpOf[c].kind = "withdraw" /\ WithdrawBatch(c, try)
       \/ OpOf[c].kind = "full" /\ WithdrawFullUnblinded(c, try)
       \/ OpOf[c].kind = "deposit" /\ DepositCommits(c, try)
    /\ UNCHANGED <<pc, received>>
-----------------------------------------------------------------------------
(* The client *)

Send(c) ==
    /\ pc[c] = "idle"
    /\ pc' = [pc EXCEPT ![c] = "waiting"]
    /\ inflight' = inflight \cup {<<c, 1>>}
    /\ UNCHANGED <<bankVars, rpc, received>>

\* A 500 and a timeout are retried.
Retry(c) ==
    LET try == rpc[c].try + 1 IN
    /\ pc[c] = "waiting" /\ try <= MaxTries
    /\ rpc[c].status = 500 \/ (Lossy /\ rpc[c].status = 0)
    /\ rpc' = [rpc EXCEPT ![c] = NoAnswer(try)]
    /\ inflight' = inflight \cup {<<c, try>>}
    /\ UNCHANGED <<bankVars, pc, received>>

GiveUp(c) ==
    /\ pc[c] = "waiting"
    /\ rpc[c].status \in {400, 500} \/ Lossy
    /\ pc' = [pc EXCEPT ![c] = "failed"]
    /\ UNCHANGED <<bankVars, rpc, inflight, received>>

Receive(c) ==
    /\ pc[c] = "waiting" /\ rpc[c].status = 200
    /\ pc' = [pc EXCEPT ![c] = "ok"]
    /\ received' = [received EXCEPT ![c] = rpc[c].value]
    /\ UNCHANGED <<bankVars, rpc, inflight>>

Next ==
    \/ \E c \in Calls : Send(c) \/ Retry(c) \/ GiveUp(c) \/ Receive(c)
    \/ \E m \in inflight : Execute(m[1], m[2])
    \/ \E m \in crediting : DepositCredits(m[1], m[2])
    \/ \E c \in late : ConsumesLate(c)

Spec == Init /\ [][Next]_vars
-----------------------------------------------------------------------------
\* What a deposit is worth, by call and by attempt.
Worth      == [c \in Calls |-> IF OpOf[c].kind = "deposit" THEN OpOf[c].amount ELSE 0]
AttemptWorth == [m \in Calls \X (1 .. MaxTries) |-> Worth[m[1]]]

\* The books balance at every moment, whatever is retried or late: what is on
\* the accounts, about to be credited, stranded and signed away is what was there
\* at the start and what was redeemed since, up to the recorded rounding.
BooksBalance ==
    Sum(balance, Accounts) + Sum(AttemptWorth, crediting) + Sum(Worth, stranded)
      + Sum(issuedBy, Calls) + rounding
    = Opening * Cardinality(Existing) + Sum(Worth, redeemed)

\* A credit is redeemed by one call at most.  A client that is told its deposit is
\* done has it on its account, so that a stranded credit is always one of a call
\* that failed; and it takes a locker that does not answer to strand one.
DepositsHonest ==
    /\ \A c, d \in redeemed : OpOf[c].credit = OpOf[d].credit => c = d
    /\ \A c \in Calls : pc[c] = "ok" /\ OpOf[c].kind = "deposit" =>
          /\ c \in redeemed \ stranded
          /\ \A m \in crediting : m[1] # c
    /\ ~Lossy => stranded = {}

\* However often a withdrawal is retried, the client is never given credits
\* that the account was not debited for.
NothingForFree == \A c \in Calls : received[c] <= issuedBy[c]

\* No account is overdrawn, the books balance, and deposits are what their clients
\* are told (WithdrawBatch, WithdrawFullUnblinded, Deposit).
AccountsSound == TypeOK /\ BooksBalance /\ DepositsHonest
=============================================================================
