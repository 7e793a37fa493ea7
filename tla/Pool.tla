-------------------------------- MODULE Pool --------------------------------
(***************************************************************************)
(* The mining pool's books: the window of shares, the payout ledger and    *)
(* its file, the crediting of found blocks and the payout scheduler.       *)
(*                                                                         *)
(* HTTP and stratum handlers, the scheduler and the operator's command     *)
(* line act concurrently.  A mutex guards the ledger in memory, and the    *)
(* server writes the file only under it; the command line works on the     *)
(* file alone.  The calls to the node and to txmwallet are made without    *)
(* the mutex.                                                              *)
(***************************************************************************)
EXTENDS Integers, Sequences, FiniteSets, SequencesExt

CONSTANTS
    Miner,                 \* wallet addresses
    Found, HeightOf, Gross,\* blocks miners may find, their heights and rewards
    ShareBits,             \* share difficulties in bits
    Handler,               \* connection threads
    WindowSize,            \* PPLNS_DEFAULT_N
    FeeBps, FeeBase,       \* POOL_FEE_BPS and 10_000
    Threshold, RelayFee,   \* threshold_atoms, MIN_RELAY_FEE_ATOMS
    Funds,                 \* mature atoms of the payout wallet at the start
    MaxShares, MaxEntries, MaxCrashes, MaxManual   \* bounds

Nobody == "unknown"

ASSUME PoolAssumption ==
    /\ HeightOf \in [Found -> Nat] /\ Gross \in [Found -> Nat]
    /\ IsFiniteSet(Miner) /\ Nobody \notin Miner /\ ShareBits \subseteq 0 .. 63
    /\ {WindowSize, FeeBase, Threshold} \subseteq Nat \ {0}
    /\ {FeeBps, RelayFee, Funds, MaxShares, MaxEntries, MaxCrashes, MaxManual}
         \subseteq Nat
    /\ FeeBps <= FeeBase

Height == {HeightOf[b] : b \in Found}

VARIABLES
    entries, window,   \* the ledger in memory
    file,              \* the ledger on disk
    last_miner_for_height,
    asked,             \* <<miner, height>>: who holds a template of the HTTP pool
    handler,           \* what the connection threads are doing
    known,             \* blocks the node has
    payer,             \* the scheduler
    wallet, mempool,   \* confirmed atoms of the wallet, its unconfirmed payments
    shares, crashes, manual,                \* counters, for the bounds
    \* history variables
    sent,              \* atoms sent to each miner
    again,             \* a block was submitted that the node already had
    conflicted,        \* a payment met another one that is not confirmed yet
    disturbed          \* a crash, a lost answer or the operator intervened

ledger_vars == <<entries, window, file>>
world_vars == <<known, wallet, mempool>>
count_vars == <<shares, crashes, manual>>
history_vars == <<sent, again, conflicted, disturbed>>
http_vars == <<last_miner_for_height, asked>>
vars == <<ledger_vars, http_vars, handler, payer, world_vars, count_vars, history_vars>>

EmptyLedger == [entries |-> << >>, window |-> << >>]
Idle == [pc |-> "idle"]
Asleep == [pc |-> "sleep", due |-> {}, spendable |-> 0]

Payee == Miner \cup {Nobody}
Entry == [block : Found, miner : Payee, gross : Nat, fee : Nat, net : Nat,
          paid : BOOLEAN, by : Payee]
Share == [miner : Miner, bits : ShareBits]
IsBooks(l, w) == l \in Seq(Entry) /\ w \in Seq(Share) /\ Len(w) <= WindowSize

PoolTypeOK ==
    /\ IsBooks(entries, window) /\ IsBooks(file.entries, file.window)
    /\ file = [entries |-> file.entries, window |-> file.window]
    /\ last_miner_for_height \in [Height -> Payee] /\ asked \subseteq Miner \X Height
    /\ handler \in [Handler -> {Idle} \cup
                      [pc : {"accepted"}, block : Found, miner : Miner,
                       bits : ShareBits, via : {"http", "stratum"}]]
    /\ payer \in [pc : {"sleep", "cycle"}, due : SUBSET Payee, spendable : Nat] \cup
                 [pc : {"pay"}, due : SUBSET Payee, spendable : Nat,
                  miner : Payee, amount : Nat] \cup
                 [pc : {"mark"}, due : SUBSET Payee, spendable : Nat,
                  miner : Miner, amount : Nat]
    /\ known \subseteq Found /\ wallet \in Nat
    /\ IsFiniteSet(mempool) /\ mempool \subseteq [miner : Miner, amount : Nat]
    /\ {shares, crashes, manual} \subseteq Nat /\ sent \in [Miner -> Nat]
    /\ {again, conflicted, disturbed} \subseteq BOOLEAN

Init ==
    /\ entries = << >> /\ window = << >> /\ file = EmptyLedger
    /\ last_miner_for_height = [h \in Height |-> Nobody]
    /\ asked = {} /\ handler = [h \in Handler |-> Idle]
    /\ known = {} /\ payer = Asleep /\ wallet = Funds /\ mempool = {}
    /\ shares = 0 /\ crashes = 0 /\ manual = 0
    /\ sent = [m \in Miner |-> 0] /\ again = FALSE
    /\ conflicted = FALSE /\ disturbed = FALSE

-----------------------------------------------------------------------------
\* Accounting

\* ShareWindow::push
PushShare(w, s) ==
    Append(IF Len(w) >= WindowSize THEN Tail(w) ELSE w, s)

Pow2[n \in 0 .. 63] == IF n = 0 THEN 1 ELSE 2 * Pow2[n - 1]
weight(s) == Pow2[s.bits]
Weights(w) == [i \in DOMAIN w |-> weight(w[i])]
WeightOf(w, m) == SumFunctionOnSet(Weights(w), {i \in DOMAIN w : w[i].miner = m})
total_weight(w) == SumFunctionOnSet(Weights(w), DOMAIN w)

\* Mutant: a miner's part is rounded up.
PartRoundedUp(w, m, gross) ==
    (gross * WeightOf(w, m) + total_weight(w) - 1) \div total_weight(w)
Part(w, m, gross) == (gross * WeightOf(w, m)) \div total_weight(w)

\* PayoutEntry::new with split_fee.  by is history: who found a block that came
\* over HTTP.
NewEntry(b, m, gross, finder) ==
    LET f == (gross * FeeBps) \div FeeBase
    IN  [block |-> b, miner |-> m, gross |-> gross, fee |-> f, net |-> gross - f,
         paid |-> FALSE, by |-> finder]

\* pplns_split, as the orders its sort may leave: by amount, descending.
pplns_split(w, b, finder) ==
    IF w = << >> THEN {<<NewEntry(b, finder, Gross[b], Nobody)>>}
    ELSE LET parts == {NewEntry(b, m, Part(w, m, Gross[b]), Nobody) :
                         m \in {n \in Miner : Part(w, n, Gross[b]) > 0}}
         IN  {s \in SetToSeqs(parts) :
                \A i, j \in DOMAIN s : i < j => s[i].gross >= s[j].gross}

\* What the entries at the positions S of a ledger are worth.
Nets(l) == [i \in DOMAIN l |-> l[i].net]
NetOf(l, S) == SumFunctionOnSet(Nets(l), S)
Unpaid(l, m) == {i \in DOMAIN l : ~ l[i].paid /\ l[i].miner = m}
UnpaidBefore(l, m, i) == NetOf(l, {j \in Unpaid(l, m) : j < i})

pending_atoms(l, m) == NetOf(l, Unpaid(l, m))

\* Whole unpaid entries, oldest first, up to the first that does not fit.
payable_atoms_up_to(l, m, max) ==
    LET fits == {UnpaidBefore(l, m, i) : i \in 1 .. Len(l) + 1} \cap 0 .. max
    IN  CHOOSE n \in fits : \A k \in fits : k <= n

\* Mutant: one entry more when the amount is covered exactly.
MarkOneMore(l, m, amount) ==
    [i \in DOMAIN l |-> IF i \in Unpaid(l, m) /\ UnpaidBefore(l, m, i) <= amount
                       THEN [l[i] EXCEPT !.paid = TRUE] ELSE l[i]]
\* Unpaid entries become paid, oldest first, until the amount is covered.
mark_paid_up_to(l, m, amount) ==
    [i \in DOMAIN l |-> IF i \in Unpaid(l, m) /\ UnpaidBefore(l, m, i) < amount
                       THEN [l[i] EXCEPT !.paid = TRUE] ELSE l[i]]

mark_paid(l, m) == [i \in DOMAIN l |-> IF l[i].miner = m
                                       THEN [l[i] EXCEPT !.paid = TRUE] ELSE l[i]]

\* The ledger in memory becomes l and w, and is written to the file; an error of the
\* write is only logged, and may leave the file as it was or cut short, which loads as
\* empty.
Commit(l, w) ==
    /\ entries' = l /\ window' = w
    /\ file' \in {file, EmptyLedger, [entries |-> l, window |-> w]}

-----------------------------------------------------------------------------
\* Miners

\* GET /getblocktemplate through the pool.
GetTemplate(m, h) ==
    /\ last_miner_for_height' = [last_miner_for_height EXCEPT ![h] = m]
    /\ asked' = asked \cup {<<m, h>>}
    /\ UNCHANGED <<ledger_vars, handler, payer, world_vars, count_vars, history_vars>>

\* mining.submit of a share that is no block: pushed, not saved.
AcceptShare(m, bits) ==
    /\ shares < MaxShares
    /\ window' = PushShare(window, [miner |-> m, bits |-> bits])
    /\ shares' = shares + 1
    /\ UNCHANGED <<entries, file, http_vars, handler, payer, world_vars,
                   crashes, manual, history_vars>>

\* A block goes to the node, over HTTP or stratum, and the node answers that it
\* is accepted, which it also says of a block it already has.
SubmitBlock(h, m, b, bits, via) ==
    /\ handler[h].pc = "idle"
    /\ Len(entries) < MaxEntries
    /\ via = "http" => <<m, HeightOf[b]>> \in asked
    /\ handler' = [handler EXCEPT ![h] =
         [pc |-> "accepted", block |-> b, miner |-> m, bits |-> bits, via |-> via]]
    /\ known' = known \cup {b}
    /\ again' = (again \/ b \in known)
    /\ UNCHANGED <<ledger_vars, http_vars, payer, wallet, mempool,
                   count_vars, sent, conflicted, disturbed>>

\* The node takes the block but the answer does not arrive.
AnswerLost(b) ==
    /\ known' = known \cup {b}
    /\ again' = (again \/ b \in known)
    /\ UNCHANGED <<ledger_vars, http_vars, handler, payer, wallet,
                   mempool, count_vars, sent, conflicted, disturbed>>

\* record_block: the whole reward goes to the miner of that height.
RecordHttp(h) ==
    LET t == handler[h] IN
    /\ t.pc = "accepted" /\ t.via = "http"
    /\ Commit(Append(entries, NewEntry(t.block, last_miner_for_height[HeightOf[t.block]],
                                       Gross[t.block], t.miner)), window)
    /\ handler' = [handler EXCEPT ![h] = Idle]
    /\ UNCHANGED <<http_vars, payer, world_vars, count_vars, history_vars>>

\* The winning share enters the window, then the reward is split over it.
RecordStratum(h) ==
    LET t == handler[h]
        w == PushShare(window, [miner |-> t.miner, bits |-> t.bits])
    IN  /\ t.pc = "accepted" /\ t.via = "stratum"
        /\ \E s \in pplns_split(w, t.block, t.miner) : Commit(entries \o s, w)
        /\ handler' = [handler EXCEPT ![h] = Idle]
        /\ UNCHANGED <<http_vars, payer, world_vars, count_vars,
                       history_vars>>

-----------------------------------------------------------------------------
\* The payout scheduler

Due == {m \in Payee : pending_atoms(entries, m) >= Threshold}

CycleStart ==
    /\ payer.pc = "sleep" /\ Due # {}
    /\ payer' = [pc |-> "cycle", due |-> Due, spendable |-> wallet]
    /\ UNCHANGED <<ledger_vars, http_vars, handler, world_vars,
                   count_vars, history_vars>>

Remaining(n) == IF n > RelayFee THEN n - RelayFee ELSE 0

\* The next miner of the cycle, in any order.
NextMiner(m) ==
    LET amount == payable_atoms_up_to(entries, m, Remaining(payer.spendable))
        rest == [payer EXCEPT !.due = @ \ {m}]
    IN  /\ payer.pc = "cycle" /\ m \in payer.due
        /\ payer.spendable > RelayFee
        /\ payer' = IF amount = 0 THEN rest
                    ELSE [pc |-> "pay", due |-> rest.due, spendable |-> payer.spendable,
                          miner |-> m, amount |-> amount]
        /\ UNCHANGED <<ledger_vars, http_vars, handler, world_vars,
                       count_vars, history_vars>>

CycleEnd ==
    /\ payer.pc = "cycle" /\ (payer.due = {} \/ payer.spendable <= RelayFee)
    /\ payer' = Asleep
    /\ UNCHANGED <<ledger_vars, http_vars, handler, world_vars,
                   count_vars, history_vars>>

Payment == [miner |-> payer.miner, amount |-> payer.amount]
Skip == [pc |-> "cycle", due |-> payer.due, spendable |-> payer.spendable]

\* What unconfirmed payments will take from the wallet.
InFlight == SumFunctionOnSet([p \in mempool |-> p.amount + RelayFee], mempool)

\* txmwallet send and broadcast: the node takes the payment.
Broadcast ==
    /\ payer.pc = "pay" /\ payer.miner \in Miner /\ Payment \notin mempool
    /\ wallet >= payer.amount + RelayFee + InFlight
    /\ mempool' = mempool \cup {Payment}
    /\ sent' = [sent EXCEPT ![payer.miner] = @ + payer.amount]
    /\ \/ payer' = [payer EXCEPT !.pc = "mark"] /\ UNCHANGED disturbed
       \/ payer' = Skip /\ disturbed' = TRUE        \* the answer is lost
    /\ UNCHANGED <<ledger_vars, http_vars, handler, known, wallet, count_vars,
                   again, conflicted>>

\* txmwallet picks confirmed outputs in a fixed order whatever is pending, so a
\* payment built while another is unconfirmed spends outputs that one spends, or
\* is the same transaction.  The node refuses both with a message that says
\* "already in the mempool", and the scheduler goes on as if it had been sent.
AlreadyInMempool ==
    /\ payer.pc = "pay" /\ payer.miner \in Miner /\ mempool # {}
    /\ payer' = [payer EXCEPT !.pc = "mark"]
    /\ conflicted' = TRUE
    /\ UNCHANGED <<ledger_vars, http_vars, handler, world_vars, count_vars,
                   sent, again, disturbed>>

\* No such address, the wallet fails or the node cannot be reached.
PayFails ==
    /\ payer.pc = "pay"
    /\ payer' = Skip
    /\ UNCHANGED <<ledger_vars, http_vars, handler, world_vars,
                   count_vars, history_vars>>

MarkPaid ==
    /\ payer.pc = "mark"
    /\ Commit(mark_paid_up_to(entries, payer.miner, payer.amount), window)
    /\ payer' = [Skip EXCEPT !.spendable =
         IF @ > payer.amount + RelayFee THEN @ - payer.amount - RelayFee ELSE 0]
    /\ UNCHANGED <<http_vars, handler, world_vars, count_vars,
                   history_vars>>

\* A payment is mined.
Confirm(p) ==
    /\ p \in mempool
    /\ mempool' = mempool \ {p}
    /\ wallet' = wallet - p.amount - RelayFee
    /\ UNCHANGED <<ledger_vars, http_vars, handler, known, payer,
                   count_vars, history_vars>>

-----------------------------------------------------------------------------
\* The operator pays a miner by hand and then runs mark-paid, on the file.
MarkPaidByHand(m) ==
    /\ manual < MaxManual
    /\ pending_atoms(file.entries, m) > 0
    /\ file' = [file EXCEPT !.entries = mark_paid(@, m)]
    /\ manual' = manual + 1
    /\ sent' = [sent EXCEPT ![m] = @ + pending_atoms(file.entries, m)]
    /\ disturbed' = TRUE
    /\ UNCHANGED <<entries, window, http_vars, handler, payer, world_vars,
                   shares, crashes, again, conflicted>>

\* The pool dies and starts again.  A file that is cut short loads as empty.
Writing == payer.pc = "mark" \/ \E h \in Handler : handler[h].pc = "accepted"
Restart ==
    /\ crashes < MaxCrashes
    /\ file' = file \/ (Writing /\ file' = EmptyLedger)
    /\ entries' = file'.entries /\ window' = file'.window
    /\ last_miner_for_height' = [h \in Height |-> Nobody]
    /\ handler' = [h \in Handler |-> Idle] /\ payer' = Asleep
    /\ crashes' = crashes + 1 /\ disturbed' = TRUE
    /\ UNCHANGED <<asked, world_vars, shares, manual, sent, again, conflicted>>

Next ==
    \/ \E m \in Miner, h \in Height : GetTemplate(m, h)
    \/ \E m \in Miner, b \in ShareBits : AcceptShare(m, b)
    \/ \E h \in Handler, m \in Miner, b \in Found, n \in ShareBits,
          via \in {"http", "stratum"} : SubmitBlock(h, m, b, n, via)
    \/ \E b \in Found : AnswerLost(b)
    \/ \E h \in Handler : RecordHttp(h)
    \/ \E h \in Handler : RecordStratum(h)
    \/ CycleStart
    \/ \E m \in Payee : NextMiner(m)
    \/ CycleEnd
    \/ Broadcast
    \/ AlreadyInMempool
    \/ PayFails
    \/ MarkPaid
    \/ \E p \in mempool : Confirm(p)
    \/ \E m \in Miner : MarkPaidByHand(m)
    \/ Restart

Spec == Init /\ [][Next]_vars

-----------------------------------------------------------------------------
\* Correctness

Credits(l) == [i \in DOMAIN l |-> l[i].net + l[i].fee]
CreditedFor(l, b) == SumFunctionOnSet(Credits(l), {i \in DOMAIN l : l[i].block = b})
Paid(l, m) == {i \in DOMAIN l : l[i].paid /\ l[i].miner = m}
PaidTo(m) == NetOf(entries, Paid(entries, m))

\* What a block's entries credit, nets and fees together, is the block's reward
\* but for less than an atom per miner, and never more, as long as no block is
\* submitted twice.
CreditsAreReward ==
    ~ again => \A i \in DOMAIN entries :
        LET b == entries[i].block
        IN  Gross[b] - CreditedFor(entries, b) \in 0 .. Cardinality(Miner) - 1

\* Outside a payout, the entries marked as paid to a miner are worth exactly what
\* was sent to it, although entries are added while a payment is under way, as
\* long as no payment overlaps another and no crash, lost answer or operator comes
\* in between.
BooksMatchPayments ==
    ~ disturbed /\ ~ conflicted /\ payer.pc # "mark" =>
        \A m \in Miner : PaidTo(m) = sent[m]

\* A block has one entry per participating miner.
OneEntryPerMiner ==
    \A i, j \in DOMAIN entries :
        entries[i].block = entries[j].block /\ entries[i].miner = entries[j].miner
          => i = j

\* Entries that the scheduler has marked as paid were sent.
PaidMeansSent == payer.pc # "mark" => \A m \in Miner : PaidTo(m) <= sent[m]

\* Between payouts, what was sent is marked as paid, also after a restart.
SentMeansPaid == payer.pc = "sleep" => \A m \in Miner : sent[m] <= PaidTo(m)

\* An entry that mark-paid has marked in the file stays marked, unless the file is cut.
MarkedStaysMarked ==
    [][\A i \in DOMAIN file.entries \cap DOMAIN file'.entries :
         file.entries[i].paid => file'.entries[i].paid]_vars

\* A block that comes over HTTP is credited to the miner who found it, if to any.
FinderCredited ==
    \A i \in DOMAIN entries :
        entries[i].by # Nobody => entries[i].miner \in {entries[i].by, Nobody}

-----------------------------------------------------------------------------
\* The inductive invariant

\* The wallet covers what it has sent.
Solvent == InFlight <= wallet

\* A payment is for whole entries, the oldest that are unpaid, although entries are
\* added until it is marked.
PaymentIsWhole ==
    payer.pc \in {"pay", "mark"} =>
        \E i \in 1 .. Len(entries) + 1 :
            payer.amount = UnpaidBefore(entries, payer.miner, i)

\* ... and what is sent is marked, or about to be.
AboutToMark(m) == IF payer.pc = "mark" /\ payer.miner = m THEN payer.amount ELSE 0
BooksBalance ==
    ~ disturbed /\ ~ conflicted => \A m \in Miner : PaidTo(m) + AboutToMark(m) = sent[m]

\* The node knows the blocks that are credited or about to be; and unless one was
\* submitted twice, none of these is credited, and those that are credited are so
\* with their reward, in memory and in the file.
BlocksOf(l) == {l[i].block : i \in DOMAIN l}
Accepted == {h \in Handler : handler[h].pc = "accepted"}
Rewarded(l) ==
    \A b \in BlocksOf(l) : Gross[b] - CreditedFor(l, b) \in 0 .. Cardinality(Miner) - 1
CreditedOnce ==
    /\ BlocksOf(entries) \cup BlocksOf(file.entries) \subseteq known
    /\ \A h \in Accepted : handler[h].block \in known
    /\ ~ again =>
         /\ Rewarded(entries) /\ Rewarded(file.entries)
         /\ \A h \in Accepted :
              handler[h].block \notin BlocksOf(entries) \cup BlocksOf(file.entries)
         /\ \A g, h \in Accepted : handler[g].block = handler[h].block => g = h

PoolInv == PoolTypeOK /\ Solvent /\ PaymentIsWhole /\ BooksBalance /\ CreditedOnce
=============================================================================
