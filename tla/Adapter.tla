------------------------------ MODULE Adapter ------------------------------
(***************************************************************************)
(* txm-rpc-adapter: hands out deposit addresses, scans the node's chain    *)
(* for what they receive, and lists it to an exchange that polls with      *)
(* listsinceblock.  A scan and a request each hold the mutex over keystore *)
(* and ledger; the node may change its chain between any two calls, and    *)
(* the process may be killed.  (sendtoaddress is in Wallet.)               *)
(*                                                                         *)
(* A block is the path of bodies from genesis up to it; an output is its   *)
(* outpoint and the address it pays.                                       *)
(***************************************************************************)
EXTENDS Integers, Sequences, FiniteSets, SequencesExt

CONSTANTS
    Address,            \* addresses the keystore may come to generate
    Body, OutputsOf,    \* OutputsOf[x]: the outputs of a body, [id, addr]
    Block, Work,        \* what a node may have as its tip, and its work
    MaxCrashes          \* bound on restarts

Zero == << >>
height(b) == Len(b) - 1
Output == UNION {ToSet(OutputsOf[x]) : x \in Body}

ASSUME AdapterAssumption ==
    /\ Block \subseteq Seq(Body) \ {Zero} /\ Work \in [Block -> Nat \ {0}]
    /\ \A b \in Block : \A n \in DOMAIN b : SubSeq(b, 1, n) \in Block
    /\ OutputsOf \in [Body -> Seq(Output)] /\ MaxCrashes \in Nat

VARIABLES
    chain,        \* the tip of the node's canonical chain
    keys,         \* the keystore in memory and in its file
    ledger,       \* the ledger in memory
    file,         \* and in its file
    phase, tip, next,   \* the scanner: what it does, up to where, the next height
    request,      \* the listsinceblock that is being answered
    cursor,       \* the exchange: the lastblock of the last answer (external)
    listed,       \* and all it was told of (external)
    handed,       \* addresses given to the exchange
    crashes,
    past          \* history: what went wrong so far

vars == <<chain, keys, ledger, file, phase, tip, next, request, cursor, listed,
          handed, crashes, past>>
server == <<keys, ledger, file, phase, tip, next>>
exchange == <<request, cursor, listed, handed>>

\* Ledger::default(); an unreadable file counts as one.
EmptyLedger == [last_height |-> 0, entries |-> << >>, heights |-> << >>, seen |-> {}]
NoRequest == [step |-> "none"]

Ids(S) == {e.id : e \in ToSet(S)}

\* Types; the heights a scan counts through never fall below zero.
AdapterTypeOK ==
    /\ chain \in Block \cup {Zero} /\ phase \in {"sleep", "scan"}
    /\ {tip, next, ledger.last_height, file.last_height} \subseteq Nat
    /\ keys \in [memory : SUBSET Address, file : SUBSET Address]
    /\ handed \subseteq Address /\ cursor \in Block \cup {Zero}
    /\ request.step \in {"none", "counted", "hashed"} /\ crashes \in 0 .. MaxCrashes

Init ==
    /\ chain = Zero
    /\ keys = [memory |-> {}, file |-> {}] /\ ledger = EmptyLedger /\ file = EmptyLedger
    /\ phase = "sleep" /\ tip = 0 /\ next = 0
    /\ request = NoRequest /\ cursor = Zero /\ listed = {} /\ handed = {}
    /\ crashes = 0 /\ past = [reorganised |-> FALSE, lost_keys |-> FALSE, ahead |-> FALSE]

-----------------------------------------------------------------------------
\* The node

IsPrefixOf(b, c) == Len(b) <= Len(c) /\ SubSeq(c, 1, Len(b)) = b
WorkOf(b) == IF b = Zero THEN 0 ELSE Work[b]

\* The node's tip moves to a chain with more work.  Nobody pays to an address before
\* it was handed out.
NodeMoves ==
    /\ \E b \in Block :
         /\ WorkOf(b) > WorkOf(chain) /\ chain' = b
         /\ \A i \in DOMAIN b : {o.addr : o \in ToSet(OutputsOf[b[i]])} \cap Address
                                  \subseteq handed
    /\ past' = [past EXCEPT !.reorganised = @ \/ ~ IsPrefixOf(chain, chain')]
    /\ UNCHANGED <<server, exchange, crashes>>

\* block_at: the block at a height of the chain as it is now.
CanFetch(h) == h \in 0 .. height(chain)
Fetch(h) == SubSeq(chain, 1, h + 1)

-----------------------------------------------------------------------------
\* The scanner

Sleep == phase' = "sleep" /\ tip' = 0 /\ next' = 0

\* last_height.max(0) of the first branch is last_height, which is 0 there.
start == IF ledger.last_height = 0 /\ ledger.entries = << >> THEN 0
         ELSE ledger.last_height + 1

\* Mutant: the scan is booked before it is made.
BookedAhead ==
    /\ phase = "sleep" /\ chain # Zero
    /\ phase' = "scan" /\ tip' = height(chain) /\ next' = start
    /\ ledger' = [ledger EXCEPT !.last_height = height(chain)]
    /\ UNCHANGED <<chain, keys, file, exchange, crashes, past>>

\* Mutant: the range leaves the tip out.
BelowTip ==
    /\ phase = "sleep" /\ chain # Zero /\ Len(chain) > 1
    /\ phase' = "scan" /\ tip' = height(chain) - 1 /\ next' = start
    /\ UNCHANGED <<chain, keys, ledger, file, exchange, crashes, past>>

ScanBegin ==
    /\ phase = "sleep" /\ chain # Zero
    /\ phase' = "scan" /\ tip' = height(chain) /\ next' = start
    /\ UNCHANGED <<chain, keys, ledger, file, exchange, crashes, past>>

\* What the outputs of a block add to entries and seen, one after the other.
CreditOutput(v, known, o, b) ==
    IF o.addr \in known /\ o.id \notin v.seen
    THEN [entries |-> Append(v.entries, [id |-> o.id, address |-> o.addr, block_hash |-> b]),
          seen |-> v.seen \cup {o.id}]
    ELSE v
Credit(l, known, b) ==
    LET outs == OutputsOf[Last(b)]
        after[i \in 0 .. Len(outs)] ==
          IF i = 0 THEN [entries |-> l.entries, seen |-> l.seen]
          ELSE CreditOutput(after[i - 1], known, outs[i], b)
    IN  after[Len(outs)]

\* The ledger after block b at height h.  A repeated key of heights is overwritten.
AddBlock(l, known, h, b) ==
    LET credited == Credit(l, known, b)
    IN  [last_height |-> h,
         entries |-> credited.entries,
         heights |-> [g \in DOMAIN l.heights \cup {h} |-> IF g = h THEN b ELSE l.heights[g]],
         seen |-> credited.seen]

\* One turn of the loop.
ScanBlock ==
    /\ phase = "scan" /\ next <= tip /\ CanFetch(next)
    /\ ledger' = AddBlock(ledger, keys.memory, next, Fetch(next))
    /\ next' = next + 1
    /\ UNCHANGED <<chain, keys, file, phase, tip, exchange, crashes, past>>

\* save: an error of fs::write is ignored, and leaves the file cut short or as it was.
Save ==
    /\ phase = "scan" /\ next > tip
    /\ file' \in {ledger, file, EmptyLedger} /\ Sleep
    /\ UNCHANGED <<chain, keys, ledger, exchange, crashes, past>>

\* block_at fails, or the chain has become shorter: memory keeps what was scanned.
ScanFails ==
    /\ phase = "scan" /\ next <= tip /\ Sleep
    /\ UNCHANGED <<chain, keys, ledger, file, exchange, crashes, past>>

-----------------------------------------------------------------------------
\* Requests, one at a time; those that lock wait for the scanner.

new_address(a) == [keys EXCEPT !.memory = @ \cup {a}]

\* getnewaddress.  The keystore's save ignores errors, too.
GetNewAddress(a) ==
    /\ request = NoRequest /\ phase = "sleep" /\ a \notin keys.memory \cup handed
    /\ \E content \in {keys.file, new_address(a).memory, {}} :
         keys' = [new_address(a) EXCEPT !.file = content]
    /\ handed' = handed \cup {a}
    /\ UNCHANGED <<chain, ledger, file, phase, tip, next, request, cursor, listed,
                   crashes, past>>

\* listsinceblock: the node's height and the hash there are read without the lock ...
ListCount ==
    /\ request = NoRequest /\ chain # Zero
    /\ request' = [step |-> "counted", tip |-> height(chain)]
    /\ UNCHANGED <<chain, server, cursor, listed, handed, crashes, past>>
ListHash ==
    /\ request.step = "counted"
    /\ request' = IF CanFetch(request.tip)
                  THEN [step |-> "hashed", lastblock |-> Fetch(request.tip)]
                  ELSE NoRequest
    /\ UNCHANGED <<chain, server, cursor, listed, handed, crashes, past>>

\* Mutant: an entry must be two blocks above.
SinceNext(hash) ==
    LET at == {h \in DOMAIN ledger.heights : ledger.heights[h] = hash}
    IN  {e \in ToSet(ledger.entries) :
           \A fh \in at : height(e.block_hash) > fh + 1}
since_block(hash) ==
    LET at == {h \in DOMAIN ledger.heights : ledger.heights[h] = hash}
    IN  {e \in ToSet(ledger.entries) : \A fh \in at : height(e.block_hash) > fh}

\* ... and the entries under it.
ListAnswer ==
    /\ request.step = "hashed" /\ phase = "sleep"
    /\ listed' = listed \cup {e.id : e \in since_block(cursor)}
    /\ cursor' = request.lastblock
    /\ request' = NoRequest
    /\ past' = [past EXCEPT !.ahead = @ \/ \A h \in DOMAIN ledger.heights :
                                             ledger.heights[h] # request.lastblock]
    /\ UNCHANGED <<chain, server, handed, crashes>>

-----------------------------------------------------------------------------
\* Mutant: the ledger is loaded without the outpoints seen.
LoadUnseen(l) == [l EXCEPT !.seen = {}]
load(l) == [l EXCEPT !.seen = Ids(l.entries)]

\* The process is killed, perhaps in the middle of one of its writes, and loads its files.
Restart ==
    /\ crashes < MaxCrashes /\ crashes' = crashes + 1
    /\ \E l \in {file} \cup (IF phase = "scan" THEN {EmptyLedger} ELSE {}) :
         file' = l /\ ledger' = load(l)
    /\ \E k \in {keys.file} \cup (IF phase = "sleep" THEN {{}} ELSE {}) :
         keys' = [memory |-> k, file |-> k]
    /\ past' = [past EXCEPT !.lost_keys = @ \/ ~ handed \subseteq keys'.memory]
    /\ Sleep /\ request' = NoRequest
    /\ UNCHANGED <<chain, cursor, listed, handed>>

Next ==
    \/ NodeMoves
    \/ ScanBegin
    \/ ScanBlock
    \/ Save
    \/ ScanFails
    \/ \E a \in Address : GetNewAddress(a)
    \/ ListCount
    \/ ListHash
    \/ ListAnswer
    \/ Restart

\* The scanner polls for ever, and a call that the node could answer, for whichever
\* height, does not fail for ever.
Fairness ==
    /\ WF_vars(ScanBegin \/ ScanBlock \/ Save \/ ScanFails)
    /\ \A h \in {height(b) : b \in Block} : SF_vars(next = h /\ ScanBlock)
Spec == Init /\ [][Next]_vars /\ Fairness

-----------------------------------------------------------------------------
\* Correctness

Scanned(l) == {l.heights[h] : h \in DOMAIN l.heights}
Deposits(B) == UNION {{o.id : o \in {p \in ToSet(OutputsOf[Last(b)]) : p.addr \in Address}} :
                       b \in B}

\* No deposit is credited twice: neither when its transaction is confirmed again on
\* another branch, nor after a restart from an older file or from none.
CreditedOnce ==
    \A l \in {ledger, file} : \A i, j \in DOMAIN l.entries :
      l.entries[i].id = l.entries[j].id => i = j

\* Ledger and file account for every height from 0 up to last_height, and hold exactly
\* the deposits of the blocks they name, through scans that fail half way, restarts and
\* reorganisations, until a key is lost.  Height 0 is where the code starts on a first run
\* and after the file was lost; its comment says otherwise, see FirstRunSkipsHistory.
LedgerIsScan ==
    ~ past.lost_keys =>
      \A l \in {ledger, file} :
        /\ l # EmptyLedger => DOMAIN l.heights = 0 .. l.last_height
        /\ Ids(l.entries) = Deposits(Scanned(l))

\* An exchange that passes on the lastblock of each answer has been told of every
\* deposit up to that block, unless the adapter named a block it had not scanned
\* or the chain was reorganised.
CursorMissesNothing ==
    ~ past.ahead /\ ~ past.reorganised =>
      \A e \in ToSet(ledger.entries) :
        cursor # Zero /\ height(e.block_hash) <= height(cursor) => e.id \in listed

\* Every deposit on a chain that only grows is credited sooner or later.
DepositsCredited ==
    []<>(past.reorganised \/ past.lost_keys
           \/ Deposits({SubSeq(chain, 1, n) : n \in DOMAIN chain}) \subseteq Ids(ledger.entries))

\* Stronger statements

\* "first run: don't rescan all history unless explicitly checkpointed" (scan.rs): without
\* a ledger, the scanner starts at the tip.
FirstRunSkipsHistory ==
    [][ledger = EmptyLedger /\ phase = "sleep" /\ phase' = "scan" => next' = tip']_vars

\* ... also when the adapter is a scan behind the node.
CursorNeverMisses ==
    ~ past.reorganised =>
      \A e \in ToSet(ledger.entries) :
        cursor # Zero /\ height(e.block_hash) <= height(cursor) => e.id \in listed

\* With the node's height as tip, confirmations counts blocks above a deposit that
\* is still in the chain.
ConfirmedOnChain ==
    phase = "sleep" => \A e \in ToSet(ledger.entries) : IsPrefixOf(e.block_hash, chain)

\* The keystore knows every address that was handed out.
HandedKept == handed \subseteq keys.memory

-----------------------------------------------------------------------------
\* The inductive invariant

Entry == [id : {o.id : o \in Output}, address : {o.addr : o \in Output}, block_hash : Block]
OutputsAt(b) == ToSet(OutputsOf[Last(b)])

\* Payments to the adapter's addresses are to those it has handed out.
PaysHanded(b, given) == \A o \in OutputsAt(b) : o.addr \in Address => o.addr \in given

IsLedger(l) ==
    /\ l = [last_height |-> l.last_height, entries |-> l.entries, heights |-> l.heights,
            seen |-> l.seen]
    /\ l.last_height \in Nat /\ l.entries \in Seq(Entry)
    /\ DOMAIN l.heights = 0 .. l.last_height \/ l = EmptyLedger
    /\ \A h \in DOMAIN l.heights : l.heights[h] \in Block /\ height(l.heights[h]) = h

\* The outpoints seen are those of the entries, and no entry repeats one.
SeenOnce(l) ==
    /\ l.seen = Ids(l.entries)
    /\ \A i, j \in DOMAIN l.entries : l.entries[i].id = l.entries[j].id => i = j

\* The entries come from the blocks in heights, and hold all that these pay to a known
\* address.
HoldsScan(l, known, given) ==
    /\ Ids(l.entries) \subseteq Deposits(Scanned(l))
    /\ \A h \in DOMAIN l.heights :
         /\ PaysHanded(l.heights[h], given)
         /\ \A o \in OutputsAt(l.heights[h]) : o.addr \in known => o.id \in Ids(l.entries)

LedgerOk(l, known, given) == IsLedger(l) /\ SeenOnce(l) /\ HoldsScan(l, known, given)

\* Without a reorganisation, all that was scanned is on the node's chain c.
OnChain(l, c) ==
    /\ \A h \in DOMAIN l.heights : IsPrefixOf(l.heights[h], c)
    /\ \A e \in ToSet(l.entries) : IsPrefixOf(e.block_hash, c)

\* The exchange was told of the deposits up to its cursor: those in the ledger, and
\* those that a rescan of the chain after a restart would find.
Told(l, last, known_ids) ==
    \A e \in ToSet(l.entries) :
      last # Zero /\ height(e.block_hash) <= height(last) => e.id \in known_ids
ToldOfChain(c, last, known, known_ids) ==
    /\ IsPrefixOf(last, c)
    /\ \A n \in DOMAIN last : \A o \in OutputsAt(SubSeq(c, 1, n)) :
         o.addr \in known => o.id \in known_ids

IsRequest(r) ==
    \/ r = NoRequest
    \/ r.step = "counted" /\ r = [step |-> "counted", tip |-> r.tip] /\ r.tip \in Nat
    \/ \E b \in Block : r = [step |-> "hashed", lastblock |-> b]

\* A scan goes on where the ledger ends, or starts over while there is no entry.
GoesOn(l, h) ==
    \/ h = l.last_height + 1 /\ DOMAIN l.heights = 0 .. l.last_height
    \/ h = 0 /\ l.last_height = 0 /\ l.entries = << >>

AdapterInv ==
    /\ AdapterTypeOK /\ IsRequest(request)
    /\ LedgerOk(ledger, keys.memory, handed) /\ LedgerOk(file, keys.memory, handed)
    /\ Ids(file.entries) \subseteq Ids(ledger.entries)
    /\ keys.file \subseteq keys.memory /\ keys.memory \subseteq handed
    /\ ~ past.lost_keys => handed \subseteq keys.memory
    /\ past \in [reorganised : BOOLEAN, lost_keys : BOOLEAN, ahead : BOOLEAN]
    /\ \A n \in DOMAIN chain : PaysHanded(SubSeq(chain, 1, n), handed)
    /\ phase = "scan" => GoesOn(ledger, next)
    /\ ~ past.reorganised => OnChain(ledger, chain) /\ OnChain(file, chain)
    /\ ~ past.reorganised /\ ~ past.ahead =>
         /\ Told(ledger, cursor, listed) /\ Told(file, cursor, listed)
         /\ ToldOfChain(chain, cursor, keys.memory, listed)
=============================================================================
