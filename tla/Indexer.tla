------------------------------ MODULE Indexer ------------------------------
(***************************************************************************)
(* txm-asset-indexer: a process that polls a node over RPC, one block at a *)
(* time, and keeps an index of the canonical chain with a checkpoint in    *)
(* memory and a snapshot on disk.  The node may change its chain between   *)
(* any two calls.  The scanner holds the index's lock for a whole scan, so *)
(* readers see it only between scans.                                      *)
(***************************************************************************)
EXTENDS Assets

CONSTANTS
    Block, Work,                  \* what a node may have as its tip, and its work
    CheckpointInterval, CheckpointSafety,
    MaxCrashes                    \* bound on the indexer's restarts

Zero == << >>
height(b) == Len(b) - 1

ASSUME IndexerAssumption ==
    /\ Block \subseteq Seq(Body) \ {Zero} /\ Work \in [Block -> Nat \ {0}]
    /\ \A b \in Block : \A n \in DOMAIN b : SubSeq(b, 1, n) \in Block
    /\ \A b, c \in Block : b[1] = c[1]        \* the genesis block is built in
    /\ CheckpointInterval \in Nat \ {0}
    /\ {CheckpointSafety, MaxCrashes} \subseteq Nat

VARIABLES
    chain,      \* the tip of the node's canonical chain
    idx,        \* the index in memory
    file,       \* the snapshot on disk
    phase,      \* what the scanner is doing
    tip,        \* the height it scans up to
    crashes,
    disturbed   \* history: a reorganisation fell into a scan

vars == <<chain, idx, file, phase, tip, crashes, disturbed>>

NoCheckpoint == [data |-> EmptyData, last_hash |-> Zero]

\* Indexer::default(); scanned_any is last_hash # Zero, and last_height its height.
\* A checkpoint is the snapshot; its height and hash are the snapshot's.
EmptyIndex == [data |-> EmptyData, last_hash |-> Zero, checkpoint |-> NoCheckpoint]
last_height == height(idx.last_hash)
scanned_any == idx.last_hash # Zero

IndexerTypeOK ==
    /\ chain \in Block \cup {Zero}
    /\ {idx.last_hash, file.last_hash, idx.checkpoint.last_hash}
         \subseteq Block \cup {Zero}
    /\ phase \in {"sleep", "check", "rollback", "apply"}
    /\ tip \in Nat /\ crashes \in 0 .. MaxCrashes /\ disturbed \in BOOLEAN

Init ==
    /\ chain = Zero
    /\ idx = EmptyIndex /\ file = EmptyIndex
    /\ phase = "sleep" /\ tip = 0 /\ crashes = 0 /\ disturbed = FALSE

-----------------------------------------------------------------------------
\* The node

Extends(c, b) == Len(b) <= Len(c) /\ SubSeq(c, 1, Len(b)) = b
WorkOf(b) == IF b = Zero THEN 0 ELSE Work[b]

\* The node's tip moves to a chain with more work.
NodeMoves ==
    /\ \E b \in Block : WorkOf(b) > WorkOf(chain) /\ chain' = b
    /\ disturbed' = (disturbed \/ (phase # "sleep" /\ ~ Extends(chain', chain)))
    /\ UNCHANGED <<idx, file, phase, tip, crashes>>

\* block_at: the block at a height of the chain as it is now.
CanFetch(h) == h \in 0 .. height(chain)
Fetch(h) == SubSeq(chain, 1, h + 1)

-----------------------------------------------------------------------------
\* Mutant: a single new block is not worth a scan.
NothingMuchNew == scanned_any /\ last_height + 1 >= height(chain)
NothingNew == scanned_any /\ last_height >= height(chain)

\* tick: ask for the height, and scan if it is above the index's.
Tick ==
    /\ phase = "sleep"
    /\ chain # Zero
    /\ ~ NothingNew
    /\ tip' = height(chain)
    /\ phase' = IF scanned_any /\ last_height > 0 THEN "check" ELSE "apply"
    /\ UNCHANGED <<chain, idx, file, crashes, disturbed>>

\* Mutant: only the heights are looked at.
NeverRebuild(hash) == FALSE
needs_rebuild(hash) == scanned_any /\ last_height > 0 /\ idx.last_hash # hash

\* The check at the last scanned height.
CheckTip ==
    /\ phase = "check" /\ CanFetch(last_height)
    /\ LET hash == Fetch(last_height) IN
       IF ~ needs_rebuild(hash)
       THEN phase' = "apply" /\ UNCHANGED idx
       ELSE IF idx.checkpoint = NoCheckpoint
       THEN phase' = "apply" /\ idx' = EmptyIndex
       ELSE phase' = "rollback" /\ UNCHANGED idx
    /\ UNCHANGED <<chain, file, tip, crashes, disturbed>>

\* Mutant: the addresses of outputs stay as they are.
RestoreState(snap) == [idx EXCEPT !.data.state = snap.data.state,
                                  !.data.history = snap.data.history,
                                  !.last_hash = snap.last_hash]
restore(snap) == [idx EXCEPT !.data = snap.data, !.last_hash = snap.last_hash]

\* try_rollback with a checkpoint.
TryRollback ==
    LET snap == idx.checkpoint IN
    /\ phase = "rollback" /\ CanFetch(height(snap.last_hash))
    /\ idx' = IF Fetch(height(snap.last_hash)) = snap.last_hash
              THEN restore(snap) ELSE EmptyIndex
    /\ phase' = "apply"
    /\ UNCHANGED <<chain, file, tip, crashes, disturbed>>

snapshot(d, b) == [data |-> d, last_hash |-> b]

\* One turn of the loop: fetch, apply, perhaps take a checkpoint.
ScanBlock ==
    LET h == IF scanned_any THEN last_height + 1 ELSE 0
        b == Fetch(h)
        d == apply_block(idx.data, b)
    IN  /\ phase = "apply" /\ h <= tip /\ CanFetch(h)
        /\ idx' = [data |-> d, last_hash |-> b,
                   checkpoint |-> IF h % CheckpointInterval = 0
                                       /\ h + CheckpointSafety <= tip
                                  THEN snapshot(d, b) ELSE idx.checkpoint]
        /\ UNCHANGED <<chain, file, phase, tip, crashes, disturbed>>

\* The loop is done: save (written aside and renamed).  The checkpoint is not
\* in the file.
Save ==
    /\ phase = "apply" /\ scanned_any /\ last_height >= tip
    /\ file' = [idx EXCEPT !.checkpoint = NoCheckpoint]
    /\ phase' = "sleep"
    /\ UNCHANGED <<chain, idx, tip, crashes, disturbed>>

\* A call fails or the snapshot cannot be written: the index stays as it is.
ScanFails ==
    /\ phase # "sleep"
    /\ phase' = "sleep"
    /\ UNCHANGED <<chain, idx, file, tip, crashes, disturbed>>

\* The process dies and loads its snapshot.
Restart ==
    /\ crashes < MaxCrashes
    /\ idx' = file /\ phase' = "sleep" /\ crashes' = crashes + 1
    /\ UNCHANGED <<chain, file, tip, disturbed>>

Next ==
    \/ NodeMoves
    \/ Tick
    \/ CheckTip
    \/ TryRollback
    \/ ScanBlock
    \/ Save
    \/ ScanFails
    \/ Restart

\* The scanner polls for ever and does not hang (its calls time out), and calls
\* that the node could answer do not fail for ever.
Fairness ==
    /\ WF_vars(Tick \/ CheckTip \/ TryRollback \/ ScanBlock \/ Save \/ ScanFails)
    /\ SF_vars(CheckTip) /\ SF_vars(TryRollback) /\ SF_vars(ScanBlock)
Spec == Init /\ [][Next]_vars /\ Fairness

-----------------------------------------------------------------------------
\* Correctness

Replays(i) == i.data = IndexOf(i.last_hash)

\* As long as no reorganisation falls into a scan, the index, its checkpoint and
\* its snapshot are what a scan from genesis of the branch they stand for gives,
\* through rollbacks, rebuilds, failed calls and restarts.
IndexIsReplay ==
    ~ disturbed => Replays(idx) /\ Replays(idx.checkpoint) /\ Replays(file)

\* Whatever happens, tokens and NFTs are conserved in the index and its copies.
AssetsConserved ==
    Conserved(idx.data) /\ Conserved(idx.checkpoint.data) /\ Conserved(file.data)

\* The index never stays behind: again and again it is as high as the node, also
\* after reorganisations in the middle of a scan and rollbacks.
CatchesUp ==
    []<>(chain # Zero => scanned_any /\ last_height >= height(chain))

\* An index that has caught up with the node holds what the node's chain says.
CaughtUpMeansReplay ==
    phase = "sleep" /\ idx.last_hash = chain => Replays(idx)

-----------------------------------------------------------------------------
\* The inductive invariant

\* Only known assets have balances.
NoStray(d) == \A k \in DOMAIN d.state.ft_balances : k[2] \in DOMAIN d.state.assets

\* While blocks are applied, the index stands for a part of the node's chain, unless
\* a reorganisation fell into the scan.
OnNodesChain == ~ disturbed /\ phase = "apply" => Extends(chain, idx.last_hash)

\* The snapshot is saved without the checkpoint.
FileHasNone == file.checkpoint = NoCheckpoint

IndexerInv ==
    /\ IndexerTypeOK /\ OnNodesChain /\ FileHasNone
    /\ IndexIsReplay /\ AssetsConserved
    /\ NoStray(idx.data) /\ NoStray(idx.checkpoint.data) /\ NoStray(file.data)
=============================================================================
