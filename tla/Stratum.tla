------------------------------- MODULE Stratum -------------------------------
(***************************************************************************)
(* The pool's stratum server: the pollers that turn the node's template    *)
(* into jobs, one per listener (the pool opens two and both publish into   *)
(* one StratumState), one thread per connection, and the messages between  *)
(* a thread and its miner.  A mutex guards what they share; it is released *)
(* between the steps below.  What an accepted block does to the ledger is  *)
(* in Pool.                                                                *)
(*                                                                         *)
(* A nonce is found for one job and meets no target under another, and no  *)
(* two jobs have the same job_id, which is made of the height and the      *)
(* milliseconds of a second.  Channels and sockets keep the order of       *)
(* messages.                                                               *)
(***************************************************************************)
EXTENDS Integers, Sequences, FiniteSets, SequencesExt

CONSTANTS
    Tip, TipHeight, Bits, Work,  \* the node's possible tips, their heights, the bits
                                 \* the next block needs, and their work
    Conn,                     \* connections
    Poller,                   \* job pollers, one per call of run_stratum_server
    MinBits, MaxBits,         \* VARDIFF_MIN_BITS, VARDIFF_MAX_BITS
    InitialBits,              \* share_diff_bits of the pool
    Zeros,                    \* leading zeros a miner may find
    MaxFound,                 \* bound on the shares found
    MaxUnread                 \* a miner authorises with at most so many messages unread

ASSUME StratumAssumption ==
    /\ TipHeight \in [Tip -> Nat] /\ Work \in [Tip -> Nat]
    /\ Bits \in [Tip -> Nat \ {0}]      \* min_leading_zero_bits is 4 or more
    /\ {MinBits, MaxBits, InitialBits, MaxFound, MaxUnread} \subseteq Nat
    /\ MinBits <= MaxBits /\ Zeros \subseteq Nat

VARIABLES
    tip,           \* the tip of the node's chain
    fetched,       \* each poller's answer from the node, before it takes the mutex
    last_height,   \* of each poller
    current_job,
    job_template_cache,   \* the jobs whose templates are cached
    conn,          \* the thread of each connection and its session
    hand,          \* the share a thread has found valid and is working on
    job_rx,        \* job channel to each thread
    to_miner,      \* messages on the way to each miner
    to_pool,       \* the shares in the miner's queue and on the way back
    miner,         \* the job and difficulty each miner works on
    shares_found,  \* number of shares found, for the bound
    credited       \* history: shares that went to the ledger

stratum_vars == <<tip, fetched, last_height, current_job, job_template_cache, conn,
                  hand, job_rx, to_miner, to_pool, miner, shares_found, credited>>
poller_vars == <<fetched, last_height, current_job, job_template_cache>>
miner_vars == <<miner, to_pool, shares_found>>

\* A job builds on a tip; id stands for its job_id and counts the published jobs.
Job == [id : Nat \ {0}, tip : Tip]
NoJob == [id |-> 0, tip |-> "none"]
NoTip == "none"
JobHeight(j) == TipHeight[j.tip] + 1
difficulty_bits(j) == Bits[j.tip]

Closed == [pc |-> "closed", authorized |-> FALSE, bits |-> 0, last_job |-> NoJob]
NoShare == [job |-> NoJob, named |-> NoJob, zeros |-> 0, bits |-> 0, raw |-> NoJob]
Resting == [job |-> NoJob, bits |-> 0]

Session == [pc : {"closed", "read", "line", "found", "submit", "count"},
            authorized : BOOLEAN, bits : Nat, last_job : Job \cup {NoJob}]
InHand == [job : Job \cup {NoJob}, named : Job \cup {NoJob}, zeros : Nat, bits : Nat,
           raw : Job \cup {NoJob}]
Message == [method : {"set_difficulty", "notify"}, bits : Nat, job : Job \cup {NoJob}]
Working == [job : Job \cup {NoJob}, bits : Nat]
FoundShare == [job : Job, zeros : Nat]

StratumTypeOK ==
    /\ tip \in Tip /\ fetched \in [Poller -> Tip \cup {NoTip}]
    /\ last_height \in [Poller -> Nat]
    /\ current_job \in Job \cup {NoJob} /\ job_template_cache \subseteq Job
    /\ conn \in [Conn -> Session] /\ hand \in [Conn -> InHand]
    /\ job_rx \in [Conn -> Seq(Job)] /\ to_miner \in [Conn -> Seq(Message)]
    /\ to_pool \in [Conn -> Seq(FoundShare)] /\ miner \in [Conn -> Working]

StratumInit ==
    /\ tip \in Tip
    /\ fetched = [p \in Poller |-> NoTip] /\ last_height = [p \in Poller |-> 0]
    /\ current_job = NoJob /\ job_template_cache = {}
    /\ conn = [c \in Conn |-> Closed] /\ hand = [c \in Conn |-> NoShare]
    /\ job_rx = [c \in Conn |-> << >>] /\ to_miner = [c \in Conn |-> << >>]
    /\ to_pool = [c \in Conn |-> << >>]
    /\ miner = [c \in Conn |-> Resting] /\ shares_found = 0 /\ credited = {}

-----------------------------------------------------------------------------
\* The node moves to a chain with more work.
NodeMoves ==
    /\ \E t \in Tip : Work[t] > Work[tip] /\ tip' = t
    /\ UNCHANGED <<poller_vars, conn, job_rx, to_miner, miner_vars, hand, credited>>

\* run_job_poller: the template arrives ...
PollFetch(p) ==
    /\ fetched[p] = NoTip
    /\ fetched' = [fetched EXCEPT ![p] = tip]
    /\ UNCHANGED <<tip, last_height, current_job, job_template_cache, conn, job_rx,
                   to_miner, miner_vars, hand, credited>>

\* Mutant: only a higher template is published.
HigherOnly(p) == TipHeight[fetched[p]] + 1 > last_height[p]

NewHeight(p) == TipHeight[fetched[p]] + 1 # last_height[p]
\* With two templates cached, all but the current job's go.
KeptTemplates ==
    IF Cardinality(job_template_cache) >= 2
    THEN job_template_cache \cap {current_job} ELSE job_template_cache

\* ... and is published if its height is not the last one this poller published,
\* whatever the other has made of current_job meanwhile.
PollPublish(p) ==
    /\ fetched[p] # NoTip /\ NewHeight(p)
    /\ LET job == [id |-> current_job.id + 1, tip |-> fetched[p]] IN
       /\ last_height' = [last_height EXCEPT ![p] = JobHeight(job)]
       /\ job_template_cache' = KeptTemplates \cup {job}
       /\ current_job' = job
       /\ job_rx' = [c \in Conn |-> IF conn[c].pc = "closed" THEN job_rx[c]
                                    ELSE Append(job_rx[c], job)]
    /\ fetched' = [fetched EXCEPT ![p] = NoTip]
    /\ UNCHANGED <<tip, conn, to_miner, miner_vars, hand, credited>>

PollNothingNew(p) ==
    /\ fetched[p] # NoTip /\ ~ NewHeight(p)
    /\ fetched' = [fetched EXCEPT ![p] = NoTip]
    /\ UNCHANGED <<tip, last_height, current_job, job_template_cache, conn, job_rx,
                   to_miner, miner_vars, hand, credited>>

-----------------------------------------------------------------------------
\* Connections

set_difficulty(bits) == [method |-> "set_difficulty", bits |-> bits, job |-> NoJob]
notify_msg(job, bits) == [method |-> "notify", bits |-> bits, job |-> job]
Send(c, msgs) == to_miner' = [to_miner EXCEPT ![c] = @ \o msgs]
\* Mutant: the job is left to the poller.
NotifyNone(job, bits) == << >>
NotifyIfAny(job, bits) == IF job = NoJob THEN << >> ELSE <<notify_msg(job, bits)>>

Accept(c) ==
    /\ conn[c].pc = "closed"
    /\ conn' = [conn EXCEPT ![c].pc = "read"]
    /\ UNCHANGED <<tip, poller_vars, job_rx, to_miner, miner_vars, hand, credited>>

\* A line arrives or the read times out: first the waiting jobs go out.
Drain(c) ==
    /\ conn[c].pc = "read"
    /\ job_rx' = [job_rx EXCEPT ![c] = << >>]
    /\ IF conn[c].authorized /\ job_rx[c] # << >>
       THEN /\ Send(c, [i \in DOMAIN job_rx[c] |->
                          notify_msg(job_rx[c][i], conn[c].bits)])
            /\ conn' = [conn EXCEPT ![c].last_job = Last(job_rx[c]), ![c].pc = "line"]
       ELSE conn' = [conn EXCEPT ![c].pc = "line"] /\ UNCHANGED to_miner
    /\ UNCHANGED <<tip, poller_vars, miner_vars, hand, credited>>

\* The read has timed out, or the line is not one that changes anything.
NoLine(c) ==
    /\ conn[c].pc = "line"
    /\ conn' = [conn EXCEPT ![c].pc = "read"]
    /\ UNCHANGED <<tip, poller_vars, job_rx, to_miner, miner_vars, hand, credited>>

\* mining.authorize, at any time: a fresh session, its difficulty, the job.
Authorize(c) ==
    /\ conn[c].pc = "line" /\ Len(to_miner[c]) <= MaxUnread
    /\ conn' = [conn EXCEPT ![c] =
         [pc |-> "read", authorized |-> TRUE, bits |-> InitialBits,
          last_job |-> IF current_job = NoJob THEN @.last_job ELSE current_job]]
    /\ Send(c, <<set_difficulty(InitialBits)>> \o NotifyIfAny(current_job, InitialBits))
    /\ UNCHANGED <<tip, poller_vars, job_rx, miner_vars, hand, credited>>

\* The peer goes away, or a message cannot be written.  The miner goes on with the
\* job it has and keeps the shares not sent yet for the next connection.
Disconnect(c) ==
    /\ conn[c].pc \in {"read", "line"}
    /\ conn' = [conn EXCEPT ![c] = Closed]
    /\ job_rx' = [job_rx EXCEPT ![c] = << >>]
    /\ to_miner' = [to_miner EXCEPT ![c] = << >>]
    /\ \E sent \in 0 .. Len(to_pool[c]) :
         to_pool' = [to_pool EXCEPT ![c] = SubSeq(@, sent + 1, Len(@))]
    /\ UNCHANGED <<tip, poller_vars, miner, shares_found, hand, credited>>

-----------------------------------------------------------------------------
\* mining.submit

stale(c, s) == current_job # s.job /\ s.job # conn[c].last_job

\* validate_share, against the current job whatever job the share names.
ZerosOf(s) == IF s.job = current_job THEN s.zeros ELSE 0
is_share(c, s) == ZerosOf(s) >= conn[c].bits
is_block(s) == ZerosOf(s) >= difficulty_bits(current_job)

Submission(c) == Head(to_pool[c])
Takes(c) ==
    /\ conn[c].pc = "line" /\ conn[c].authorized /\ to_pool[c] # << >>
    /\ to_pool' = [to_pool EXCEPT ![c] = Tail(@)]
    /\ UNCHANGED <<tip, poller_vars, job_rx, to_miner, miner, shares_found, credited>>

Refuses(c, s) == current_job = NoJob \/ stale(c, s) \/ ~ is_share(c, s)
Reject(c) ==
    /\ Takes(c) /\ Refuses(c, Submission(c))
    /\ conn' = [conn EXCEPT ![c].pc = "read"] /\ UNCHANGED hand

\* The share counts.  The thread goes on with the job and the difficulty it has
\* read under the mutex; raw is for the template it will submit a block with.
Judge(c) ==
    LET s == Submission(c) IN
    /\ Takes(c) /\ ~ Refuses(c, s)
    /\ conn' = [conn EXCEPT ![c].pc = IF is_block(s) THEN "found" ELSE "count"]
    /\ hand' = [hand EXCEPT ![c] =
         [job |-> current_job, named |-> s.job, zeros |-> ZerosOf(s),
          bits |-> conn[c].bits, raw |-> NoJob]]

\* Mutant: the current job's template.
NewestTemplate(c) == current_job
Template(c) ==
    IF hand[c].job \in job_template_cache THEN hand[c].job
    ELSE IF hand[c].named \in job_template_cache THEN hand[c].named ELSE NoJob

\* The mutex is taken again to look the template up.
LookUp(c) ==
    /\ conn[c].pc = "found"
    /\ hand' = [hand EXCEPT ![c].raw = Template(c)]
    /\ conn' = [conn EXCEPT ![c].pc = "submit"]
    /\ UNCHANGED <<tip, poller_vars, job_rx, to_miner, miner_vars, credited>>

\* submit_block: the node accepts it, and the winning share is credited, or does
\* not.  Without the job's template the body has no transactions and is refused.
SubmitFound(c) ==
    /\ conn[c].pc = "submit"
    /\ \/ hand[c].raw = hand[c].job /\ credited' = credited \cup {hand[c]}
       \/ UNCHANGED credited
    /\ conn' = [conn EXCEPT ![c].pc = "count"]
    /\ UNCHANGED <<tip, poller_vars, job_rx, to_miner, miner_vars, hand>>

\* The difficulties the rate of shares may lead to.
NextBits(bits) ==
    {bits, IF bits + 1 < MaxBits THEN bits + 1 ELSE MaxBits,
     IF bits > MinBits + 1 THEN bits - 1 ELSE MinBits}

\* Mutants: the job is not repeated; the share weighs what the next must show.
QuietChange(bits) == <<set_difficulty(bits)>>
CheckedAnew(c, bits) == [hand[c] EXCEPT !.bits = bits]
ChangeMsgs(bits) == <<set_difficulty(bits)>> \o NotifyIfAny(current_job, bits)
Weighed(c, bits) == hand[c]

\* Vardiff, the share window (a block is in it already), and the new difficulty
\* with the current job.
Count(c) ==
    /\ conn[c].pc = "count"
    /\ \E bits \in NextBits(conn[c].bits) :
         /\ conn' = [conn EXCEPT ![c].pc = "read", ![c].bits = bits]
         /\ credited' = IF hand[c].zeros < difficulty_bits(hand[c].job)
                        THEN credited \cup {Weighed(c, bits)} ELSE credited
         /\ IF bits # conn[c].bits THEN Send(c, ChangeMsgs(bits)) ELSE UNCHANGED to_miner
    /\ hand' = [hand EXCEPT ![c] = NoShare]
    /\ UNCHANGED <<tip, poller_vars, job_rx, miner_vars>>

-----------------------------------------------------------------------------
\* Miners

\* stratum_client_run: a notify replaces job and difficulty; mining.set_difficulty
\* only matters to a notify without one.
Receive(c) ==
    /\ to_miner[c] # << >>
    /\ LET m == Head(to_miner[c]) IN
       miner' = [miner EXCEPT ![c] =
         IF m.method = "notify" THEN [job |-> m.job, bits |-> m.bits] ELSE @]
    /\ to_miner' = [to_miner EXCEPT ![c] = Tail(@)]
    /\ UNCHANGED <<tip, poller_vars, conn, job_rx, to_pool, shares_found, hand, credited>>

\* A nonce that meets the difficulty of the miner's job.
FindShare(c, z) ==
    /\ shares_found < MaxFound
    /\ miner[c].job # NoJob /\ z >= miner[c].bits
    /\ to_pool' = [to_pool EXCEPT ![c] = Append(@, [job |-> miner[c].job, zeros |-> z])]
    /\ shares_found' = shares_found + 1
    /\ UNCHANGED <<tip, poller_vars, conn, job_rx, to_miner, miner, hand, credited>>

\* A line that the read timeout cuts in two is lost, and so is a share submitted
\* before mining.authorize is through.
LineTorn(c) ==
    /\ conn[c].pc = "line" /\ to_pool[c] # << >>
    /\ to_pool' = [to_pool EXCEPT ![c] = Tail(@)]
    /\ conn' = [conn EXCEPT ![c].pc = "read"]
    /\ UNCHANGED <<tip, poller_vars, job_rx, to_miner, miner, shares_found, hand, credited>>

Thread(c) ==
    \/ Drain(c) \/ NoLine(c) \/ Authorize(c) \/ Reject(c) \/ Judge(c)
    \/ LookUp(c) \/ SubmitFound(c) \/ Count(c) \/ LineTorn(c)

StratumNext ==
    \/ NodeMoves
    \/ \E p \in Poller : PollFetch(p)
    \/ \E p \in Poller : PollPublish(p)
    \/ \E p \in Poller : PollNothingNew(p)
    \/ \E c \in Conn : Accept(c)
    \/ \E c \in Conn : Drain(c)
    \/ \E c \in Conn : NoLine(c)
    \/ \E c \in Conn : Authorize(c)
    \/ \E c \in Conn : Disconnect(c)
    \/ \E c \in Conn : Reject(c)
    \/ \E c \in Conn : Judge(c)
    \/ \E c \in Conn : LookUp(c)
    \/ \E c \in Conn : SubmitFound(c)
    \/ \E c \in Conn : Count(c)
    \/ \E c \in Conn : Receive(c)
    \/ \E c \in Conn, z \in Zeros : FindShare(c, z)
    \/ \E c \in Conn : LineTorn(c)

\* The pollers poll and are answered, the threads run (their reads time out), and
\* what is sent arrives.
Fairness ==
    /\ \A p \in Poller : /\ WF_stratum_vars(PollFetch(p))
                          /\ WF_stratum_vars(PollPublish(p) \/ PollNothingNew(p))
    /\ \A c \in Conn : WF_stratum_vars(Thread(c)) /\ WF_stratum_vars(Receive(c))
StratumSpec == StratumInit /\ [][StratumNext]_stratum_vars /\ Fairness
-----------------------------------------------------------------------------
\* Correctness

Notices(msgs) == {i \in DOMAIN msgs : msgs[i].method = "notify"}
\* What a miner that works on w works on once it has read the messages.
WorkAfter(msgs, w) ==
    IF Notices(msgs) = {} THEN w
    ELSE LET i == CHOOSE i \in Notices(msgs) : \A j \in Notices(msgs) : j <= i
         IN  [job |-> msgs[i].job, bits |-> msgs[i].bits]

\* Between the check of a nonce and the lookup of its template the mutex is free
\* and the job may change: a block is submitted with the template its nonce was
\* checked against, or with none (mining.submit).
SubmittedAsMined ==
    \A c \in Conn : conn[c].pc = "submit" => hand[c].raw \in {hand[c].job, NoJob}

\* A share enters the payout window with no more weight than its hash shows, also
\* when vardiff changes the difficulty of its session meanwhile (mining.submit).
WeightEarned == \A s \in credited : s.zeros >= s.bits

\* When everything under way has arrived, an authorised miner works on the current
\* job.  Jobs reach it by three ways, the channel drained before a line, the answer
\* to mining.authorize and the repetition after vardiff, and an older job in the
\* channel may follow a newer one sent directly; the last is the current one
\* (handle_stratum_conn).
EndsOnCurrent ==
    \A c \in Conn : conn[c].authorized =>
        current_job = IF job_rx[c] # << >> THEN Last(job_rx[c])
                      ELSE WorkAfter(to_miner[c], miner[c]).job

\* When everything under way has arrived, the difficulty of the miner's job is the
\* one its shares are checked with.  The miner takes its difficulty from the last
\* notify, so every change must repeat the job, and the jobs drained later carry the
\* session's difficulty of that moment (handle_stratum_conn: "Without this the miner
\* keeps submitting at the old threshold").
DifficultyAgreed ==
    \A c \in Conn : (conn[c].authorized /\ current_job # NoJob /\ job_rx[c] = << >>) =>
        conn[c].bits = WorkAfter(to_miner[c], miner[c]).bits

\* Once the node's tip stays and the miner stays connected, the miner comes to work
\* at the height above the tip and is not led away from it again, through the polls,
\* the broadcasts and the drain that a read timeout brings about.  One poller may
\* publish a template that was already stale when the other published the newer one;
\* its own next poll then repairs that (run_job_poller, handle_stratum_conn).
WorkFollowsHeight ==
    \A t \in Tip, c \in Conn :
        <>[](tip = t /\ conn[c].authorized) =>
            <>[](miner[c].job # NoJob /\ TipHeight[miner[c].job.tip] = TipHeight[t])

-----------------------------------------------------------------------------
\* The inductive invariant

\* What holds of a connection while the current job is j: k its thread, h the share
\* in hand, rx its channel, msgs the messages under way and w its miner's work.
Follows(j, k, h, rx, msgs, w) ==
    /\ k.pc = "closed" => k = Closed /\ rx = << >>
    /\ rx # << >> => Last(rx) = j
    /\ j = NoJob => w.job = NoJob /\ Notices(msgs) = {}
    /\ k.authorized /\ rx = << >> =>
         /\ WorkAfter(msgs, w).job = j
         /\ j # NoJob => WorkAfter(msgs, w).bits = k.bits
    /\ h.zeros >= h.bits
    /\ k.pc = "found" => h.named = h.job
    /\ k.pc = "submit" => h.raw \in {h.job, NoJob}

StratumInv ==
    /\ StratumTypeOK /\ WeightEarned
    /\ \A c \in Conn :
         Follows(current_job, conn[c], hand[c], job_rx[c], to_miner[c], miner[c])

-----------------------------------------------------------------------------
\* Statements that the code does not keep

\* "a valid block always beats a share" (stratum.rs:6): a nonce that meets the
\* network's difficulty is not rejected as a share.
BlockBeatsShare ==
    \A c \in Conn :
        (conn[c].authorized /\ to_pool[c] # << >> /\ current_job # NoJob) =>
            (is_block(Submission(c)) => is_share(c, Submission(c)))

\* "Allow current job_id or previous (1 stale tolerated)" (stratum.rs:573): a share
\* for the previous job, found at the session's difficulty, is not rejected.
StaleTolerated ==
    \A c \in Conn :
        (conn[c].pc = "line" /\ conn[c].authorized /\ to_pool[c] # << >>) =>
            (Submission(c).job = conn[c].last_job /\ Submission(c).zeros >= conn[c].bits
                => ~ Refuses(c, Submission(c)))

\* While a block goes from the check to the lookup its template stays cached.
BlockHasTemplate == \A c \in Conn : conn[c].pc = "submit" => hand[c].raw # NoJob

\* A template that was fetched before the node moved on does not take the place of
\* the newer job: what is current only moves to tips with more work.
JobNeverOlder ==
    [][current_job # NoJob /\ current_job' # current_job
         => Work[current_job'.tip] >= Work[current_job.tip]]_stratum_vars

\* The miners come to work on the node's tip, not just at its height.
WorkFollowsTip ==
    \A t \in Tip, c \in Conn :
        (tip = t /\ conn[c].authorized) ~>
            \/ tip # t \/ ~ conn[c].authorized
            \/ miner[c].job.tip = t
=============================================================================
