------------------------------- MODULE Peers -------------------------------
(***************************************************************************)
(* The ban list and the inbound connections of tensorium-node.  One thread *)
(* accepts connections, each connection has a thread, an operator may lift *)
(* a ban.  They share the ban list as a file without a lock: every change  *)
(* loads the file, changes the copy and writes it back, and fs::write      *)
(* truncates the file before it fills it.  An unreadable file counts as an *)
(* empty list.  They also share peer_count: the accepting thread compares  *)
(* it and counts up, a connection's thread counts down as the last thing   *)
(* it does, unless it panics, which skips that.                            *)
(***************************************************************************)
EXTENDS Integers, FiniteSets, Functions

CONSTANTS
    Ip, Honest,       \* the remote addresses; those that break no rule
    Conn,             \* connection threads
    Admin,            \* the thread or process that serves /unban
    MaxInbound,       \* MAX_INBOUND_PEERS
    BanThreshold, BanDuration,
    ScoreBlock, ScoreTx, ScoreMsg, ScoreHandshake,
    ScoreMax,         \* where the score saturates, u32::MAX
    MaxPanics,        \* bound on the threads that panic
    MaxTime           \* bound on the clock

ASSUME PeersAssumption ==
    /\ Honest \subseteq Ip /\ Admin \notin Conn
    /\ {MaxInbound, BanThreshold, BanDuration, ScoreBlock, ScoreTx, ScoreMsg,
        ScoreHandshake, ScoreMax, MaxTime} \subseteq Nat \ {0}
    /\ MaxPanics \in Nat
    /\ BanThreshold <= ScoreMax

VARIABLES
    now,       \* now_seconds()
    file,      \* what load_banlist reads from the ban list file
    torn,      \* the file is truncated or garbled
    thread,    \* what each thread is doing
    acceptor,  \* where the accept loop of serve_p2p is, and for which address
    peer_count,
    \* history variables
    served,    \* when the last ban that was saved for an address ends
    owed,      \* what an address was charged with since its last ban ended
    raced,     \* two updates overlapped, or a half-written file was read
    panicked   \* how many connection threads died in a panic

counting == <<acceptor, peer_count, panicked>>
peers_vars == <<now, file, torn, thread, served, owed, raced, counting>>

Writer == Conn \cup {Admin}
NoIp == "none"
BanEntry == [score : 1 .. ScoreMax, until : Nat]   \* until 0: not banned yet
IsBanList(l) == DOMAIN l \subseteq Ip /\ l \in [DOMAIN l -> BanEntry]
EmptyList == [ip \in {} |-> [score |-> 1, until |-> 0]]
Accepting == [pc |-> "idle", ip |-> NoIp]
Free == [pc |-> "free", ip |-> NoIp, list |-> EmptyList, score |-> 0, then |-> "free"]

\* hello, open: waiting for the peer.  loaded: record_violation or /unban has its
\* changed copy in memory.  saving: the file is truncated.  ended: the handler has
\* returned, the thread has not counted itself down.
IsThread(t) ==
    /\ t.pc \in {"free", "hello", "open", "loaded", "saving", "ended"} /\ IsBanList(t.list)
    /\ t.pc # "free" => t.ip \in Ip
    /\ t.score \in Nat /\ t.then \in {"free", "open", "ended"}

\* checked: below the limit.  admitted: not banned.  counted: peer_count is up, the
\* thread is not there yet.
IsAcceptor(a) ==
    /\ a.pc \in {"idle", "checked", "admitted", "counted"}
    /\ a.pc # "idle" => a.ip \in Ip
PeersTypeOK ==
    /\ now \in Nat \ {0}
    /\ IsBanList(file) /\ torn \in BOOLEAN
    /\ DOMAIN thread = Writer /\ \A w \in Writer : IsThread(thread[w])
    /\ served \in [Ip -> Nat] /\ owed \in [Ip -> 0 .. ScoreMax]
    /\ raced \in BOOLEAN
    /\ IsAcceptor(acceptor) /\ peer_count \in Int /\ panicked \in Nat

PeersInit ==
    /\ now = 1 /\ file = EmptyList /\ torn = FALSE
    /\ thread = [w \in Writer |-> Free]
    /\ served = [ip \in Ip |-> 0] /\ owed = [ip \in Ip |-> 0]
    /\ raced = FALSE
    /\ acceptor = Accepting /\ peer_count = 0 /\ panicked = 0

-----------------------------------------------------------------------------
\* BanList

is_banned(l, ip) == ip \in DOMAIN l /\ l[ip].until > now

\* Mutant: sub-threshold scores are dropped with the expired bans.
PruneUnbanned(l) == Restrict(l, {ip \in DOMAIN l : l[ip].until > now})
prune_expired(l) ==
    Restrict(l, {ip \in DOMAIN l : l[ip].until = 0 \/ l[ip].until > now})

SaturatingAdd(a, b) == IF a + b < ScoreMax THEN a + b ELSE ScoreMax
NewScore(l, ip, s) ==
    SaturatingAdd(IF ip \in DOMAIN l THEN l[ip].score ELSE 0, s)

\* record imposes a new ban.
Imposes(l, ip, s) == ~ is_banned(l, ip) /\ NewScore(l, ip, s) >= BanThreshold

record(l, ip, s) ==
    [i \in DOMAIN l \cup {ip} |->
        IF i # ip THEN l[i]
        ELSE [score |-> NewScore(l, ip, s),
              until |-> IF Imposes(l, ip, s) THEN now + BanDuration
                        ELSE IF ip \in DOMAIN l THEN l[ip].until ELSE 0]]

Updating(w) == thread[w].pc \in {"loaded", "saving"}
Others(w) == \E v \in Writer \ {w} : Updating(v)

-----------------------------------------------------------------------------
Tick ==
    /\ now < MaxTime
    /\ now' = now + 1
    /\ owed' = [ip \in Ip |-> IF served[ip] = now' THEN 0 ELSE owed[ip]]
    /\ UNCHANGED <<file, torn, thread, served, raced, counting>>

\* serve_p2p, one connection after the other.  A connection that finds the limit
\* reached is shut and leaves no trace.
CheckLimit(ip) ==
    /\ acceptor.pc = "idle"
    /\ peer_count < MaxInbound
    /\ acceptor' = [pc |-> "checked", ip |-> ip]
    /\ UNCHANGED <<now, file, torn, thread, served, owed, raced, peer_count, panicked>>

\* Mutant: bans are not looked up.
Welcome(ip) == TRUE
NotRefused(ip) == ~ is_banned(file, ip)

LookUp ==
    /\ acceptor.pc = "checked"
    /\ acceptor' = IF NotRefused(acceptor.ip) THEN [acceptor EXCEPT !.pc = "admitted"]
                   ELSE Accepting
    /\ raced' = (raced \/ torn)
    /\ UNCHANGED <<now, file, torn, thread, served, owed, peer_count, panicked>>

CountUp ==
    /\ acceptor.pc = "admitted"
    /\ acceptor' = [acceptor EXCEPT !.pc = "counted"]
    /\ peer_count' = peer_count + 1
    /\ UNCHANGED <<now, file, torn, thread, served, owed, raced, panicked>>

Spawn(c) ==
    /\ acceptor.pc = "counted" /\ thread[c].pc = "free"
    /\ acceptor' = Accepting
    /\ thread' = [thread EXCEPT ![c] = [Free EXCEPT !.pc = "hello", !.ip = acceptor.ip]]
    /\ UNCHANGED <<now, file, torn, served, owed, raced, peer_count, panicked>>

\* The hello is good and the database opens.
HelloOk(c) ==
    /\ thread[c].pc = "hello"
    /\ thread' = [thread EXCEPT ![c].pc = "open"]
    /\ UNCHANGED <<now, file, torn, served, owed, raced, counting>>

\* Mutant: the thread returns where the connection fails, without counting down.
ReturnEarly(c) ==
    /\ thread[c].pc \in {"hello", "open"}
    /\ thread' = [thread EXCEPT ![c] = Free]
    /\ UNCHANGED <<now, file, torn, served, owed, raced, counting>>

\* The database is locked or the answer cannot be written, or, after the hello,
\* the peer goes away or falls silent.  Before the hello that is charged.
Close(c) ==
    /\ thread[c].pc \in {"hello", "open"}
    /\ thread' = [thread EXCEPT ![c].pc = "ended"]
    /\ UNCHANGED <<now, file, torn, served, owed, raced, counting>>

\* The last statement of the thread.
Leave(c) ==
    /\ thread[c].pc = "ended"
    /\ thread' = [thread EXCEPT ![c] = Free]
    /\ peer_count' = peer_count - 1
    /\ UNCHANGED <<now, file, torn, served, owed, raced, acceptor, panicked>>

\* A read or write of the database fails while the handler answers a hello or
\* applies a message: expect panics, and the thread is gone without counting down.
Panic(c) ==
    /\ thread[c].pc \in {"hello", "open"} /\ panicked < MaxPanics
    /\ thread' = [thread EXCEPT ![c] = Free]
    /\ panicked' = panicked + 1
    /\ UNCHANGED <<now, file, torn, served, owed, raced, acceptor, peer_count>>

\* What a peer can be charged for, in the handshake and after it.  A valid block
\* that finds the database locked is charged like an invalid one: the reason
\* contains neither "already known" nor "parent" (is_bannable_block_error).
HelloOffence == {<<"unreadable", ScoreMsg>>, <<"foreign", ScoreHandshake>>}
MsgOffence == {<<"junk", ScoreMsg>>, <<"badblock", ScoreBlock>>,
               <<"locked", ScoreBlock>>, <<"badtx", ScoreTx>>}
Commits(ip, o) == ip \in Honest => o[1] = "locked"

\* record_violation up to the changed copy.  A bad hello closes the connection in
\* any case, a bad message when it brings a new ban.
Offend(c, o) ==
    LET l == prune_expired(file)
        ip == thread[c].ip
    IN  /\ \/ thread[c].pc = "hello" /\ o \in HelloOffence
           \/ thread[c].pc = "open" /\ o \in MsgOffence
        /\ Commits(ip, o)
        /\ thread' = [thread EXCEPT ![c] =
             [pc |-> "loaded", ip |-> ip, list |-> record(l, ip, o[2]), score |-> o[2],
              then |-> IF o \in HelloOffence \/ Imposes(l, ip, o[2])
                       THEN "ended" ELSE "open"]]
        /\ raced' = (raced \/ Others(c))
        /\ UNCHANGED <<now, file, torn, served, owed, counting>>

\* /unban up to the changed copy.
Unban(ip) ==
    /\ thread[Admin].pc = "free"
    /\ thread' = [thread EXCEPT ![Admin] =
         [Free EXCEPT !.pc = "loaded", !.ip = ip,
                      !.list = Restrict(file, DOMAIN file \ {ip})]]
    /\ raced' = (raced \/ Others(Admin))
    /\ UNCHANGED <<now, file, torn, served, owed, counting>>

\* save_banlist: truncate, then fill.
BeginSave(w) ==
    /\ thread[w].pc = "loaded"
    /\ thread' = [thread EXCEPT ![w].pc = "saving"]
    /\ file' = EmptyList /\ torn' = TRUE
    /\ UNCHANGED <<now, served, owed, raced, counting>>

\* Where another thread filled the file meanwhile, the longer text may stick out.
EndSave(w) ==
    LET t == thread[w]
    IN  /\ t.pc = "saving"
        /\ torn' \in {FALSE, ~ torn}
        /\ file' = IF torn' THEN EmptyList ELSE t.list
        /\ thread' = [thread EXCEPT ![w] =
             IF w = Admin THEN Free ELSE [Free EXCEPT !.pc = t.then, !.ip = t.ip]]
        /\ IF w = Admin
           THEN /\ served' = [served EXCEPT ![t.ip] = 0]
                /\ owed' = [owed EXCEPT ![t.ip] = 0]
           ELSE /\ served' = [served EXCEPT ![t.ip] = t.list[t.ip].until]
                /\ owed' = [owed EXCEPT ![t.ip] =
                              IF t.list[t.ip].until \in 1 .. now THEN 0
                              ELSE SaturatingAdd(@, t.score)]
        /\ UNCHANGED <<now, raced, counting>>

\* The process dies and is started again.
Restart ==
    /\ thread' = [w \in Writer |-> Free]
    /\ raced' = (raced \/ torn)
    /\ acceptor' = Accepting /\ peer_count' = 0 /\ panicked' = 0
    /\ UNCHANGED <<now, file, torn, served, owed>>

PeersNext ==
    \/ Tick
    \/ \E ip \in Ip : CheckLimit(ip)
    \/ LookUp
    \/ CountUp
    \/ \E c \in Conn : Spawn(c)
    \/ \E c \in Conn : HelloOk(c)
    \/ \E c \in Conn : Close(c)
    \/ \E c \in Conn : Leave(c)
    \/ \E c \in Conn : Panic(c)
    \/ \E c \in Conn, o \in HelloOffence \cup MsgOffence : Offend(c, o)
    \/ \E ip \in Ip : Unban(ip)
    \/ \E w \in Writer : BeginSave(w)
    \/ \E w \in Writer : EndSave(w)
    \/ Restart

PeersSpec == PeersInit /\ [][PeersNext]_peers_vars

-----------------------------------------------------------------------------
\* Correctness

Quiet == \A w \in Writer : ~ Updating(w)

Live == {c \in Conn : thread[c].pc # "free"}

\* serve_p2p compares, counts up and spawns in separate steps while the threads count
\* themselves down, and still there are never more connections than
\* MAX_INBOUND_PEERS: peer_count is exact for every way a handler returns, and a
\* thread that panics only leaves it too high, by one.
InboundBounded ==
    /\ Cardinality(Live) <= MaxInbound
    /\ peer_count = Cardinality(Live) + panicked + (IF acceptor.pc = "counted" THEN 1 ELSE 0)

\* As long as no two updates of the file overlapped, the offences of an address
\* add up over its connections, pruning and restarts: one that was charged with
\* BAN_THRESHOLD since its last ban ended is banned.
ScoresAddUp ==
    ~ raced /\ Quiet =>
        \A ip \in Ip : owed[ip] >= BanThreshold => is_banned(file, ip)

\* A ban that was saved keeps the address out until it ends or is lifted, as long
\* as no two updates of the file overlapped.
BanHoldsUnlessRaced ==
    [][acceptor.pc = "checked" /\ acceptor'.pc = "admitted" /\ ~ raced'
         => served[acceptor.ip] <= now]_peers_vars

-----------------------------------------------------------------------------
\* The inductive invariant

\* What a list says of an address agrees with the history: the score is what the
\* address owes, a ban ends when the last saved one does, and with its end, or
\* without an entry, nothing is owed.
Agrees(l, ip) ==
    IF ip \in DOMAIN l
    THEN /\ served[ip] = l[ip].until
         /\ l[ip].until = 0 => owed[ip] = l[ip].score /\ owed[ip] < BanThreshold
         /\ l[ip].until \in 1 .. now => owed[ip] = 0
    ELSE owed[ip] = 0 /\ served[ip] <= now

\* The copy a thread is about to save agrees but for the address it is about, whose
\* entry has the charge that will be owed once it is saved.
Charged(w) ==
    LET t == thread[w] IN
    IF w = Admin THEN t.ip \notin DOMAIN t.list
    ELSE /\ t.ip \in DOMAIN t.list
         /\ t.list[t.ip].until = 0 =>
              /\ served[t.ip] <= now /\ t.list[t.ip].score < BanThreshold
              /\ t.list[t.ip].score = SaturatingAdd(owed[t.ip], t.score)
CopyAgrees(w) ==
    /\ \A ip \in Ip \ {thread[w].ip} : Agrees(thread[w].list, ip)
    /\ Charged(w)

OneUpdate == \A v, w \in Writer : Updating(v) /\ Updating(w) => v = w
TornWhileSaving == torn <=> \E w \in Writer : thread[w].pc = "saving"
FileAgrees == torn \/ \A ip \in Ip : Agrees(file, ip)

PeersInv ==
    /\ PeersTypeOK
    /\ \A c \in Conn : Updating(c) => thread[c].ip \in DOMAIN thread[c].list
    /\ ~ raced => /\ OneUpdate /\ TornWhileSaving /\ FileAgrees
                  /\ \A w \in Writer : Updating(w) => CopyAgrees(w)

-----------------------------------------------------------------------------
\* Statements that the code does not keep

\* A ban that was saved keeps the address out until it ends or is lifted.
BanHolds ==
    [][acceptor.pc = "checked" /\ acceptor'.pc = "admitted"
         => served[acceptor.ip] <= now]_peers_vars

\* A node without connections has all its MAX_INBOUND_PEERS places free.
PlacesComeBack == Live = {} /\ acceptor.pc = "idle" => peer_count = 0

\* A peer that sends only valid blocks and messages is never banned.
HonestNotBanned == \A ip \in Honest : served[ip] = 0
=============================================================================
