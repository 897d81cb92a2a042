-------------------------- MODULE SettlementProof --------------------------
(***************************************************************************)
(* The proof that the money of a closed channel has come back.  The        *)
(* connector scans the chain for what became of the channel's funding      *)
(* output: page after page of a lagging indexer, following the commitment  *)
(* outputs to the transactions that spend them.  It caches what it found.  *)
(* The coordinator judges such a claim again from the transactions alone.  *)
(*                                                                         *)
(* Money that reached a wallet is terminal.  Any other cell that nothing   *)
(* is known to spend is pending, and a settlement with a pending cell is   *)
(* not confirmed.                                                          *)
(***************************************************************************)
EXTENDS Integers, FiniteSets, Sequences, SequencesExt

CONSTANTS
    Txs,            \* the transactions that may ever be committed
    Inputs,         \* the points each transaction spends
    Outputs,        \* the cells it makes: [kind, lock]
    Root,           \* the transaction whose first output funds the channel
    None            \* an absent optional value

CONSTANTS
    MaxTransactions,  \* 32 in the code
    MaxPoints,        \* 64 in the code: points one scan may visit
    PageSize,         \* 100 in the code
    MaxPages,         \* 20 in the code: pages read for one point
    CacheLife,        \* 60 s in the code
    MaxClock          \* bound on the clock

\* A transaction has finitely many inputs and a list of outputs.
CellKinds == {"funding", "commitment", "wallet", "other"}
ASSUME TxAssumption ==
    /\ IsFiniteSet(Txs) /\ Root \in Txs
    /\ \A t \in Txs : IsFiniteSet(Inputs[t])
    /\ Outputs \in [Txs -> Seq([kind : CellKinds, lock : STRING])]
    /\ Outputs[Root][1].kind = "funding"
ASSUME LimitAssumption ==
    /\ MaxTransactions \in Nat /\ MaxPoints \in Nat
    /\ PageSize \in Nat \ {0} /\ MaxPages \in Nat

VARIABLES
    now,      \* the clock
    chain,    \* committed transactions, in the order of their blocks
    tip,      \* how many of them the indexer has seen
    scan,     \* the scan in progress, or None
    cache     \* the connector's last check: [at, result], or None

vars == <<now, chain, tip, scan, cache>>

Funding == <<Root, 1>>
Cell(point) == Outputs[point[1]][point[2]]
Points(t) == {<<t, n>> : n \in DOMAIN Outputs[t]}
Committed == ToSet(chain)

\* The committed transactions of `among' that spend the point: one at most.
SpendersOf(point, among) == {t \in among : point \in Inputs[t]}

(***************************************************************************)
(* Summarize: walk from the transaction that spends the funding, through   *)
(* the commitments whose spender is among the given transactions.  Every   *)
(* one of them must be reached.                                            *)
(***************************************************************************)
\* A cell at which the walk stops although no wallet holds it.
StuckOther(point, among) == Cell(point).kind \notin {"wallet", "commitment"}
Stuck(point, among) ==
    /\ Cell(point).kind # "wallet"
    /\ Cell(point).kind = "commitment" => SpendersOf(point, among) = {}

\* One round of the work list.
Visit(s, among) ==
    LET t == CHOOSE u \in s.queue : TRUE
        next == UNION {SpendersOf(p, among) :
                   p \in {q \in Points(t) : Cell(q).kind = "commitment"}}
    IN  [queue |-> (s.queue \cup next) \ (s.visited \cup {t}),
         visited |-> s.visited \cup {t},
         pending |-> s.pending \cup {p \in Points(t) : Stuck(p, among)}]

\* A transaction is visited once: there are no more rounds than transactions.
Walk(closing, among) ==
    LET after[n \in 0..Cardinality(among)] ==
            IF n = 0 THEN [queue |-> {closing}, visited |-> {}, pending |-> {}]
            ELSE IF after[n - 1].queue = {} THEN after[n - 1]
            ELSE Visit(after[n - 1], among)
    IN  after[Cardinality(among)]

Failed == [ok |-> FALSE]
NotClosed == [ok |-> TRUE, closing |-> None]

Summary(among) ==
    LET closing == SpendersOf(Funding, among)
        walk == Walk(CHOOSE t \in closing : TRUE, among)
    IN  IF Cardinality(among) > MaxTransactions THEN Failed
        ELSE IF closing = {} THEN IF among = {} THEN NotClosed ELSE Failed
        ELSE IF walk.visited # among THEN Failed
        ELSE [ok |-> TRUE, closing |-> CHOOSE t \in closing : TRUE,
              hashes |-> walk.visited, pending |-> walk.pending,
              confirmed |-> walk.pending = {}]

(***************************************************************************)
(* The coordinator accepts a claim when the transactions it names are all  *)
(* committed and their summary is the claim.                               *)
(***************************************************************************)
ProofSizeSmaller(n) == n > 0 /\ n < MaxTransactions
ProofSize(n) == n > 0 /\ n <= MaxTransactions

Verified(claim) ==
    /\ ProofSize(Cardinality(claim.hashes))
    /\ claim.hashes \subseteq Committed
    /\ Summary(claim.hashes) = claim

(***************************************************************************)
(* The scan.  Its queue is a stack of points.  For the point on top it     *)
(* asks the node whether the cell is live, then reads the indexer's        *)
(* history of the cell's lock until a page holds the spender.              *)
(***************************************************************************)
Idle == scan = None

\* What the indexer lists for a lock: cells made and cells spent, oldest first.
Entries(t, lock) ==
    SetToSeq({[tx |-> t, io |-> "output", point |-> p] :
                 p \in {q \in Points(t) : Cell(q).lock = lock}})
    \o SetToSeq({[tx |-> t, io |-> "input", point |-> p] :
                 p \in {q \in Inputs[t] : Cell(q).lock = lock}})
History(lock) ==
    LET listed[n \in 0..tip] ==
            IF n = 0 THEN <<>> ELSE listed[n - 1] \o Entries(chain[n], lock)
    IN  listed[tip]

Begin ==
    /\ Idle
    /\ cache # None => now - cache.at >= CacheLife
    /\ Root \in Committed
    /\ scan' = [queue |-> <<Funding>>, visited |-> {}, found |-> {},
                point |-> None, cursor |-> 0, pages |-> 0]
    /\ UNCHANGED <<now, chain, tip, cache>>

LiveCell(point) ==
    point[1] \in Committed /\ SpendersOf(point, Committed) = {}

\* The next point: visited already, or live, or to be looked up.
Pop ==
    /\ ~Idle /\ scan.point = None /\ scan.queue # <<>>
    /\ LET point == Last(scan.queue)
           visited == scan.visited \cup {point}
           asked == IF point \in scan.visited \/ LiveCell(point)
                    THEN None ELSE point
       IN  /\ Cardinality(visited) <= MaxPoints
           /\ scan' = [scan EXCEPT !.queue = Front(@), !.visited = visited,
                                   !.point = asked, !.cursor = 0,
                                   !.pages = 0]
    /\ UNCHANGED <<now, chain, tip, cache>>

\* The page that starts at the cursor.
Page == LET all == History(Cell(scan.point).lock)
            end == scan.cursor + PageSize
        IN  SubSeq(all, scan.cursor + 1,
                   IF end < Len(all) THEN end ELSE Len(all))

Hits == {e.tx : e \in {f \in ToSet(Page) : f.io = "input"
                                           /\ scan.point \in Inputs[f.tx]}}

\* A spender is found: its commitments are looked at next.
Follow ==
    /\ ~Idle /\ scan.point # None /\ scan.pages < MaxPages
    /\ \E t \in Hits :
          IF t \in scan.found
          THEN scan' = [scan EXCEPT !.point = None]
          ELSE /\ Cardinality(scan.found) < MaxTransactions
               /\ scan' = [scan EXCEPT
                     !.point = None, !.found = @ \cup {t},
                     !.queue = @ \o SetToSeq({p \in Points(t) :
                                        Cell(p).kind = "commitment"})]
    /\ UNCHANGED <<now, chain, tip, cache>>

\* The history is exhausted: a short page without the spender.
ExhaustedOrTired == Len(Page) < PageSize \/ scan.pages + 1 = MaxPages
Exhausted == Len(Page) < PageSize

GiveUp ==
    /\ ~Idle /\ scan.point # None /\ scan.pages < MaxPages
    /\ Hits = {} /\ Exhausted
    /\ scan' = [scan EXCEPT !.point = None]
    /\ UNCHANGED <<now, chain, tip, cache>>

TurnPage ==
    /\ ~Idle /\ scan.point # None /\ scan.pages < MaxPages
    /\ Hits = {} /\ ~Exhausted
    /\ scan' = [scan EXCEPT !.cursor = @ + PageSize, !.pages = @ + 1]
    /\ UNCHANGED <<now, chain, tip, cache>>

\* The scan ends, and what it found is summed up and cached.
Finish ==
    /\ ~Idle /\ scan.point = None /\ scan.queue = <<>>
    /\ LET result == Summary(scan.found)
       IN  cache' = [at |-> now,
                     result |-> IF result.ok /\ result.closing # None
                                THEN result ELSE None]
    /\ scan' = None
    /\ UNCHANGED <<now, chain, tip>>

(***************************************************************************)
(* The scan fails: a limit is reached, an answer is missing, or 25 s have  *)
(* passed.  The failure is cached as unknown.                              *)
(***************************************************************************)
Fail ==
    /\ ~Idle
    /\ cache' = [at |-> now, result |-> None]
    /\ scan' = None
    /\ UNCHANGED <<now, chain, tip>>

\* The connector stops in the middle of a scan; the cache is in its database.
Restart ==
    /\ ~Idle
    /\ scan' = None
    /\ UNCHANGED <<now, chain, tip, cache>>

(***************************************************************************)
(* The chain, its indexer and the clock.                                   *)
(***************************************************************************)
Commit(t) ==
    /\ t \notin Committed
    /\ \A p \in Inputs[t] : LiveCell(p)
    /\ chain' = Append(chain, t)
    /\ UNCHANGED <<now, tip, scan, cache>>

Index ==
    /\ tip < Len(chain)
    /\ tip' = tip + 1
    /\ UNCHANGED <<now, chain, scan, cache>>

Advance ==
    /\ now < MaxClock
    /\ now' = now + 1
    /\ UNCHANGED <<chain, tip, scan, cache>>

Init == now = 0 /\ chain = <<Root>> /\ tip = 1 /\ scan = None /\ cache = None

Scanning == Begin \/ Pop \/ Follow \/ GiveUp \/ TurnPage \/ Finish \/ Fail
Outside == (\E t \in Txs : Commit(t)) \/ Index \/ Advance

Next == Scanning \/ Restart \/ Outside

Spec == Init /\ [][Next]_vars

-----------------------------------------------------------------------------
(* The cells the channel's money has passed through, by the definition of  *)
(* descent and not by the code's walk: the funding, and every output of a  *)
(* transaction that spends a commitment or the funding among them.         *)
Descent ==
    LET after[n \in 0..Cardinality(Txs)] ==
            IF n = 0 THEN {Funding}
            ELSE after[n - 1] \cup
                 UNION {Points(t) : t \in UNION {SpendersOf(p, Committed) :
                    p \in {q \in after[n - 1] :
                              Cell(q).kind \in {"funding", "commitment"}}}}
    IN  after[Cardinality(Txs)]

Recovered ==
    \A p \in Descent : Cell(p).kind = "wallet"
                       \/ (/\ Cell(p).kind \in {"funding", "commitment"}
                           /\ SpendersOf(p, Committed) # {})

(* Whatever set of committed transactions a claim names, if it is accepted *)
(* as confirmed then all the channel's money is in wallets: leaving out a  *)
(* spend or adding another channel's transaction cannot hide a cell that   *)
(* is still locked (settlement::summarize).                                *)
ConfirmedIsRecovered ==
    \A among \in SUBSET Committed :
        LET claim == Summary(among)
        IN  claim.ok /\ claim.closing # None /\ claim.confirmed => Recovered

(* What an honest connector has cached is accepted by the coordinator      *)
(* whenever it arrives, however the chain has grown since: both limits and *)
(* both walks agree (settlement::inspect, settlement::verify).             *)
HonestClaimAccepted ==
    cache # None /\ cache.result # None => Verified(cache.result)

(* The scan drops a point as unspent only when the node says it is live or *)
(* the indexer holds no spender of it; reaching the page limit is never    *)
(* taken for an answer (settlement_scan::spender).                         *)
ScanNeverGuesses ==
    [][~Idle /\ scan' # None /\ scan.point # None /\ scan'.point = None
       /\ scan'.found = scan.found
       => LET seen == ToSet(SubSeq(chain, 1, tip))
          IN  SpendersOf(scan.point, seen) \subseteq scan.found]_vars
=============================================================================
