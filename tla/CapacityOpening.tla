--------------------------- MODULE CapacityOpening ---------------------------
(***************************************************************************)
(* The provider's connector: one worker that polls the coordinator, opens  *)
(* the accepted orders on the local Fiber node within the local budget,    *)
(* and keeps a journal of its attempts; and the `approve` command, another *)
(* process that writes the same journal.                                   *)
(*                                                                         *)
(* The worker is one sequential loop, held by run.lock and worker.lock.    *)
(* Its state between two awaits is `worker`, lost when the process stops;  *)
(* the journal is a SQLite table and survives.  The coordinator appears as *)
(* the status it gives an order ("opened" stands for every status between  *)
(* the claim and the delivery), the node as the channel of each order and  *)
(* the channels opened outside LiquidLane, by hand or by the peer.         *)
(***************************************************************************)
EXTENDS Integers, FiniteSets, FiniteSetsExt, Functions

CONSTANTS
    Orders,       \* orders with this provider, within its per-order limits
    Foreign,      \* channels of the node that are opened for no order
    Funding,      \* what a channel locks of the provider's
    Settings,     \* the configurations and merchants to choose from
    None

ASSUME ConnectorAssumption ==
    /\ IsFiniteSet(Orders) /\ IsFiniteSet(Foreign) /\ Orders \cap Foreign = {}
    /\ None \notin Orders \cup Foreign
                       \cup ((Orders \cup Foreign) \X {"temporary", "final"})
    /\ Funding \in [Orders \cup Foreign -> Nat]
    /\ \A o \in Orders : Funding[o] > 0
    /\ \A s \in Settings : /\ DOMAIN s.peer = Orders \cup Foreign
                           /\ s.total \in Nat /\ s.auto \in BOOLEAN
                           /\ s.approvals \subseteq Orders
                           /\ s.reports \subseteq Orders
                           /\ s.outside \subseteq Foreign /\ s.crashes \in Nat

CoreStates == {"none", "awaiting_quote", "quoted", "accepted", "opened",
               "delivered", "paid", "released"}
Unclaimed == {"awaiting_quote", "quoted", "accepted"}
\* "temporary": negotiated under a temporary id; "funded": the final id and the
\* funding output exist; "gone": no longer in the node's list.
ChannelStates == {"absent", "temporary", "funded", "ready", "closing", "gone"}
\* A channel opened for an order goes by the order's name.
Channels == Orders \cup Foreign
ChannelIds == Channels \X {"temporary", "final"}
Journals == [approved : BOOLEAN, attempted : BOOLEAN, funding : Nat,
             channel : ChannelIds \cup {None}, outpoint : Channels \cup {None},
             baseline : SUBSET ChannelIds]

NoJournal == [approved |-> FALSE, attempted |-> FALSE, funding |-> 0,
              channel |-> None, outpoint |-> None, baseline |-> {}]

VARIABLES
    core,      \* the coordinator's status of each order
    bound,     \* the channel the coordinator has on record for it
    journal,   \* durable: the connector's record of its attempts
    worker,    \* volatile: where the worker is, and what it holds
    approving, \* the approve command's copy of a journal entry
    channel,   \* external: the channels the node has
    moved,     \* external: listed channels whose local balance was paid away
    settled,   \* external: channels resolved into wallet outputs on the chain
    older,     \* channels that existed well before the order was created
    calls,     \* history: open_channel requests the node received
    taken,     \* history: orders the journal had a channel not theirs for
    crashes,   \* how often the process stopped
    setting    \* what the behaviour runs under; it never changes

vars == <<core, bound, journal, worker, approving, channel, moved, settled,
          older, calls, taken, crashes, setting>>
world == <<channel, moved, settled>>
others == <<approving, older, taken, crashes>>

Peer == setting.peer            \* the node at the other end of a channel
MaxTotal == setting.total       \* max_total_ckb of the local configuration
AutoApprove == setting.auto     \* auto_approve of the local configuration
Approvals == setting.approvals  \* the orders the operator approves by command
Reports == setting.reports      \* the orders whose merchant's connector reports
Outside == setting.outside      \* the foreign channels that get opened
Crashes == setting.crashes      \* bound: how often the process stops

Idle == [at |-> "idle", listed |-> [o \in Orders |-> "none"], todo |-> {},
         order |-> None, copy |-> NoJournal, found |-> None, known |-> {}]

----------------------------------------------------------------------------
(***************************************************************************)
(* What the node lists, and the local budget.                              *)
(***************************************************************************)
Listed == {c \in Channels : channel[c] \notin {"absent", "gone"}}
Id(c) == <<c, IF channel[c] = "temporary" THEN "temporary" ELSE "final">>
HasOutpoint(c) == channel[c] \in {"funded", "ready", "closing"}

Matches(j, c) == j.channel = Id(c) \/ (HasOutpoint(c) /\ j.outpoint = c)
Recovered(j, S) == j.outpoint \in S

\* What an answer about settlements may contain: settled channels that are
\* closing, or that the node has forgotten; an answer missing is "not settled".
Candidates ==
    {c \in Listed : channel[c] = "closing"} \cup
    {journal[o].outpoint : o \in {q \in Orders :
        /\ journal[q].attempted /\ journal[q].outpoint # None
        /\ \A c \in Listed : ~Matches(journal[q], c)}}

\* Mutant: once a channel is listed, only its balance now counts.
CountedBalance(c) == IF c \in moved THEN 0 ELSE Funding[c]

Counted(c) ==
    LET current == IF c \in moved THEN 0 ELSE Funding[c]
        committed == {journal[o].funding : o \in {q \in Orders :
                         journal[q].attempted /\ Matches(journal[q], c)}}
    IN  Max({current} \cup committed)

\* Channels the node lists and attempts it does not, unless settled.
Exposure(S) ==
    LET held == {c \in Listed : ~(HasOutpoint(c) /\ c \in S)}
        pending == {o \in Orders : /\ journal[o].attempted
                                   /\ ~Recovered(journal[o], S)
                                   /\ \A c \in Listed : ~Matches(journal[o], c)}
    IN  SumFunctionOnSet([c \in Channels |-> Counted(c)], held)
        + SumFunctionOnSet([o \in Orders |-> journal[o].funding], pending)

\* Mutant: an attempt the node lists no channel for is taken as failed.
OpeningListed(S) ==
    \E o \in Orders : \E c \in Listed :
        /\ journal[o].attempted /\ Matches(journal[o], c)
        /\ channel[c] \notin {"ready", "closing"}

OpeningInProgress(S) ==
    \E o \in Orders :
        /\ journal[o].attempted /\ ~Recovered(journal[o], S)
        /\ \A c \in Listed : /\ Matches(journal[o], c)
                             => channel[c] \notin {"ready", "closing"}

\* Mutant: channels that were there before the order are candidates too.
LocatedAnyAge(o, j) ==
    LET same == {c \in Listed : Peer[c] = Peer[o]}
        named == {c \in same : Id(c) = j.channel}
    IN  IF bound[o] # None THEN {c \in same : c = bound[o]}
        ELSE IF named # {} THEN named
        ELSE {c \in same : Id(c) \notin j.baseline}

\* The channels that may be the order's own, by the coordinator's record, by
\* the id in the journal, or as new ones with the right peer.
Located(o, j) ==
    LET same == {c \in Listed : Peer[c] = Peer[o]}
        named == {c \in same : Id(c) = j.channel}
    IN  IF bound[o] # None THEN {c \in same : c = bound[o]}
        ELSE IF named # {} THEN named
        ELSE {c \in same : Id(c) \notin j.baseline /\ c \notin older[o]}

----------------------------------------------------------------------------
(***************************************************************************)
(* The coordinator, as far as the connector sees it.                       *)
(***************************************************************************)
\* A merchant has one order in the way with this provider at a time.  A channel
\* opened in the last seconds before the order passes for a newer one.
Request(o) ==
    /\ core[o] = "none"
    /\ \A q \in Orders : Peer[q] = Peer[o] =>
          core[q] \in {"none", "paid", "released"}
    /\ core' = [core EXCEPT ![o] = "awaiting_quote"]
    /\ \E recent \in SUBSET {c \in Outside : channel[c] = "temporary"} :
          older' = [older EXCEPT ![o] =
                       {c \in Channels : channel[c] # "absent"} \ recent]
    /\ UNCHANGED <<bound, journal, worker, approving, world, calls, taken,
                   crashes>>

\* The merchant accepts; an order not yet claimed is cancelled or expires, one
\* claimed ends when the merchant reports its channel settled; the delivery is
\* verified; the fee is paid or waived.
CoreMove(o, from, to) ==
    /\ core[o] \in from
    /\ to = "delivered" => bound[o] # None /\ channel[bound[o]] = "ready"
    /\ to = "released" /\ core[o] = "opened" => bound[o] \in settled
    /\ core' = [core EXCEPT ![o] = to]
    /\ UNCHANGED <<bound, journal, worker, world, others, calls>>

\* Evidence for an order: a confirmed settlement before the delivery ends it.
\* A released order takes none, and no two orders have the same channel.
Evidence(o, c) ==
    /\ core[o] # "released" /\ bound[o] \in {None, c}
    /\ \A q \in Orders \ {o} : bound[q] # c
    /\ bound' = [bound EXCEPT ![o] = c]
    /\ \/ UNCHANGED core
       \/ /\ core[o] = "opened" /\ c \in settled
          /\ core' = [core EXCEPT ![o] = "released"]

\* The merchant's connector found a channel of its own node with the provider
\* that is not older than the order; its list may differ from the provider's.
MerchantReport(o) ==
    /\ core[o] \in {"opened", "delivered", "paid"}
    /\ \E c \in Channels : /\ HasOutpoint(c) /\ Peer[c] = Peer[o]
                           /\ c \notin older[o] /\ Evidence(o, c)
    /\ UNCHANGED <<journal, worker, world, others, calls>>

\* What the start request finds at the coordinator.
Claimable(o) == core[o] = "accepted"

\* Mutant: a failure gives the order a status nobody knows.
FailedUnknown(status) == IF status \in Unclaimed \cup {"opened"}
                         THEN "stuck" ELSE status

\* Mutant: a failure after the claim frees the reservation.
FailedFreed(status) == IF status \in Unclaimed \cup {"opened"}
                       THEN "released" ELSE status

\* Mutant: a failure after the claim lets the order be claimed again.
FailedRetried(status) == IF status = "opened" THEN "accepted" ELSE status

\* A failure that may have funded leaves the order to be reconciled.
Failed(status) == IF status \in Unclaimed \cup {"opened"}
                  THEN "opened" ELSE status

----------------------------------------------------------------------------
(***************************************************************************)
(* The worker's cycle: first the orders already claimed.                   *)
(***************************************************************************)
Wanted == {"awaiting_quote", "accepted"}
Tick ==
    /\ worker.at = "idle"
    /\ worker' = [Idle EXCEPT !.at = "observing",
                     !.listed = [o \in Orders |-> IF core[o] \in Wanted
                                                  THEN core[o] ELSE "none"],
                     !.todo = {o \in Orders : core[o] \in {"opened", "delivered",
                                                          "paid"}}]
    /\ UNCHANGED <<core, bound, journal, world, others, calls>>

\* Goes on to the next order, also after an error on this one.
Onward(at) == [worker EXCEPT !.at = at, !.todo = @ \ {worker.order},
                  !.order = None, !.copy = NoJournal, !.found = None,
                  !.known = {}]

\* Reads the journal and looks for the order's channel.
ObserveRead(o) ==
    LET L == Located(o, journal[o])
    IN  /\ worker.at = "observing" /\ o \in worker.todo
        /\ worker' =
              IF Cardinality(L) = 1 /\ \A c \in L : HasOutpoint(c)
              THEN [worker EXCEPT !.at = "located", !.order = o,
                       !.copy = journal[o], !.found = CHOOSE c \in L : TRUE]
              ELSE [worker EXCEPT !.todo = @ \ {o}]
        /\ UNCHANGED <<core, bound, journal, world, others, calls>>

\* Asks for the settlement meanwhile, then saves what it found.
ObserveSave ==
    LET c == worker.found
    IN  /\ worker.at = "located"
        /\ journal' = [journal EXCEPT ![worker.order] =
              [worker.copy EXCEPT !.channel = <<c, "final">>, !.outpoint = c]]
        /\ taken' = taken \cup ({worker.order} \ {c})
        /\ worker' = [worker EXCEPT !.at = "reporting"]
        /\ UNCHANGED <<core, bound, world, approving, older, crashes, calls>>

\* The signed evidence arrives; refused, it is an error of this order alone.
ObserveReport ==
    /\ worker.at = "reporting"
    /\ worker' = Onward("observing")
    /\ Evidence(worker.order, worker.found)
    /\ UNCHANGED <<journal, world, others, calls>>

\* The heartbeat, whose error ends the cycle, then the orders that may need a
\* quote or an opening.
Heartbeat ==
    /\ worker.at = "observing" /\ worker.todo = {}
    /\ \/ worker' = [worker EXCEPT !.at = "working",
                        !.todo = {o \in Orders : worker.listed[o] \in Wanted}]
       \/ worker' = Idle
    /\ UNCHANGED <<core, bound, journal, world, others, calls>>

SendQuote(o) ==
    /\ worker.at = "working" /\ o \in worker.todo
    /\ worker.listed[o] = "awaiting_quote"
    /\ worker' = [worker EXCEPT !.todo = @ \ {o}]
    /\ core' = IF core[o] \in {"awaiting_quote", "quoted"}
               THEN [core EXCEPT ![o] = "quoted"] ELSE core
    /\ UNCHANGED <<bound, journal, world, others, calls>>

\* Reads the order's own journal entry, then awaits the checks of its quote.
OpenRead(o) ==
    /\ worker.at = "working" /\ o \in worker.todo
    /\ worker.listed[o] = "accepted"
    /\ worker' = IF (AutoApprove \/ journal[o].approved) /\ ~journal[o].attempted
                 THEN [worker EXCEPT !.at = "read", !.order = o,
                          !.copy = journal[o]]
                 ELSE [worker EXCEPT !.todo = @ \ {o}]
    /\ UNCHANGED <<core, bound, journal, world, others, calls>>

\* The node's channels and every journal, before the claim.
OpenCheck ==
    /\ worker.at = "read"
    /\ \E S \in SUBSET (Candidates \cap settled) :
          worker' = IF /\ ~OpeningInProgress(S)
                       /\ Exposure(S) + Funding[worker.order] <= MaxTotal
                    THEN [worker EXCEPT !.at = "checked",
                             !.known = {Id(c) : c \in Listed}]
                    ELSE Onward("working")
    /\ UNCHANGED <<core, bound, journal, world, others, calls>>

\* The claim commits at the coordinator, or is refused.
OpenClaim ==
    LET o == worker.order
    IN  /\ worker.at = "checked"
        /\ IF Claimable(o)
           THEN /\ core' = [core EXCEPT ![o] = "opened"]
                /\ worker' = [worker EXCEPT !.at = "claimed"]
           ELSE UNCHANGED core /\ worker' = Onward("working")
        /\ UNCHANGED <<bound, journal, world, others, calls>>

\* The attempt is durable before the node is asked.
OpenSave ==
    LET o == worker.order
        attempt == [worker.copy EXCEPT !.attempted = TRUE,
                       !.funding = Funding[o], !.baseline = worker.known]
    IN  /\ worker.at = "claimed"
        /\ journal' = [journal EXCEPT ![o] = attempt]
        /\ worker' = [worker EXCEPT !.at = "saved", !.copy = attempt]
        /\ UNCHANGED <<core, bound, world, others, calls>>

\* The node starts the negotiation and answers with a temporary id, or answers
\* with an error, or starts it and the answer is lost.
OpenCall ==
    LET o == worker.order
    IN  /\ worker.at = "saved"
        /\ calls' = [calls EXCEPT ![o] = @ + 1]
        /\ \/ /\ channel' = [channel EXCEPT ![o] = "temporary"]
              /\ worker' = [worker EXCEPT !.at = "answered",
                               !.copy.channel = <<o, "temporary">>]
           \/ /\ channel' \in {channel, [channel EXCEPT ![o] = "temporary"]}
              /\ worker' = [worker EXCEPT !.at = "refused"]
        /\ UNCHANGED <<core, bound, journal, moved, settled, others>>

\* The answer is journaled; an error is also reported to the coordinator.
OpenResult ==
    /\ worker.at \in {"answered", "refused"}
    /\ journal' = [journal EXCEPT ![worker.order] = worker.copy]
    /\ worker' = IF worker.at = "answered" THEN Onward("working")
                 ELSE [worker EXCEPT !.at = "failing"]
    /\ UNCHANGED <<core, bound, world, others, calls>>

OpenFailure ==
    LET o == worker.order
    IN  /\ worker.at = "failing"
        /\ core' = [core EXCEPT ![o] = Failed(@)]
        /\ worker' = Onward("working")
        /\ UNCHANGED <<bound, journal, world, others, calls>>

\* A request of the worker fails or its answer is lost, or the journal cannot
\* be written: the cycle goes on with the next order.
GiveUp ==
    /\ \/ worker.at \in {"located", "reporting"} /\ worker' = Onward("observing")
       \/ /\ worker.at \in {"read", "checked", "claimed", "answered", "refused",
                            "failing"}
          /\ worker' = Onward("working")
    /\ UNCHANGED <<core, bound, journal, world, others, calls>>

\* Every order was looked at, or the cycle ended early.
Rest ==
    /\ worker.at = "working" /\ worker.todo = {}
    /\ worker' = Idle
    /\ UNCHANGED <<core, bound, journal, world, others, calls>>

Crash ==
    /\ worker.at # "idle" /\ crashes < Crashes
    /\ worker' = Idle /\ crashes' = crashes + 1
    /\ UNCHANGED <<core, bound, journal, approving, world, older, calls, taken>>

----------------------------------------------------------------------------
(***************************************************************************)
(* The approve command: another process, without the worker's locks.       *)
(***************************************************************************)
ApproveRead(o) ==
    /\ approving = None /\ core[o] # "none" /\ ~journal[o].approved
    /\ approving' = [order |-> o, copy |-> journal[o]]
    /\ UNCHANGED <<core, bound, journal, worker, world, older, calls, taken,
                   crashes>>

ApproveSave ==
    /\ approving # None
    /\ journal' = [journal EXCEPT ![approving.order] =
                      [approving.copy EXCEPT !.approved = TRUE]]
    /\ approving' = None
    /\ UNCHANGED <<core, bound, worker, world, older, calls, taken, crashes>>

----------------------------------------------------------------------------
(***************************************************************************)
(* External: the Fiber node and the chain.                                 *)
(***************************************************************************)
\* "funded": negotiated; "gone" before it: refused by the peer.
ChannelStep(c) ==
    /\ \/ /\ channel[c] = "temporary"
          /\ channel' \in {[channel EXCEPT ![c] = s] : s \in {"funded", "gone"}}
       \/ channel[c] = "funded" /\ channel' = [channel EXCEPT ![c] = "ready"]
       \/ channel[c] = "ready" /\ channel' = [channel EXCEPT ![c] = "closing"]
       \/ channel[c] = "closing" /\ channel' = [channel EXCEPT ![c] = "gone"]
    /\ moved' = IF channel'[c] = "gone" THEN moved \ {c} ELSE moved
    /\ UNCHANGED <<core, bound, journal, worker, settled, others, calls>>

\* A channel of the node that LiquidLane did not ask for.
OpenOutside(c) ==
    /\ channel[c] = "absent" /\ channel' = [channel EXCEPT ![c] = "temporary"]
    /\ UNCHANGED <<core, bound, journal, worker, moved, settled, others, calls>>

PayAway(c) ==
    /\ channel[c] = "ready" /\ Funding[c] > 0 /\ moved' = moved \cup {c}
    /\ UNCHANGED <<core, bound, journal, worker, channel, settled, others, calls>>

SettleOnChain(c) ==
    /\ channel[c] = "closing" /\ settled' = settled \cup {c}
    /\ UNCHANGED <<core, bound, journal, worker, channel, moved, others, calls>>

----------------------------------------------------------------------------
Init ==
    /\ core = [o \in Orders |-> "none"] /\ bound = [o \in Orders |-> None]
    /\ journal = [o \in Orders |-> NoJournal]
    /\ worker = Idle /\ approving = None
    /\ channel = [c \in Channels |-> "absent"] /\ moved = {} /\ settled = {}
    /\ older = [o \in Orders |-> {}] /\ calls = [o \in Orders |-> 0]
    /\ taken = {} /\ crashes = 0 /\ setting \in Settings

CoreStep(o) ==
    \/ Request(o)
    \/ CoreMove(o, {"quoted"}, "accepted")
    \/ CoreMove(o, Unclaimed \cup {"opened"}, "released")
    \/ CoreMove(o, {"opened"}, "delivered")
    \/ CoreMove(o, {"delivered"}, "paid")
    \/ o \in Reports /\ MerchantReport(o)

WorkerStep ==
    \/ Tick \/ Heartbeat \/ Rest \/ GiveUp
    \/ \E o \in Orders : ObserveRead(o) \/ SendQuote(o) \/ OpenRead(o)
    \/ ObserveSave \/ ObserveReport
    \/ OpenCheck \/ OpenClaim \/ OpenSave \/ OpenCall
    \/ OpenResult \/ OpenFailure

NodeStep ==
    \/ \E c \in Channels : ChannelStep(c) \/ PayAway(c) \/ SettleOnChain(c)
    \/ \E c \in Outside : OpenOutside(c)

ApproveStep == (\E o \in Approvals : ApproveRead(o)) \/ ApproveSave

Next ==
    /\ \/ \E o \in Orders : CoreStep(o)
       \/ WorkerStep \/ Crash
       \/ ApproveStep
       \/ NodeStep
    /\ UNCHANGED setting

Spec == Init /\ [][Next]_vars

----------------------------------------------------------------------------
(***************************************************************************)
(* Properties.                                                             *)
(***************************************************************************)
\* The journal, the worker's copy of it and the coordinator's records have
\* their shapes.
TypeOK ==
    /\ core \in [Orders -> CoreStates]
    /\ bound \in [Orders -> Channels \cup {None}]
    /\ journal \in [Orders -> Journals]
    /\ worker.copy \in Journals /\ worker.todo \subseteq Orders
    /\ worker.order \in Orders \cup {None}
    /\ worker.found \in Channels \cup {None}
    /\ channel \in [Channels -> ChannelStates]
    /\ moved \subseteq Channels /\ settled \subseteq Channels
    /\ calls \in [Orders -> Nat] /\ taken \subseteq Orders

\* The node is asked for an order's channel at most once, and only for an order
\* the coordinator has claimed: never for one that was cancelled or expired
\* while the worker was checking its budget, whatever crashes and lost answers.
OpenedOnce ==
    \A o \in Orders : /\ calls[o] <= 1
                      /\ calls[o] = 1 => core[o] \notin {"none"} \cup Unclaimed
                      /\ channel[o] # "absent" => calls[o] = 1

\* Channels no order has on record as its own, once a foreign one was opened:
\* the foreign ones, and that of an order which has another's on record.
Stray == {c \in Channels : /\ \E f \in Foreign : channel[f] # "absent"
                           /\ c \in Orders => bound[c] \notin {None, c}}

\* The channels that may pass for an order's: its own, or a stray one with its
\* merchant that is not older than the order.
Passable(o) == {o} \cup {c \in Stray : Peer[c] = Peer[o] /\ c \notin older[o]}

\* The channel the journal and the coordinator have for an order is its own,
\* though ids change and answers get lost; never one of another merchant, never
\* one of before the order, and only when channels were opened outside
\* LiquidLane one that was opened for no order, or for one that was itself
\* given a channel not its own.
OwnChannel ==
    \A o \in Orders : {journal[o].outpoint, bound[o]} \subseteq {None} \cup Passable(o)

\* An opening whose outcome is unknown keeps the coordinator's reservation: the
\* order is released only when the funding of its channel, or of the stray one
\* that passes for it, is settled on the chain.
UncertainStaysReserved ==
    \A o \in Orders : calls[o] > 0 /\ core[o] = "released" =>
        bound[o] \in settled \cap Passable(o)

\* The funding of all openings asked for and not yet settled fits the local
\* limit, though answers get lost, ids change, payments move the balances and
\* the node may forget its closed channels; as long as the worker alone writes
\* the journal, and apart from orders it took another channel for.
BudgetHolds ==
    Approvals = {} =>
        SumFunctionOnSet(Funding,
                         {o \in Orders \ taken : calls[o] > 0 /\ o \notin settled})
            <= MaxTotal

\* An opening whose channel is not known to be usable, or closed again.
Unresolved(o) ==
    calls[o] > 0 /\ channel[o] \in {"absent", "temporary", "funded"}

\* While an opening is unresolved the node is asked for no other, as the
\* operator's guide says of every attempt the journal holds; apart from orders
\* the journal took another channel for.
OneUnresolved ==
    \A o, q \in Orders \ taken : Unresolved(o) /\ Unresolved(q) => o = q

\* So it is as long as the worker alone writes the journal.
OneUnresolvedAlone == Approvals = {} => OneUnresolved
=============================================================================
