---------------------------- MODULE VaultExecutor ----------------------------
(***************************************************************************)
(* The executor: it hands a capacity request over to the Fiber node, which *)
(* opens a channel to the merchant and calls back for the transaction that *)
(* funds it from the vault; it watches the channels, retries, and releases *)
(* what expired.  The worker's ticks, the requests of merchants and of the *)
(* operator, the builder's calls and the answers of Fiber interleave with  *)
(* each other and with the handlers of VaultLedger.                        *)
(*                                                                         *)
(* A setting is [rpc, fiber, vaultMode, builder]: a CKB node, a Fiber node,*)
(* funding from the vault rather than from the Fiber node's own wallet,    *)
(* and a funding builder that is ready.  Times are not modelled: a timeout *)
(* or an expiry may have passed or not whenever it is looked at.           *)
(***************************************************************************)
EXTENDS VaultLedger, SequencesExt

CONSTANTS
    MaxRetries  \* attempts after which a failed job is final

VARIABLES
    handoffs,  \* unfinished handoffs [id, executor, stage, channel]
    building,  \* unfinished builder calls [id, channel]
    fiber      \* Seq of the Fiber node's channels [amount, tx, state]

executorVars == <<handoffs, building, fiber>>
vars == <<chainVars, ledgerVars, executorVars>>

Entry(l, r) == l.requests[First(l.requests, r)]
InFlight == {"FundingRequired", "FundingSubmitted", "PendingFiberChannel"}

\* Every update of a request goes to the first entry of its id.
SetRequest(l, r, entry) ==
    [l EXCEPT !.requests[First(l.requests, r)] = entry]
SetReservation(l, r, status) ==
    IF Indices(l.reservations, r) = {} THEN l
    ELSE [l EXCEPT !.reservations[First(l.reservations, r)].status = status]
SetJob(l, r, status, error) ==
    IF l.jobs[r] = None THEN l
    ELSE [l EXCEPT !.jobs[r].status = status, !.jobs[r].error = error]
SetJobStatus(l, r, status) ==
    IF l.jobs[r] = None THEN l ELSE [l EXCEPT !.jobs[r].status = status]

EnsureJob(l, r) ==
    IF l.jobs[r] # None THEN l
    ELSE [l EXCEPT !.jobs[r] =
             [status |-> "Queued", attempts |-> 0, error |-> "none"]]
MarkJob(l, r, status, error) ==
    IF l.jobs[r] = None THEN l
    ELSE LET tried == IF status = "Preparing" THEN 1 ELSE 0
         IN  [l EXCEPT !.jobs[r] =
                [attempts |-> @.attempts + tried, error |-> error,
                 status |-> IF /\ status = "RetryableFailed"
                               /\ @.attempts >= MaxRetries
                            THEN "TerminalFailed" ELSE status]]

----------------------------------------------------------------------------
(***************************************************************************)
(* The reservation and the positions after a request's status changed.     *)
(* Shortages are only logged: what was moved stays moved.                  *)
(***************************************************************************)
\* Mutant: an open channel does not mark its reservation.
UpdateReservationIdle(l, r) == l
UpdateReservation(l, r) ==
    IF Indices(l.reservations, r) = {} THEN l
    ELSE LET entry == Entry(l, r)
             was == l.reservations[First(l.reservations, r)].status
         IN  CASE entry.status \in InFlight ->
                    IF was = "Failed" THEN SetReservation(l, r, "Reserved") ELSE l
               [] entry.status = "ChannelOpen" ->
                    SetReservation(
                        IF was = "Deployed" THEN l
                        ELSE [l EXCEPT !.positions =
                                 DeployPositions(@, entry.amount)],
                        r, "Deployed")
               [] entry.status = "Failed" ->
                    IF was = "Deployed"
                    THEN SetReservation(
                             [l EXCEPT !.positions =
                                 UndeployPositions(@, entry.amount)],
                             r, "Reserved")
                    ELSE IF was = "Released"
                         THEN SetReservation(l, r, "Failed") ELSE l
               [] entry.status \in {"Expired", "Released", "Settled"} ->
                    SetReservation(l, r, "Released")
               [] OTHER -> l

----------------------------------------------------------------------------
(***************************************************************************)
(* The handoff.                                                            *)
(***************************************************************************)
Handoff(r, executor, stage, channel) ==
    [id |-> r, executor |-> executor, stage |-> stage, channel |-> channel]
StartHandoff(r, executor) ==
    /\ Cardinality(handoffs) < bound.handoffs
    /\ handoffs' = handoffs \cup {Handoff(r, executor, "read", None)}
Becomes(x, stage, channel) ==
    handoffs' = (handoffs \ {x}) \cup {[x EXCEPT !.stage = stage,
                                                 !.channel = channel]}
Done(x) == handoffs' = handoffs \ {x}

\* A merchant or the operator asks for the channel.
DeployLiquidity(r) ==
    /\ Known(r)
    /\ StartHandoff(r, FALSE)
    /\ UNCHANGED <<ledger, disk, contexts, building, fiber>>

AttachFiberPeer(r) ==
    /\ Known(r)
    /\ Save(SetRequest(ledger, r, [Entry(ledger, r) EXCEPT !.peer = TRUE]))
    /\ StartHandoff(r, TRUE)
    /\ UNCHANGED <<contexts, building, fiber>>

\* It goes straight to the handoff: no job is made for the request.
RetryExternalFunding(r) ==
    /\ Known(r)
    /\ Entry(ledger, r).status \notin {"ChannelOpen", "Released", "Expired"}
    /\ Cardinality(handoffs) < bound.handoffs
    /\ handoffs' = handoffs \cup {Handoff(r, TRUE, "retry", None)}
    /\ UNCHANGED <<ledger, disk, contexts, building, fiber>>

RetryJob(r) ==
    /\ ledger.jobs[r] # None /\ ledger.jobs[r].status # "TerminalFailed"
    /\ Known(r)
    /\ Save(MarkJob(ledger, r, "Queued", "none"))
    /\ StartHandoff(r, TRUE)
    /\ UNCHANGED <<contexts, building, fiber>>

\* The worker's retry, of the failures that time may have cured.
RetryFailedJob(r) ==
    /\ ledger.jobs[r] # None
    /\ ledger.jobs[r].status \in {"RetryableFailed", "AwaitingVaultFunding"}
    /\ ledger.jobs[r].attempts <= MaxRetries
    /\ ledger.jobs[r].error = "timeout"
    /\ RetryJob(r)

\* What a handoff finds before it calls Fiber; only the executor's leaves a
\* mark on the job.
HandoffRead(x) ==
    LET r == x.id
        l == IF x.executor /\ x.stage = "read" THEN EnsureJob(ledger, r)
             ELSE ledger
        marked(status, error) ==
            IF x.executor THEN Save(MarkJob(l, r, status, error))
            ELSE UNCHANGED <<ledger, disk>>
        entry == Entry(ledger, r)
    IN  /\ x.stage \in {"read", "retry"}
        /\ \/ /\ entry.status \in {"PendingFiberChannel", "ChannelOpen"}
              /\ SaveIfChanged(l) /\ Done(x)
           \/ /\ entry.status \notin {"PendingFiberChannel", "ChannelOpen"}
              /\ entry.hash = None \/ ~entry.peer
              /\ marked("Queued", "none") /\ Done(x)
           \/ /\ entry.status \notin {"PendingFiberChannel", "ChannelOpen"}
              /\ entry.hash # None /\ entry.peer /\ ~config.fiber
              /\ marked("RetryableFailed", "other") /\ Done(x)
           \/ /\ entry.status \notin {"PendingFiberChannel", "ChannelOpen"}
              /\ entry.hash # None /\ entry.peer /\ config.fiber
              /\ x.executor /\ l.jobs[r] # None =>
                    l.jobs[r].attempts < bound.attempts
              /\ marked("Preparing", "none")
              /\ Becomes(x, IF config.vaultMode THEN "prepare" ELSE "open", None)
        /\ UNCHANGED <<contexts, building, fiber>>

\* A funding intent; its hash and its out point are those of one transaction
\* unless the operator named two.
FundingIntent(status, tx, point) ==
    [status |-> status, tx |-> tx, point |-> point]

\* The funding intent starts over, and the request waits for funding, whatever
\* happened to it since it was read.
Prepared(l, r) ==
    [SetRequest(l, r, [Entry(l, r) EXCEPT !.status = "FundingRequired",
                                          !.temporary = None])
       EXCEPT !.funding[r] = FundingIntent("BuilderRequired", None, None)]
HandoffPrepare(x) ==
    /\ x.stage = "prepare"
    /\ IF config.builder
       THEN Save(Prepared(ledger, x.id)) /\ Becomes(x, "open", None)
       ELSE /\ Save(IF x.executor
                    THEN MarkJob(Prepared(ledger, x.id), x.id,
                                 "AwaitingVaultFunding", "other")
                    ELSE Prepared(ledger, x.id))
            /\ Done(x)
    /\ UNCHANGED <<contexts, building, fiber>>

FundingBuilt(r) ==
    /\ ledger.funding[r] # None
    /\ ledger.funding[r].tx # None \/ ledger.funding[r].point # None

\* ref says which identifiers Fiber's answer carries.
Answered(x, ref) ==
    [Entry(ledger, x.id) EXCEPT
        !.temporary = IF ref = "channel" THEN None ELSE x.channel,
        !.channel = IF ref = "temporary" THEN None ELSE x.channel,
        !.status = IF config.vaultMode
                   THEN IF FundingBuilt(x.id) THEN "FundingSubmitted"
                        ELSE "FundingRequired"
                   ELSE IF ref = "temporary" THEN "PendingFiberChannel"
                        ELSE "ChannelOpen"]
FundingAfter(l, r) ==
    IF ~config.vaultMode \/ l.funding[r] = None THEN l
    ELSE [l EXCEPT !.funding[r].status =
            CASE Entry(l, r).status = "Failed" -> "Failed"
              [] Entry(l, r).status = "FundingSubmitted" -> "FundingSubmitted"
              [] OTHER -> "BuilderRequired"]
JobAfter(r, status) ==
    IF config.vaultMode
    THEN IF FundingBuilt(r) THEN "AwaitingFundingConfirmation"
         ELSE "AwaitingVaultFunding"
    ELSE IF status = "ChannelOpen" THEN "ChannelActive"
         ELSE "AwaitingFundingConfirmation"

AfterAnswer(x, entry, status, error) ==
    LET r == x.id
        set == FundingAfter(SetRequest(ledger, r, entry), r)
        settled == UpdateReservation(set, r)
    IN  Save(IF x.executor THEN MarkJob(settled, r, status, error) ELSE settled)

HandoffAnswer(x, ref) ==
    /\ x.stage = "open" /\ x.channel # None
    /\ LET entry == Answered(x, ref)
       IN  AfterAnswer(x, entry, JobAfter(x.id, entry.status), "none")
    /\ Done(x)
    /\ UNCHANGED <<contexts, building, fiber>>

\* Fiber refused, or opened the channel and its answer was lost.
HandoffError(x, error) ==
    /\ x.stage = "open"
    /\ error \in {"other", "timeout"}
    /\ AfterAnswer(x, [Entry(ledger, x.id) EXCEPT !.status = "Failed"],
                   "RetryableFailed", error)
    /\ Done(x)
    /\ UNCHANGED <<contexts, building, fiber>>

----------------------------------------------------------------------------
(***************************************************************************)
(* The Fiber node (its handling of the calls), and its calls back.         *)
(***************************************************************************)
FiberOpen(x) ==
    /\ x.stage = "open" /\ x.channel = None
    /\ Len(fiber) < bound.channels
    /\ fiber' = Append(fiber, [amount |-> Entry(ledger, x.id).amount,
                               tx |-> None, state |-> "negotiating"])
    /\ Becomes(x, "open", Len(fiber) + 1)
    /\ UNCHANGED <<ledger, disk, contexts, building>>

\* The builder knows the channel's amount only.  Fiber calls it once for a
\* channel and waits for the answer.
FundableRequest(e, amount) ==
    /\ e.amount = amount /\ e.cell # None /\ e.peer
    /\ e.status \in InFlight
    /\ ~FundingBuilt(e.id)
BuilderMatch(n, i) ==
    /\ config.vaultMode /\ config.builder
    /\ fiber[n].state = "negotiating" /\ fiber[n].tx = None
    /\ \A b \in building : b.channel # n
    /\ FundableRequest(ledger.requests[i], fiber[n].amount)
    /\ building' = building \cup
                     {[id |-> ledger.requests[i].id, channel |-> n]}
    /\ UNCHANGED <<ledger, disk, contexts, handoffs, fiber>>

BuilderMark(b) ==
    /\ config.rpc => Fundable(b.id) /\ Accepted(FundTx(b.id))
    /\ LET h == <<"fund", b.id>>
           entry == [Entry(ledger, b.id) EXCEPT !.status = "FundingSubmitted"]
           set == SetRequest(ledger, b.id, entry)
       IN  /\ Save(IF set.funding[b.id] = None THEN set
                   ELSE [set EXCEPT !.funding[b.id] =
                            FundingIntent("FundingSubmitted", h, h)])
           /\ fiber' = [fiber EXCEPT ![b.channel].tx = h]
    /\ building' = building \ {b}
    /\ UNCHANGED <<contexts, handoffs>>

\* The transaction could not be built: Fiber learns of it and gives up.
BuilderFail(b) ==
    /\ building' = building \ {b}
    /\ fiber' = [fiber EXCEPT ![b.channel].state = "failed"]
    /\ UNCHANGED <<ledger, disk, contexts, handoffs>>

FiberFund(n) ==
    /\ config.rpc
    /\ fiber[n].state \in {"negotiating", "usable"} /\ fiber[n].tx # None
    /\ \E r \in Requests : fiber[n].tx = <<"fund", r>> /\ MineFund(r)

\* The funding is signed.  From now on the channel is AwaitingChannelReady, and
\* ChannelReady once the chain shows the funding: both count as usable.
FiberSign(n) ==
    /\ fiber[n].state = "negotiating"
    /\ config.vaultMode => fiber[n].tx # None
    /\ fiber' = [fiber EXCEPT ![n].state = "usable"]
\* The channel fails in the negotiation, or its signed funding never confirms.
FiberAbort(n) ==
    /\ \/ /\ fiber[n].state = "negotiating"
          /\ fiber' = [fiber EXCEPT ![n].state = "failed"]
       \/ /\ fiber[n].state = "usable"
          /\ config.rpc => fiber[n].tx \notin DOMAIN mined
          /\ fiber' = [fiber EXCEPT ![n].state = "lost"]
FiberClose(n) ==
    /\ fiber[n].state = "usable"
    /\ config.rpc => fiber[n].tx \in DOMAIN mined
    /\ fiber' = [fiber EXCEPT ![n].state = "closed"]

----------------------------------------------------------------------------
(***************************************************************************)
(* The watcher of the channels: one pass over all requests.                *)
(***************************************************************************)
Spends(h, point) ==
    /\ config.rpc /\ h \in DOMAIN mined
    /\ \E c \in mined[h].in : c.kind = "request" /\ c.point = point
Matches(l, e, n) ==
    \/ e.cell # None /\ Spends(fiber[n].tx, e.cell)
    \/ /\ l.funding[e.id] # None /\ fiber[n].tx # None
       /\ fiber[n].tx \in {l.funding[e.id].tx, l.funding[e.id].point}
    \/ n \in {e.channel, e.temporary}
\* Mutant: a channel that is being negotiated counts as open.
UsableEager == {"negotiating", "usable"}
Usable == {"usable"}
Lost == {"failed", "lost"}
Matching(l, e, states) ==
    {n \in DOMAIN fiber : fiber[n].state \in states /\ Matches(l, e, n)}

\* late holds the requests whose two minutes are over.
TimedOut(l, e, late) ==
    LET intent == l.funding[e.id]
    IN  /\ e.id \in late
        /\ \/ /\ e.status = "FundingRequired"
              /\ intent # None => /\ intent.status = "BuilderRequired"
                                  /\ intent.tx = None /\ intent.point = None
           \/ /\ e.status \in {"FundingSubmitted", "PendingFiberChannel"}
              /\ \/ \E n \in Matching(l, e, {"negotiating"}) :
                       fiber[n].tx = None
                 \/ /\ intent # None /\ intent.status = "FundingSubmitted"
                    /\ intent.tx = None

Fate(l, e, late) ==
    IF e.status = "ChannelOpen" /\ Matching(l, e, {"closed"}) # {}
    THEN "settled"
    ELSE IF /\ e.status \in {"FundingSubmitted", "PendingFiberChannel",
                             "Failed"}
            /\ Matching(l, e, Usable) # {}
         THEN "opened"
    ELSE IF \/ /\ e.status \in {"FundingSubmitted", "PendingFiberChannel",
                                "ChannelOpen"}
               /\ Matching(l, e, Lost) # {}
            \/ TimedOut(l, e, late)
         THEN "failed"
    ELSE "none"

Least1(S) == CHOOSE x \in S : \A y \in S : x <= y
WithChannel(l, e, states, status) ==
    LET n == Least1(Matching(l, e, states))
    IN  [e EXCEPT !.status = status, !.channel = n,
                  !.funding = IF fiber[n].tx # None THEN fiber[n].tx ELSE @]
\* Fiber shows another funding transaction for the open channel.
Refreshed(l, e, late) ==
    /\ e.status = "ChannelOpen" /\ Fate(l, e, late) # "settled"
    /\ Matching(l, e, Usable) # {}
    /\ WithChannel(l, e, Usable, e.status).funding # e.funding
Watched(l, e, late) ==
    LET fate == Fate(l, e, late)
        seen == IF Refreshed(l, e, late)
                THEN [WithChannel(l, e, Usable, e.status)
                        EXCEPT !.channel = e.channel]
                ELSE e
    IN  CASE fate = "settled" -> WithChannel(l, e, {"closed"}, "Settled")
          [] fate = "opened" -> WithChannel(l, e, Usable, "ChannelOpen")
          [] fate = "failed" -> [seen EXCEPT !.status = "Failed"]
          [] OTHER -> seen

ActiveIntent(l, e) ==
    IF l.funding[e.id] = None THEN l
    ELSE [l EXCEPT !.funding[e.id] =
             FundingIntent("ChannelActive", e.funding, e.funding)]
Opened(l, e) ==
    ActiveIntent(SetJob(UpdateReservation(l, e.id), e.id, "ChannelActive",
                        "none"), e)
Settled(l, e) ==
    SetJob(SetReservation([l EXCEPT !.positions = SettlePositions(@, e.amount)],
                          e.id, "Released"),
           e.id, "ChannelSettled", "none")
Failed(l, e, error) ==
    LET marked == SetJob(UpdateReservation(l, e.id), e.id, "RetryableFailed",
                         error)
    IN  IF marked.funding[e.id] = None THEN marked
        ELSE [marked EXCEPT !.funding[e.id].status = "Failed"]

\* All requests change first; then what opened, was refreshed, settled and
\* failed takes effect, in this order.
AfterWatch(l, late) ==
    LET fate(i) == Fate(l, l.requests[i], late)
        changed == [l EXCEPT !.requests =
                       [i \in DOMAIN l.requests |->
                           Watched(l, l.requests[i], late)]]
        effects(i) == {fate(i)}
            \cup IF Refreshed(l, l.requests[i], late) THEN {"refreshed"} ELSE {}
        Effect(kind, m, i) ==
            LET e == changed.requests[i]
                error == IF l.requests[i].status = "FundingRequired"
                         THEN "timeout" ELSE "other"
            IN  IF kind \notin effects(i) THEN m
                ELSE CASE kind = "opened" -> Opened(m, e)
                       [] kind = "refreshed" -> ActiveIntent(m, e)
                       [] kind = "settled" -> Settled(m, e)
                       [] OTHER -> Failed(m, e, error)
        Pass(kind, m) ==
            FoldLeftDomain(LAMBDA k, i : Effect(kind, k, i), m, l.requests)
    IN  Pass("failed", Pass("settled", Pass("refreshed",
                                            Pass("opened", changed))))

SyncFiberChannels(late) ==
    /\ config.fiber
    /\ SaveIfChanged(AfterWatch(ledger, late))
    /\ UNCHANGED <<contexts, handoffs, building, fiber>>

----------------------------------------------------------------------------
(***************************************************************************)
(* The operator's repairs and the worker's expiry.  A request is marked    *)
(* released before its amount is: if the positions fall short the handler  *)
(* fails with the mark in memory.                                          *)
(***************************************************************************)
Releasable == {"Requested", "FundingRequired", "FundingSubmitted",
               "PendingFiberChannel", "Failed", "Expired"}
ReleaseLiquidity(r) ==
    LET entry == Entry(ledger, r)
        set == SetRequest(ledger, r, [entry EXCEPT !.status = "Released"])
        moved == [set EXCEPT !.positions = ReleasePositions(@, entry.amount)]
    IN  /\ Known(r) /\ entry.status \in Releasable
        /\ IF Covered(ledger.positions, "reserved", entry.amount)
           THEN Save(SetJobStatus(SetReservation(moved, r, "Released"), r,
                                  "Released"))
           ELSE ledger' = moved /\ UNCHANGED disk
        /\ UNCHANGED <<contexts, handoffs, building, fiber>>

\* The operator may name another channel than the request has.
SettleLiquidity(r, named) ==
    LET entry == Entry(ledger, r)
        set == SetRequest(ledger, r,
                  [entry EXCEPT !.status = "Settled",
                                !.channel = IF named = None THEN @ ELSE named])
        moved == [set EXCEPT !.positions = SettlePositions(@, entry.amount)]
    IN  /\ Known(r) /\ entry.status = "ChannelOpen"
        /\ IF Covered(ledger.positions, "deployed", entry.amount)
           THEN Save(SetJobStatus(SetReservation(moved, r, "Released"), r,
                                  "ChannelSettled"))
           ELSE ledger' = moved /\ UNCHANGED disk
        /\ UNCHANGED <<contexts, handoffs, building, fiber>>

\* expired: the requests whose days are over.  The first shortage ends the loop.
ReleaseExpired(expired) ==
    LET due == {i \in DOMAIN ledger.requests :
                   /\ ledger.requests[i].id \in expired
                   /\ ledger.requests[i].status
                        \in {"Requested", "FundingRequired", "Failed"}}
        marked == [ledger EXCEPT !.requests =
                      [i \in DOMAIN ledger.requests |->
                          IF i \in due
                          THEN [ledger.requests[i] EXCEPT !.status = "Released"]
                          ELSE ledger.requests[i]]]
        Step(acc, i) ==
            LET entry == ledger.requests[i]
                moved == [acc.l EXCEPT !.positions =
                             ReleasePositions(@, entry.amount)]
            IN  IF i \notin due \/ ~acc.ok THEN acc
                ELSE IF Covered(acc.l.positions, "reserved", entry.amount)
                THEN [ok |-> TRUE,
                      l |-> SetReservation(moved, entry.id, "Released")]
                ELSE [ok |-> FALSE, l |-> moved]
        end == FoldLeftDomain(Step, [ok |-> TRUE, l |-> marked],
                              ledger.requests)
    IN  /\ due # {}
        /\ IF end.ok THEN Save(end.l) ELSE ledger' = end.l /\ UNCHANGED disk
        /\ UNCHANGED <<contexts, handoffs, building, fiber>>

----------------------------------------------------------------------------
(***************************************************************************)
(* A funding transaction shown by the operator, and request cells found on *)
(* the chain.                                                              *)
(***************************************************************************)
SubmitExternalFunding(r) ==
    /\ Known(r)
    /\ Entry(ledger, r).status = "FundingRequired"
    /\ Entry(ledger, r).hash # None /\ Entry(ledger, r).peer
    /\ config.rpc /\ config.fiber /\ config.vaultMode /\ config.builder
    /\ Cardinality(handoffs) < bound.handoffs
    /\ handoffs' = handoffs \cup {Handoff(r, TRUE, "submit", None)}
    /\ UNCHANGED <<ledger, disk, contexts, building, fiber>>

\* The out points that the channels of the requests may have.
FundPoints ==
    {<<"fund", ledger.requests[i].id>> : i \in DOMAIN ledger.requests}

\* Any committed transaction will do and any out point with it, and the request
\* is not looked at again once the transaction is verified.
MarkFundingSubmitted(x, h, point) ==
    /\ x.stage = "submit"
    /\ h \in DOMAIN mined
    /\ LET entry == [Entry(ledger, x.id) EXCEPT !.status = "FundingSubmitted",
                                                !.temporary = None]
           set == [SetRequest(ledger, x.id, entry)
                     EXCEPT !.funding[x.id] =
                               FundingIntent("FundingSubmitted", h, point)]
       IN  Save(UpdateReservation(set, x.id))
    /\ Done(x)
    /\ UNCHANGED <<contexts, building, fiber>>

StatusFromChain(status) ==
    IF status = "deployed" THEN "PendingFiberChannel" ELSE "Requested"
MergedStatus(local, found) == IF found = "Requested" THEN local ELSE found
ReservationStatus(status) ==
    CASE status = "ChannelOpen" -> "Deployed"
      [] status \in {"Expired", "Released", "Settled"} -> "Released"
      [] OTHER -> "Reserved"

UpsertRequest(r, l) ==
    LET cell == request[r]
        found == StatusFromChain(cell.data.status)
        same == {i \in DOMAIN l.requests :
                    l.requests[i].id = r \/ l.requests[i].cell = cell.point}
        i == Least1(same)
        stored == l.requests[i]
        status == IF same = {} THEN found
                  ELSE MergedStatus(stored.status, found)
        set == IF same = {}
               THEN [l EXCEPT !.requests = Append(@,
                       [NewRequest(r, cell.data.amount, cell.point, cell.point,
                                   FALSE)
                          EXCEPT !.status = found])]
               ELSE [l EXCEPT !.requests[i] =
                       [stored EXCEPT !.hash = cell.point, !.cell = cell.point,
                                      !.status = status]]
    IN  IF Indices(l.reservations, r) = {}
        THEN [set EXCEPT !.reservations = Append(@,
                [NewReservation(r, cell.data.amount)
                   EXCEPT !.status = ReservationStatus(status)])]
        ELSE SetReservation(set, r, ReservationStatus(status))

\* Only a cell under its merchant's lock is recovered.  Those that the service
\* verifies are under the operator's: the merchant has to be the operator.
SyncRequests ==
    LET live == {r \in Requests :
                    request[r] # None /\ request[r].lock = MerchantLock[r]}
    IN  /\ config.rpc /\ live # {}
        /\ \A r \in live : Known(r) \/ Len(ledger.requests) < bound.requests
        /\ SaveIfChanged(FoldSet(UpsertRequest, ledger, live))
        /\ UNCHANGED <<contexts, handoffs, building, fiber>>

----------------------------------------------------------------------------
\* A merchant's new request is handed over by the handler that entered it.
EnterRequest ==
    /\ MerchantNext
    /\ handoffs' = handoffs \cup
          {Handoff(ledger'.requests[i].id, TRUE, "read", None) :
              i \in DOMAIN ledger'.requests \ DOMAIN ledger.requests}
    /\ UNCHANGED <<building, fiber>>

HandoffNext ==
    \/ /\ bound.again
       /\ \E r \in Requests : \/ DeployLiquidity(r) \/ AttachFiberPeer(r)
                              \/ RetryExternalFunding(r) \/ RetryJob(r)
                              \/ RetryFailedJob(r)
    \/ \E r \in Requests : SubmitExternalFunding(r)
    \/ \E x \in handoffs :
          \/ HandoffRead(x) \/ HandoffPrepare(x) \/ FiberOpen(x)
          \/ \E ref \in {"temporary", "channel"} : HandoffAnswer(x, ref)
          \/ \E error \in {"other", "timeout"} : HandoffError(x, error)
          \/ \E h \in Hashes, point \in FundPoints \cup {None} :
                MarkFundingSubmitted(x, h, point)

BuilderNext ==
    \/ \E n \in DOMAIN fiber, i \in DOMAIN ledger.requests : BuilderMatch(n, i)
    \/ \E b \in building : BuilderMark(b) \/ BuilderFail(b)

FiberNext ==
    /\ \E n \in DOMAIN fiber : FiberSign(n) \/ FiberAbort(n) \/ FiberClose(n)
    /\ UNCHANGED <<ledger, disk, contexts, handoffs, building>>

RepairNext ==
    \/ \E r \in Requests :
          \/ ReleaseLiquidity(r)
          \/ \E named \in DOMAIN fiber \cup {None} :
                SettleLiquidity(r, named)
    \/ \E late \in SUBSET {r \in Requests : Known(r)} :
          SyncFiberChannels(late) \/ ReleaseExpired(late)
    \/ SyncRequests

Restart ==
    /\ Crash
    /\ handoffs' = {} /\ building' = {}
    /\ UNCHANGED fiber

Init == LedgerInit /\ handoffs = {} /\ building = {} /\ fiber = <<>>

Next ==
    \/ /\ \/ EnterRequest \/ HandoffNext \/ BuilderNext \/ FiberNext
          \/ RepairNext
          \/ /\ ProviderNext \/ SyncVault \/ \E p \in Positions :
                                                 SyncReceipts(LpLock[p])
             /\ UNCHANGED executorVars
       /\ UNCHANGED <<chainVars, config, crashes>>
    \/ /\ WalletNext \/ \E n \in DOMAIN fiber : FiberFund(n)
       /\ UNCHANGED <<ledgerVars, executorVars>>
    \/ Restart

Spec == Init /\ [][Next]_vars

----------------------------------------------------------------------------
(***************************************************************************)
(* Properties.                                                             *)
(***************************************************************************)
OneEach(l) ==
    \A i, j \in DOMAIN l.requests :
        i # j => l.requests[i].id # l.requests[j].id
OneEntryEach == OneEach(ledger)
Outstanding ==
    MapThenSumSet(LAMBDA i : ledger.reservations[i].amount,
        {i \in DOMAIN ledger.reservations :
            ledger.reservations[i].status # "Released"})

\* Where the ledger stands alone, no CKB of a provider is locked or lent out
\* without a reservation that accounts for it: not after a reservation that
\* failed half way, a release or a deployment that fell short, or an answer of
\* Fiber that came late.
ReservesBacked ==
    ~config.rpc /\ OneEntryEach =>
        Total(ledger.positions, "reserved") + Total(ledger.positions, "deployed")
           <= Outstanding

\* Where the ledger stands alone, the reservation of a request whose channel is
\* open is deployed, in memory and in the file a restart reads, whatever retries,
\* late answers, repairs and passes of the watcher came before.
OpenIsDeployed ==
    ~config.rpc =>
        \A l \in {ledger, disk} : OneEach(l) =>
            \A i \in DOMAIN l.requests :
                LET j == First(l.reservations, l.requests[i].id)
                IN  l.requests[i].status = "ChannelOpen" =>
                       l.reservations[j].status = "Deployed"

\* A request that the vault funds is never shown with an open channel before the
\* funding of that channel is built and signed, whatever late answer, retry,
\* funding callback or restart came in between.  It need not be ready: a channel
\* that awaits its confirmation counts as open, and may yet be lost.
OpenIsSigned ==
    config.vaultMode =>
        \A i \in DOMAIN ledger.requests :
            LET e == ledger.requests[i]
            IN  e.status = "ChannelOpen" =>
                   /\ e.channel \in DOMAIN fiber
                   /\ fiber[e.channel].state \in {"usable", "closed", "lost"}
                   /\ fiber[e.channel].tx # None
=============================================================================
