--------------------------- MODULE OpeningProofs ---------------------------
(***************************************************************************)
(* What holds of the provider's connector for every set of orders, every   *)
(* configuration and any number of crashes.                                *)
(***************************************************************************)
EXTENDS CapacityOpening, SumLemmas

Places == {"idle", "observing", "located", "reporting", "working", "read",
           "checked", "claimed", "saved", "answered", "refused", "failing"}
\* Where the worker holds an order.
Holding == {"located", "reporting", "read", "checked", "claimed", "saved",
            "answered", "refused", "failing"}
\* Where it holds a channel it located.
Observing == {"located", "reporting"}

Workers == [at : Places, listed : [Orders -> CoreStates], todo : SUBSET Orders,
            order : Orders \cup {None}, copy : Journals,
            found : Channels \cup {None}, known : SUBSET ChannelIds]

Types ==
    /\ TypeOK
    /\ worker \in Workers
    /\ older \in [Orders -> SUBSET Channels]
    /\ worker.at \in Holding => worker.order \in Orders
    /\ worker.at \in Observing => worker.found \in Channels
    /\ approving # None => approving.order \in Orders
                           /\ approving.copy \in Journals

\* Between the claim and the call the order is claimed and was never opened.
ClaimedUnopened ==
    worker.at \in {"claimed", "saved"} =>
        /\ calls[worker.order] = 0
        /\ core[worker.order] \notin {"none"} \cup Unclaimed

IInv == Types /\ OpenedOnce /\ ClaimedUnopened

LEMMA InitInv == Init => IInv
  <1> SUFFICES ASSUME Init PROVE IInv
      OBVIOUS
  <1>1. NoJournal \in Journals
    BY DEF NoJournal, Journals
  <1>2. worker \in Workers /\ worker.at = "idle"
    BY <1>1 DEF Init, Idle, Workers, Places, CoreStates
  <1>3. Types
    BY <1>1, <1>2 DEF Init, Types, TypeOK, Workers, CoreStates, ChannelStates,
                      Holding, Observing
  <1> QED
    BY <1>2, <1>3 DEF Init, IInv, OpenedOnce, ClaimedUnopened, Channels

\* What a signed report of a channel changes at the coordinator.
LEMMA EvidenceInv ==
    ASSUME IInv, NEW o \in Orders, NEW c \in Channels, Evidence(o, c)
    PROVE  /\ core' \in [Orders -> CoreStates]
           /\ bound' \in [Orders -> Channels \cup {None}]
           /\ core' = core \/ core' = [core EXCEPT ![o] = "released"]
  <1>1. /\ bound' = [bound EXCEPT ![o] = c]
        /\ core' = core \/ core' = [core EXCEPT ![o] = "released"]
    BY DEF Evidence
  <1> QED
    BY <1>1 DEF IInv, Types, TypeOK, CoreStates

LEMMA CoreInv ==
    ASSUME IInv, UNCHANGED setting, NEW o \in Orders, CoreStep(o) PROVE IInv'
  <1>1. CASE Request(o)
    <2>1. /\ core' = [core EXCEPT ![o] = "awaiting_quote"] /\ core[o] = "none"
          /\ UNCHANGED <<bound, journal, worker, approving, world, calls, taken>>
      BY <1>1 DEF Request
    <2>2. older' \in [Orders -> SUBSET Channels]
      BY <1>1 DEF Request, IInv, Types
    <2>3. Types'
      BY <2>1, <2>2 DEF IInv, Types, TypeOK, world, CoreStates
    <2>4. OpenedOnce'
      BY <2>1 DEF IInv, Types, TypeOK, OpenedOnce, world, Unclaimed
    <2>5. ClaimedUnopened'
      BY <2>1 DEF IInv, Types, TypeOK, ClaimedUnopened, Holding, Unclaimed
    <2> QED
      BY <2>3, <2>4, <2>5 DEF IInv
  <1>2. ASSUME NEW from \in SUBSET CoreStates,
               NEW to \in {"accepted", "released", "delivered", "paid"},
               to = "accepted" => from = {"quoted"},
               CoreMove(o, from, to)
        PROVE  IInv'
    <2>1. Types'
      BY <1>2 DEF IInv, Types, TypeOK, CoreMove, world, others, CoreStates
    <2>2. OpenedOnce' /\ ClaimedUnopened'
      BY <1>2 DEF IInv, Types, TypeOK, OpenedOnce, ClaimedUnopened, CoreMove,
                  world, others, Unclaimed, Holding
    <2> QED
      BY <2>1, <2>2 DEF IInv
  <1>3. ASSUME MerchantReport(o) PROVE IInv'
    <2>1. PICK c \in Channels : Evidence(o, c)
      BY <1>3 DEF MerchantReport
    <2>2. /\ core[o] \in {"opened", "delivered", "paid"}
          /\ UNCHANGED <<journal, worker, world, others, calls>>
      BY <1>3 DEF MerchantReport
    <2>3. Types'
      BY <2>1, <2>2, EvidenceInv DEF IInv, Types, TypeOK, world, others
    <2>4. OpenedOnce' /\ ClaimedUnopened'
      BY <2>1, <2>2, EvidenceInv DEF IInv, Types, TypeOK, OpenedOnce,
              ClaimedUnopened, world, others, Unclaimed, Holding
    <2> QED
      BY <2>3, <2>4 DEF IInv
  <1> QED
    BY <1>1, <1>2, <1>3 DEF CoreStep, Unclaimed, CoreStates

LEMMA OnwardType ==
    ASSUME IInv, NEW at \in {"observing", "working"}
    PROVE  Onward(at) \in Workers /\ Onward(at).at = at
  <1>1. NoJournal \in Journals
    BY DEF NoJournal, Journals
  <1> QED
    BY <1>1 DEF IInv, Types, Workers, Onward, Places

LEMMA IdleType == Idle \in Workers /\ Idle.at = "idle"
  <1>1. NoJournal \in Journals
    BY DEF NoJournal, Journals
  <1> QED
    BY <1>1 DEF Idle, Workers, Places, CoreStates

\* A step of the worker that leaves the coordinator, the node and the journal
\* alone, and claims nothing, only has to keep the worker's shape.
LEMMA QuietInv ==
    ASSUME IInv, UNCHANGED <<core, bound, journal, world, others, calls>>,
           worker' \in Workers, worker'.at \notin {"claimed", "saved"},
           worker'.at \in Holding => worker'.order \in Orders,
           worker'.at \in Observing => worker'.found \in Channels
    PROVE  IInv'
  <1>1. TypeOK'
    BY DEF IInv, Types, TypeOK, Workers, world, others
  <1> QED
    BY <1>1 DEF IInv, Types, OpenedOnce, ClaimedUnopened, world, others

LEMMA LookInv ==
    ASSUME IInv,
           \/ Tick \/ Heartbeat \/ Rest \/ GiveUp \/ OpenCheck
           \/ \E o \in Orders : ObserveRead(o) \/ OpenRead(o)
    PROVE  IInv'
  <1> USE OnwardType, IdleType
  <1>1. CASE Tick
    <2> DEFINE listed == [o \in Orders |-> IF core[o] \in Wanted
                                           THEN core[o] ELSE "none"]
               todo == {o \in Orders : core[o] \in {"opened", "delivered",
                                                     "paid"}}
    <2>0. listed \in [Orders -> CoreStates] /\ todo \in SUBSET Orders
          /\ worker' = [Idle EXCEPT !.at = "observing", !.listed = listed,
                           !.todo = todo]
      BY <1>1 DEF Tick, IInv, Types, TypeOK, CoreStates, Wanted
    <2> HIDE DEF listed, todo
    <2>1. worker' \in Workers /\ worker'.at = "observing"
      BY <2>0 DEF Workers, Places
    <2> QED
      BY <1>1, <2>1, QuietInv DEF Tick, Holding, Observing
  <1>2. CASE Heartbeat
    <2> DEFINE todo == {o \in Orders : worker.listed[o] \in Wanted}
    <2>0. todo \in SUBSET Orders
      OBVIOUS
    <2>1. worker' \in Workers /\ worker'.at \in {"working", "idle"}
      <3> HIDE DEF todo
      <3>1. \/ worker' = [worker EXCEPT !.at = "working", !.todo = todo]
            \/ worker' = Idle
        BY <1>2 DEF Heartbeat, todo
      <3> QED
        BY <2>0, <3>1 DEF IInv, Types, Workers, Places
    <2> QED
      BY <1>2, <2>1, QuietInv DEF Heartbeat, Holding, Observing
  <1>3. CASE Rest
    BY <1>3, QuietInv DEF Rest, Holding, Observing
  <1>4. CASE GiveUp
    <2>1. worker' \in Workers /\ worker'.at \in {"working", "observing"}
      BY <1>4 DEF GiveUp
    <2> QED
      BY <1>4, <2>1, QuietInv DEF GiveUp, Holding, Observing
  <1>5. CASE OpenCheck
    <2> DEFINE ids == {Id(c) : c \in Listed}
    <2>0. /\ worker.at = "read"
          /\ UNCHANGED <<core, bound, journal, world, others, calls>>
      BY ZenonT(30), <1>5 DEF OpenCheck
    <2>1. \/ worker' = [worker EXCEPT !.at = "checked", !.known = ids]
          \/ worker' = Onward("working")
      BY ZenonT(30), <1>5 DEF OpenCheck
    <2>2. ids \subseteq ChannelIds
      BY DEF Id, Listed, ChannelIds
    <2> HIDE DEF ids
    <2>3. /\ worker' \in Workers
          /\ \/ worker'.at = "working"
             \/ worker'.at = "checked" /\ worker'.order = worker.order
      BY <2>1, <2>2 DEF IInv, Types, Workers, Places
    <2>4. worker.order \in Orders
      BY <2>0 DEF IInv, Types, Holding
    <2> QED
      BY <2>0, <2>3, <2>4, QuietInv DEF Holding, Observing
  <1>6. ASSUME NEW o \in Orders, ObserveRead(o) PROVE IInv'
    <2> DEFINE L == Located(o, journal[o])
               found == CHOOSE c \in L : TRUE
    <2>1. L \subseteq Channels /\ (L # {} => found \in L)
      BY DEF Located, Listed
    <2>2. Cardinality(L) = 1 => L # {}
      BY FS_EmptySet
    <2>3. /\ worker.at = "observing"
          /\ UNCHANGED <<core, bound, journal, world, others, calls>>
          /\ \/ /\ worker' = [worker EXCEPT !.at = "located", !.order = o,
                                   !.copy = journal[o], !.found = found]
                /\ L # {}
             \/ worker' = [worker EXCEPT !.todo = @ \ {o}]
      BY ZenonT(30), <1>6, <2>2 DEF ObserveRead
    <2> HIDE DEF L, found
    <2>4. CASE worker' = [worker EXCEPT !.todo = @ \ {o}]
      <3>1. worker' \in Workers /\ worker'.at = "observing"
        BY <2>3, <2>4 DEF IInv, Types, Workers
      <3> QED
        BY <2>3, <3>1, QuietInv DEF Holding, Observing
    <2>5. CASE /\ L # {}
               /\ worker' = [worker EXCEPT !.at = "located", !.order = o,
                                !.copy = journal[o], !.found = found]
      <3>1. found \in Channels /\ journal[o] \in Journals /\ worker \in Workers
        BY <2>1, <2>5 DEF IInv, Types, TypeOK
      <3>2. /\ worker' \in Workers /\ worker'.at = "located"
            /\ worker'.order \in Orders /\ worker'.found \in Channels
        BY <2>5, <3>1 DEF Workers, Places
      <3> QED
        BY <2>3, <3>2, QuietInv DEF Holding, Observing
    <2> QED
      BY <2>3, <2>4, <2>5
  <1>7. ASSUME NEW o \in Orders, OpenRead(o) PROVE IInv'
    <2>1. /\ worker.at = "working"
          /\ UNCHANGED <<core, bound, journal, world, others, calls>>
          /\ \/ worker' = [worker EXCEPT !.at = "read", !.order = o,
                              !.copy = journal[o]]
             \/ worker' = [worker EXCEPT !.todo = @ \ {o}]
      BY ZenonT(30), <1>7 DEF OpenRead
    <2>2. worker \in Workers /\ journal[o] \in Journals
      BY DEF IInv, Types, TypeOK
    <2>3. /\ worker' \in Workers
          /\ \/ worker'.at = "working"
             \/ worker'.at = "read" /\ worker'.order = o
      <3>1. CASE worker' = [worker EXCEPT !.at = "read", !.order = o,
                               !.copy = journal[o]]
        BY <2>2, <3>1 DEF Workers, Places
      <3>2. CASE worker' = [worker EXCEPT !.todo = @ \ {o}]
        BY <2>1, <2>2, <3>2 DEF Workers
      <3> QED
        BY <2>1, <3>1, <3>2
    <2>4. /\ worker'.at \notin {"claimed", "saved"}
          /\ worker'.at \notin Observing
          /\ worker'.at \in Holding => worker'.order \in Orders
      BY <2>3 DEF Holding, Observing
    <2>5. UNCHANGED <<core, bound, journal, world, others, calls>>
      BY <2>1
    <2> QED
      BY <2>3, <2>4, <2>5, QuietInv
  <1> QED
    BY <1>1, <1>2, <1>3, <1>4, <1>5, <1>6, <1>7

LEMMA ObserveInv ==
    ASSUME IInv,
           ObserveSave \/ ObserveReport \/ \E o \in Orders : SendQuote(o)
    PROVE  IInv'
  <1> USE OnwardType
  <1>1. CASE ObserveSave
    <2>1. /\ worker.order \in Orders /\ worker.found \in Channels
          /\ worker.copy \in Journals
      BY <1>1 DEF ObserveSave, IInv, Types, TypeOK, Holding, Observing
    <2>2. [worker.copy EXCEPT !.channel = <<worker.found, "final">>,
                              !.outpoint = worker.found] \in Journals
      BY <2>1 DEF Journals, ChannelIds
    <2>3. worker' \in Workers /\ worker'.at = "reporting"
          /\ worker'.order = worker.order /\ worker'.found = worker.found
          /\ worker'.copy = worker.copy /\ worker'.todo = worker.todo
      BY <1>1 DEF ObserveSave, IInv, Types, Workers, Places
    <2>4. journal' \in [Orders -> Journals]
      BY <1>1, <2>1, <2>2 DEF ObserveSave, IInv, Types, TypeOK
    <2>5. Types'
      BY <1>1, <2>1, <2>3, <2>4 DEF ObserveSave, IInv, Types, TypeOK, world
    <2> QED
      BY <1>1, <2>3, <2>5 DEF ObserveSave, IInv, OpenedOnce, ClaimedUnopened,
                              world
  <1>2. CASE ObserveReport
    <2>1. worker.order \in Orders /\ worker.found \in Channels
      BY <1>2 DEF ObserveReport, IInv, Types, Holding, Observing
    <2>2. worker' \in Workers /\ worker'.at = "observing"
      BY <1>2 DEF ObserveReport
    <2>3. core' = core \/ core' = [core EXCEPT ![worker.order] = "released"]
      BY <1>2, <2>1, EvidenceInv DEF ObserveReport
    <2>4. /\ core' \in [Orders -> CoreStates]
          /\ bound' \in [Orders -> Channels \cup {None}]
      BY <1>2, <2>1, EvidenceInv DEF ObserveReport
    <2>5. Types'
      BY <1>2, <2>2, <2>4 DEF ObserveReport, IInv, Types, TypeOK, Workers,
                              Holding, Observing, world, others
    <2>6. OpenedOnce'
      BY <1>2, <2>1, <2>3 DEF ObserveReport, IInv, Types, TypeOK, OpenedOnce,
                              world, Unclaimed
    <2> QED
      BY <2>2, <2>5, <2>6 DEF IInv, ClaimedUnopened
  <1>3. ASSUME NEW o \in Orders, SendQuote(o) PROVE IInv'
    <2>1. worker' \in Workers /\ worker'.at = "working"
      BY <1>3 DEF SendQuote, IInv, Types, Workers
    <2>2. \/ core' = core
          \/ /\ core[o] \in {"awaiting_quote", "quoted"}
             /\ core' = [core EXCEPT ![o] = "quoted"]
      BY <1>3 DEF SendQuote
    <2>3. Types'
      BY <1>3, <2>1, <2>2 DEF SendQuote, IInv, Types, TypeOK, Workers, Holding,
                              Observing, world, others, CoreStates
    <2>4. OpenedOnce'
      BY <1>3, <2>2 DEF SendQuote, IInv, Types, TypeOK, OpenedOnce, world,
                        Unclaimed
    <2> QED
      BY <2>1, <2>3, <2>4 DEF IInv, ClaimedUnopened
  <1> QED
    BY <1>1, <1>2, <1>3

LEMMA OpenInv ==
    ASSUME IInv,
           OpenClaim \/ OpenSave \/ OpenCall \/ OpenResult \/ OpenFailure
    PROVE  IInv'
  <1> USE OnwardType
  <1> DEFINE o == worker.order
  <1>0. o \in Orders /\ worker.copy \in Journals
    BY DEF OpenClaim, OpenSave, OpenCall, OpenResult, OpenFailure, IInv, Types,
           TypeOK, Holding
  <1>1. CASE OpenClaim
    <2>1. CASE Claimable(o)
      <3>1. /\ core[o] = "accepted"
            /\ core' = [core EXCEPT ![o] = "opened"]
            /\ worker' = [worker EXCEPT !.at = "claimed"]
        BY <1>1, <2>1 DEF OpenClaim, Claimable
      <3>2. worker' \in Workers /\ worker'.at = "claimed" /\ worker'.order = o
        BY <3>1 DEF IInv, Types, Workers, Places
      <3>3. calls[o] = 0
        BY <1>0, <3>1 DEF IInv, Types, TypeOK, OpenedOnce, Unclaimed
      <3>4. Types'
        BY <1>0, <1>1, <3>1, <3>2 DEF OpenClaim, IInv, Types, TypeOK, Workers,
                            Observing, world, others, CoreStates
      <3>5. OpenedOnce'
        BY <1>0, <1>1, <3>1 DEF OpenClaim, IInv, Types, TypeOK, OpenedOnce,
                                world, Unclaimed
      <3>6. ClaimedUnopened'
        BY <1>0, <1>1, <3>1, <3>2, <3>3 DEF OpenClaim, IInv, Types, TypeOK,
                                ClaimedUnopened, Unclaimed
      <3> QED
        BY <3>4, <3>5, <3>6 DEF IInv
    <2>2. CASE ~Claimable(o)
      BY <1>1, <2>2, QuietInv DEF OpenClaim, Holding, Observing
    <2> QED
      BY <2>1, <2>2
  <1>2. CASE OpenSave
    <2> DEFINE attempt == [worker.copy EXCEPT !.attempted = TRUE,
                              !.funding = Funding[o],
                              !.baseline = worker.known]
    <2>1. attempt \in Journals
      BY <1>0, ConnectorAssumption DEF IInv, Types, Workers, Journals
    <2>2. /\ worker' \in Workers /\ worker'.at = "saved" /\ worker'.order = o
      BY <1>2, <2>1 DEF OpenSave, IInv, Types, Workers, Places
    <2>3. journal' \in [Orders -> Journals]
      BY <1>0, <1>2, <2>1 DEF OpenSave, IInv, Types, TypeOK
    <2>4. Types'
      BY <1>0, <1>2, <2>2, <2>3 DEF OpenSave, IInv, Types, TypeOK, Workers,
                                    Observing, world, others
    <2> QED
      BY <1>2, <2>2, <2>4 DEF OpenSave, IInv, OpenedOnce, ClaimedUnopened, world
  <1>3. CASE OpenCall
    <2>1. /\ calls' = [calls EXCEPT ![o] = @ + 1]
          /\ channel' \in {channel, [channel EXCEPT ![o] = "temporary"]}
          /\ UNCHANGED <<core, bound, journal, moved, settled, others>>
          /\ \/ worker' = [worker EXCEPT !.at = "answered",
                              !.copy.channel = <<o, "temporary">>]
             \/ worker' = [worker EXCEPT !.at = "refused"]
      BY <1>3 DEF OpenCall
    <2>2. [worker.copy EXCEPT !.channel = <<o, "temporary">>] \in Journals
      BY <1>0 DEF Journals, ChannelIds, Channels
    <2>3. /\ worker' \in Workers /\ worker'.at \in {"answered", "refused"}
          /\ worker'.order = o
      BY <2>1, <2>2 DEF IInv, Types, Workers, Places
    <2>4. calls[o] = 0 /\ core[o] \notin {"none"} \cup Unclaimed
      BY <1>3 DEF OpenCall, IInv, ClaimedUnopened
    <2>5. Types'
      BY <1>0, <2>1, <2>3 DEF IInv, Types, TypeOK, Workers, Observing, others,
                              ChannelStates
    <2>6. OpenedOnce'
      BY <1>0, <2>1, <2>4 DEF IInv, Types, TypeOK, OpenedOnce, Channels
    <2> QED
      BY <2>3, <2>5, <2>6 DEF IInv, ClaimedUnopened
  <1>4. CASE OpenResult
    <2>1. /\ worker' \in Workers /\ worker'.at \in {"working", "failing"}
          /\ worker'.at = "failing" => worker'.order = o
      BY <1>4 DEF OpenResult, IInv, Types, Workers, Places
    <2>2. journal' \in [Orders -> Journals]
      BY <1>0, <1>4 DEF OpenResult, IInv, Types, TypeOK
    <2>3. Types'
      BY <1>0, <1>4, <2>1, <2>2 DEF OpenResult, IInv, Types, TypeOK, Workers,
                                    Holding, Observing, world, others
    <2> QED
      BY <1>4, <2>1, <2>3 DEF OpenResult, IInv, OpenedOnce, ClaimedUnopened,
                              world
  <1>5. CASE OpenFailure
    <2>1. worker' \in Workers /\ worker'.at = "working"
      BY <1>5 DEF OpenFailure
    <2>2. \/ core' = core
          \/ core' = [core EXCEPT ![o] = "opened"]
      BY <1>0, <1>5 DEF OpenFailure, Failed, IInv, Types, TypeOK
    <2>3. Types'
      BY <1>0, <1>5, <2>1, <2>2 DEF OpenFailure, IInv, Types, TypeOK, Workers,
                              Holding, Observing, world, others, CoreStates
    <2>4. OpenedOnce'
      BY <1>0, <1>5, <2>2 DEF OpenFailure, IInv, Types, TypeOK, OpenedOnce,
                              world, Unclaimed
    <2> QED
      BY <2>1, <2>3, <2>4 DEF IInv, ClaimedUnopened
  <1> QED
    BY <1>1, <1>2, <1>3, <1>4, <1>5

LEMMA OutsideInv ==
    ASSUME IInv, setting \in Settings,
           Crash \/ ApproveStep \/ NodeStep \/ UNCHANGED vars
    PROVE  IInv'
  <1>1. CASE Crash
    <2>1. worker' \in Workers /\ worker'.at = "idle"
      BY <1>1, IdleType DEF Crash
    <2> QED
      BY <1>1, <2>1 DEF Crash, IInv, Types, TypeOK, Workers, OpenedOnce,
                        ClaimedUnopened, world, Holding, Observing
  <1>2. ASSUME NEW o \in Orders, ApproveRead(o) PROVE IInv'
    BY <1>2 DEF ApproveRead, IInv, Types, TypeOK, OpenedOnce, ClaimedUnopened,
                world
  <1>3. CASE ApproveSave
    <2>1. journal' \in [Orders -> Journals]
      BY <1>3 DEF ApproveSave, IInv, Types, TypeOK, Journals
    <2> QED
      BY <1>3, <2>1 DEF ApproveSave, IInv, Types, TypeOK, OpenedOnce,
                        ClaimedUnopened, world
  <1>4. CASE NodeStep
    <2>1. ASSUME NEW c \in Channels,
                 \/ ChannelStep(c) \/ PayAway(c) \/ SettleOnChain(c)
                 \/ c \in Foreign /\ OpenOutside(c)
          PROVE  /\ UNCHANGED <<core, bound, journal, worker, others, calls>>
                 /\ channel' \in [Channels -> ChannelStates]
                 /\ \A o \in Orders : channel'[o] # "absent"
                                         => channel[o] # "absent"
                 /\ moved' \subseteq Channels /\ settled' \subseteq Channels
      BY <2>1, ConnectorAssumption
         DEF ChannelStep, PayAway, SettleOnChain, OpenOutside, IInv, Types,
             TypeOK, ChannelStates, Channels
    <2>2. Outside \subseteq Foreign /\ Foreign \subseteq Channels
      BY ConnectorAssumption DEF Outside, Channels
    <2>3. PICK c \in Channels :
             \/ ChannelStep(c) \/ PayAway(c) \/ SettleOnChain(c)
             \/ c \in Foreign /\ OpenOutside(c)
      BY <1>4, <2>2 DEF NodeStep
    <2> QED
      BY <2>1, <2>3 DEF IInv, Types, TypeOK, OpenedOnce, ClaimedUnopened, others
  <1>5. CASE UNCHANGED vars
    BY <1>5 DEF vars, IInv, Types, TypeOK, OpenedOnce, ClaimedUnopened
  <1>6. Approvals \subseteq Orders
    BY ConnectorAssumption DEF Approvals
  <1> QED
    BY <1>1, <1>2, <1>3, <1>4, <1>5, <1>6 DEF ApproveStep

Inv == IInv /\ setting \in Settings

LEMMA StartInv == Init => Inv
  BY InitInv DEF Init, Inv

LEMMA NextInv == ASSUME Inv, [Next]_vars PROVE Inv'
  <1>1. UNCHANGED setting
    BY DEF Next, vars
  <1>2. IInv'
    BY <1>1, CoreInv, LookInv, ObserveInv, OpenInv, OutsideInv
       DEF Inv, Next, WorkerStep
  <1> QED
    BY <1>1, <1>2 DEF Inv

(***************************************************************************)
(* The node is asked for an order's channel once, and only for an order    *)
(* claimed before, whatever the number of orders, crashes and lost answers *)
(* (execution::open).                                                      *)
(***************************************************************************)
THEOREM OpenedOnceHolds == Spec => []OpenedOnce
  <1>1. Inv => OpenedOnce
    BY DEF Inv, IInv
  <1> QED
    BY <1>1, StartInv, NextInv, PTL DEF Spec

(***************************************************************************)
(* The journal, its copies and the coordinator's records keep their shapes *)
(* (connector::Journal).                                                   *)
(***************************************************************************)
THEOREM TypesHold == Spec => []TypeOK
  <1>1. Inv => TypeOK
    BY DEF Inv, IInv, Types
  <1> QED
    BY <1>1, StartInv, NextInv, PTL DEF Spec

----------------------------------------------------------------------------
(***************************************************************************)
(* How one step changes each variable.                                     *)
(***************************************************************************)
Active(o) == core[o] \notin {"none", "paid", "released"}

CoreMoves(o) ==
    \/ Request(o)
    \/ /\ older'[o] = older[o]
       /\ \/ core'[o] = core[o]
          \/ core[o] \in Unclaimed
             /\ core'[o] \in Unclaimed \cup {"opened", "released"}
          \/ core[o] = "opened" /\ core'[o] = "released" /\ bound'[o] \in settled
          \/ /\ core[o] = "opened" /\ core'[o] = "delivered"
             /\ bound'[o] # None /\ channel[bound'[o]] = "ready"
          \/ core[o] = "delivered" /\ core'[o] = "paid"

\* By the worker's own report, or by one of the merchant's connector.
Reported(o, c) ==
    \/ worker.at = "reporting" /\ worker.order = o /\ worker.found = c
    \/ /\ channel[c] # "absent" /\ Peer[c] = Peer[o] /\ c \notin older[o]
       /\ core[o] \in {"opened", "delivered", "paid"}

BoundMoves(o) ==
    \/ bound'[o] = bound[o]
    \/ \E c \in Channels :
          bound[o] \in {None, c} /\ bound'[o] = c /\ Reported(o, c)

ChannelMoves(c) ==
    /\ \/ channel'[c] = channel[c] /\ (c \in Orders => calls'[c] = calls[c])
       \/ /\ OpenCall /\ worker.at = "saved" /\ worker.order = c /\ c \in Orders
          /\ calls'[c] = calls[c] + 1
          /\ channel'[c] \in {channel[c], "temporary"} /\ settled' = settled
       \/ /\ c \in Orders => calls'[c] = calls[c]
          /\ \/ channel[c] = "temporary" /\ channel'[c] \in {"funded", "gone"}
             \/ channel[c] = "funded" /\ channel'[c] = "ready"
             \/ channel[c] = "ready" /\ channel'[c] = "closing"
             \/ channel[c] = "closing" /\ channel'[c] = "gone"
             \/ /\ c \in Foreign
                /\ channel[c] = "absent" /\ channel'[c] = "temporary"
    /\ \/ c \in settled' <=> c \in settled
       \/ channel[c] = "closing" /\ channel' = channel /\ c \in settled'

Looks == \/ Tick \/ Heartbeat \/ Rest \/ GiveUp \/ OpenCheck
         \/ \E o \in Orders : ObserveRead(o) \/ OpenRead(o)

\* What the steps that only move the worker, and those of others, leave alone.
LEMMA LooksFrame ==
    ASSUME Looks
    PROVE  /\ UNCHANGED <<core, bound, journal, calls, approving, older, taken>>
           /\ UNCHANGED <<channel, moved, settled>>
  <1>1. UNCHANGED <<core, bound, journal, world, others, calls>>
    <2>1. CASE Tick
      BY Zenon, <2>1 DEF Tick
    <2>2. CASE Heartbeat
      BY Zenon, <2>2 DEF Heartbeat
    <2>3. CASE Rest
      BY Zenon, <2>3 DEF Rest
    <2>4. CASE GiveUp
      BY Zenon, <2>4 DEF GiveUp
    <2>5. CASE OpenCheck
      BY Zenon, <2>5 DEF OpenCheck
    <2>6. ASSUME NEW o \in Orders, ObserveRead(o)
          PROVE  UNCHANGED <<core, bound, journal, world, others, calls>>
      BY Zenon, <2>6 DEF ObserveRead
    <2>7. ASSUME NEW o \in Orders, OpenRead(o)
          PROVE  UNCHANGED <<core, bound, journal, world, others, calls>>
      BY Zenon, <2>7 DEF OpenRead
    <2> QED
      BY Zenon, <2>1, <2>2, <2>3, <2>4, <2>5, <2>6, <2>7 DEF Looks
  <1> QED
    BY <1>1 DEF world, others

LEMMA CoreFrame ==
    ASSUME NEW o \in Orders, CoreStep(o)
    PROVE  /\ UNCHANGED <<journal, worker, calls, approving, taken>>
           /\ UNCHANGED <<channel, moved, settled>>
  BY DEF CoreStep, Request, CoreMove, MerchantReport, world, others

LEMMA NodeFrame ==
    ASSUME NodeStep
    PROVE  UNCHANGED <<core, bound, journal, worker, calls, approving, older,
                       taken>>
  BY DEF NodeStep, ChannelStep, OpenOutside, PayAway, SettleOnChain, others

LEMMA ApproveFrame ==
    ASSUME ApproveStep \/ Crash
    PROVE  /\ UNCHANGED <<core, bound, calls, older, taken>>
           /\ UNCHANGED <<channel, moved, settled>>
  BY DEF ApproveStep, ApproveRead, ApproveSave, Crash, world

\* The steps of the worker that change more than the worker.
LEMMA WorkFrame ==
    /\ ObserveSave \/ OpenSave \/ OpenResult
         => UNCHANGED <<core, bound, channel, moved, settled, calls, approving,
                        older>>
    /\ ObserveReport \/ (\E o \in Orders : SendQuote(o))
         => UNCHANGED <<journal, channel, moved, settled, calls, approving,
                        older, taken>>
    /\ OpenClaim \/ OpenFailure \/ (\E o \in Orders : SendQuote(o))
         => UNCHANGED <<bound, journal, channel, moved, settled, calls,
                        approving, older, taken>>
    /\ OpenCall => UNCHANGED <<core, bound, journal, moved, settled, approving,
                               older, taken>>
    /\ OpenSave \/ OpenResult => UNCHANGED taken
  BY Zenon DEF ObserveSave, OpenSave, OpenResult, ObserveReport, SendQuote,
               OpenClaim, OpenFailure, OpenCall, world, others

LEMMA AnyStep ==
    ASSUME [Next]_vars
    PROVE  \/ UNCHANGED vars
           \/ \E o \in Orders : CoreStep(o)
           \/ Looks \/ (\E o \in Orders : SendQuote(o)) \/ ObserveSave
           \/ ObserveReport \/ OpenClaim \/ OpenSave \/ OpenCall \/ OpenResult
           \/ OpenFailure
           \/ ApproveStep \/ Crash \/ NodeStep
  BY Zenon DEF Next, WorkerStep, Looks

LEMMA CoreMove1 ==
    ASSUME Inv, [Next]_vars, NEW o \in Orders PROVE CoreMoves(o)
  <1>1. /\ core \in [Orders -> CoreStates]
        /\ older \in [Orders -> SUBSET Channels]
        /\ worker.at \in Holding => worker.order \in Orders
        /\ bound \in [Orders -> Channels \cup {None}]
    BY DEF Inv, IInv, Types, TypeOK
  <1>2. CASE core' = core /\ older' = older
    BY <1>2 DEF CoreMoves
  <1>3. ASSUME NEW q \in Orders, NEW c, Evidence(q, c), older' = older
        PROVE  CoreMoves(o)
    BY <1>1, <1>3 DEF Evidence, CoreMoves
  <1>4. ASSUME NEW q \in Orders, CoreStep(q) PROVE CoreMoves(o)
    <2>1. CASE Request(q)
      BY <1>1, <2>1 DEF CoreMoves, Request
    <2>2. ASSUME NEW from, NEW to, CoreMove(q, from, to),
                 \/ from = {"quoted"} /\ to = "accepted"
                 \/ from = Unclaimed \cup {"opened"} /\ to = "released"
                 \/ from = {"opened"} /\ to = "delivered"
                 \/ from = {"delivered"} /\ to = "paid"
          PROVE  CoreMoves(o)
      BY <1>1, <2>2 DEF CoreMoves, CoreMove, others, Unclaimed
    <2>3. CASE MerchantReport(q)
      BY <1>3, <2>3 DEF MerchantReport, others
    <2> QED
      BY <1>4, <2>1, <2>2, <2>3 DEF CoreStep
  <1>5. CASE ObserveReport
    BY <1>1, <1>3, <1>5 DEF ObserveReport, others, Holding
  <1>6. ASSUME NEW q \in Orders, SendQuote(q) PROVE CoreMoves(o)
    BY <1>1, <1>6 DEF SendQuote, CoreMoves, others, Unclaimed
  <1>7. CASE OpenClaim
    BY <1>1, <1>7 DEF OpenClaim, Claimable, CoreMoves, others, Unclaimed
  <1>8. CASE OpenFailure
    BY <1>1, <1>8 DEF OpenFailure, Failed, CoreMoves, others
  <1> QED
    BY <1>2, <1>4, <1>5, <1>6, <1>7, <1>8, AnyStep, LooksFrame, NodeFrame,
       ApproveFrame, WorkFrame DEF vars

LEMMA BoundMove1 ==
    ASSUME Inv, [Next]_vars, NEW o \in Orders PROVE BoundMoves(o)
  <1>1. /\ bound \in [Orders -> Channels \cup {None}]
        /\ worker.at \in Observing => worker.found \in Channels
    BY DEF Inv, IInv, Types, TypeOK
  <1>2. CASE bound' = bound
    BY <1>2 DEF BoundMoves
  <1>3. CASE ObserveReport
    <2> DEFINE c == worker.found
    <2>1. c \in Channels /\ worker.at = "reporting"
      BY <1>1, <1>3 DEF ObserveReport, Observing
    <2>2. /\ bound[worker.order] \in {None, c}
          /\ bound' = [bound EXCEPT ![worker.order] = c]
      BY <1>3 DEF ObserveReport, Evidence
    <2> HIDE DEF c
    <2>3. CASE o = worker.order
      <3>1. bound'[o] = c /\ bound[o] \in {None, c} /\ Reported(o, c)
        BY <1>1, <2>1, <2>2, <2>3 DEF Reported, c
      <3> QED
        BY <2>1, <3>1 DEF BoundMoves
    <2>4. CASE o # worker.order
      BY <1>1, <2>2, <2>4 DEF BoundMoves
    <2> QED
      BY <2>3, <2>4
  <1>4. ASSUME NEW q \in Orders, MerchantReport(q) PROVE BoundMoves(o)
    <2>1. PICK c \in Channels : HasOutpoint(c) /\ Peer[c] = Peer[q]
                                /\ c \notin older[q] /\ Evidence(q, c)
      BY <1>4 DEF MerchantReport
    <2>2. bound[q] \in {None, c} /\ bound' = [bound EXCEPT ![q] = c]
      BY <2>1 DEF Evidence
    <2>3. channel[c] # "absent" /\ core[q] \in {"opened", "delivered", "paid"}
      BY <1>4, <2>1 DEF MerchantReport, HasOutpoint
    <2> QED
      BY <1>1, <2>1, <2>2, <2>3 DEF BoundMoves, Reported
  <1>5. ASSUME NEW q \in Orders, CoreStep(q) PROVE BoundMoves(o)
    BY <1>2, <1>4, <1>5 DEF CoreStep, Request, CoreMove
  <1> QED
    BY <1>2, <1>3, <1>5, AnyStep, LooksFrame, NodeFrame, ApproveFrame, WorkFrame
       DEF vars

LEMMA ChannelMove1 ==
    ASSUME Inv, [Next]_vars, NEW o \in Channels PROVE ChannelMoves(o)
  <1>1. /\ channel \in [Channels -> ChannelStates] /\ calls \in [Orders -> Nat]
        /\ Outside \subseteq Foreign /\ Foreign \subseteq Channels
        /\ worker.at \in Holding => worker.order \in Orders
    BY ConnectorAssumption DEF Inv, IInv, Types, TypeOK, Outside, Channels
  <1>2. CASE channel' = channel /\ calls' = calls /\ settled' = settled
    BY <1>2 DEF ChannelMoves
  <1>3. CASE OpenCall
    <2>1. /\ worker.at = "saved" /\ settled' = settled
          /\ channel' \in {channel, [channel EXCEPT ![worker.order] = "temporary"]}
          /\ calls' = [calls EXCEPT ![worker.order] = @ + 1]
      BY <1>3 DEF OpenCall
    <2> QED
      BY <1>1, <1>3, <2>1 DEF ChannelMoves, Holding
  <1>4. CASE NodeStep
    <2>1. ASSUME NEW c \in Channels, ChannelStep(c) PROVE ChannelMoves(o)
      BY <1>1, <2>1 DEF ChannelStep, ChannelMoves, others
    <2>2. ASSUME NEW c \in Channels, SettleOnChain(c) PROVE ChannelMoves(o)
      BY <2>2 DEF SettleOnChain, ChannelMoves
    <2>3. ASSUME NEW c \in Outside, OpenOutside(c) PROVE ChannelMoves(o)
      BY <1>1, <2>3 DEF OpenOutside, ChannelMoves
    <2> QED
      BY <1>2, <1>4, <2>1, <2>2, <2>3 DEF NodeStep, PayAway
  <1> QED
    BY <1>2, <1>3, <1>4, AnyStep, LooksFrame, CoreFrame, ApproveFrame, WorkFrame
       DEF vars

\* Between the check of the budget and the call.
Checking == {"checked", "claimed", "saved"}
\* Where the worker still has orders to observe.
Watching == {"observing", "located", "reporting"}

\* The worker comes to an opening only by a claim, and to an order it observes
\* only by the list it took at the tick.
WorkerMoves ==
    /\ worker'.at \in {"claimed", "saved"} =>
          /\ worker'.order = worker.order
          /\ worker.at \in {"claimed", "saved"} \/ core'[worker.order] = "opened"
    /\ worker'.at \in Watching =>
          \A o \in worker'.todo :
             \/ worker.at \in Watching /\ o \in worker.todo
             \/ core[o] \in {"opened", "delivered", "paid"} /\ core' = core
    /\ worker'.at \in Checking => /\ worker'.order = worker.order
                                 /\ (worker.at \in Checking \/ OpenCheck)

LEMMA WorkerMove1 == ASSUME Inv, [Next]_vars PROVE WorkerMoves
  <1> USE DEF WorkerMoves, Watching, Checking
  <1>1. /\ core \in [Orders -> CoreStates] /\ worker \in Workers
        /\ worker.at \in Holding => worker.order \in Orders
    BY DEF Inv, IInv, Types, TypeOK
  <1>2. CASE worker' = worker
    BY <1>2
  <1>3. CASE Tick
    <2>1. worker'.at = "observing" /\ core' = core
          /\ worker'.todo = {o \in Orders : core[o] \in {"opened", "delivered",
                                                        "paid"}}
      BY <1>3 DEF Tick, Idle
    <2> QED
      BY <2>1
  <1>4. ASSUME NEW o \in Orders, ObserveRead(o) PROVE WorkerMoves
    <2>1. /\ worker.at = "observing"
          /\ \/ worker'.at = "located" /\ worker'.todo = worker.todo
             \/ worker'.at = "observing" /\ worker'.todo = worker.todo \ {o}
      BY ZenonT(30), <1>1, <1>4 DEF ObserveRead, Workers
    <2> QED
      BY <2>1
  <1>5. CASE ObserveSave
    <2>1. worker.at = "located" /\ worker' = [worker EXCEPT !.at = "reporting"]
      BY <1>5 DEF ObserveSave
    <2> QED
      BY <1>1, <2>1 DEF Workers
  <1>6. CASE worker' = Onward("observing") /\ worker.at \in Watching
    BY <1>1, <1>6 DEF Onward, Workers
  <1>7. CASE worker' = Idle \/ worker' = Onward("working")
    <2>1. worker'.at \in {"idle", "working"}
      BY <1>7, IdleType, OnwardType DEF Inv
    <2> QED
      BY <2>1
  <1>8. CASE Heartbeat
    <2> DEFINE todo == {o \in Orders : worker.listed[o] \in Wanted}
    <2>1. \/ worker' = [worker EXCEPT !.at = "working", !.todo = todo]
          \/ worker' = Idle
      BY <1>8 DEF Heartbeat
    <2> HIDE DEF todo
    <2> QED
      BY <1>1, <1>7, <2>1 DEF Workers
  <1>9. ASSUME NEW o \in Orders, SendQuote(o) \/ OpenRead(o) PROVE WorkerMoves
    <2>1. worker'.at \in {"working", "read"}
      BY ZenonT(30), <1>1, <1>9 DEF SendQuote, OpenRead, Workers
    <2> QED
      BY <2>1
  <1>10. CASE OpenCheck
    <2> DEFINE ids == {Id(c) : c \in Listed}
    <2>1. \/ worker' = [worker EXCEPT !.at = "checked", !.known = ids]
          \/ worker' = Onward("working")
      BY <1>10 DEF OpenCheck
    <2> HIDE DEF ids
    <2> QED
      BY <1>1, <1>7, <1>10, <2>1 DEF Workers
  <1>11. CASE OpenClaim
    BY <1>1, <1>7, <1>11 DEF OpenClaim, Workers, Holding
  <1>12. CASE OpenSave
    <2> DEFINE attempt == [worker.copy EXCEPT !.attempted = TRUE,
                              !.funding = Funding[worker.order],
                              !.baseline = worker.known]
    <2>1. worker' = [worker EXCEPT !.at = "saved", !.copy = attempt]
          /\ worker.at = "claimed"
      BY <1>12 DEF OpenSave
    <2> HIDE DEF attempt
    <2> QED
      BY <1>1, <2>1 DEF Workers
  <1>13. CASE OpenCall
    <2>1. \/ worker' = [worker EXCEPT !.at = "answered",
                            !.copy.channel = <<worker.order, "temporary">>]
          \/ worker' = [worker EXCEPT !.at = "refused"]
      BY <1>13 DEF OpenCall
    <2> QED
      BY <1>1, <2>1 DEF Workers
  <1>14. CASE OpenResult
    BY <1>1, <1>7, <1>14 DEF OpenResult, Workers
  <1>15. ASSUME WorkerStep PROVE WorkerMoves
    BY <1>3, <1>4, <1>5, <1>6, <1>7, <1>8, <1>9, <1>10, <1>11, <1>12, <1>13,
       <1>14, <1>15 DEF WorkerStep, Rest, GiveUp, ObserveReport, OpenFailure
  <1>16. CASE Crash
    BY <1>7, <1>16 DEF Crash
  <1> QED
    BY <1>2, <1>15, <1>16, CoreFrame, NodeFrame
       DEF Next, vars, ApproveStep, ApproveRead, ApproveSave

JournalMoves(o) ==
    \/ journal'[o] = journal[o]
    \/ /\ worker.order = o
       /\ \/ /\ worker.at = "located"
             /\ taken' = taken \cup ({o} \ {worker.found})
             /\ journal'[o] = [worker.copy EXCEPT
                                 !.channel = <<worker.found, "final">>,
                                 !.outpoint = worker.found]
          \/ /\ worker.at = "claimed" /\ worker'.at = "saved"
             /\ journal'[o] = [worker.copy EXCEPT !.attempted = TRUE,
                                 !.funding = Funding[o], !.baseline = worker.known]
          \/ worker.at \in {"answered", "refused"} /\ journal'[o] = worker.copy
    \/ /\ approving # None /\ approving.order = o
       /\ journal'[o] = [approving.copy EXCEPT !.approved = TRUE]

LEMMA JournalMove1 ==
    ASSUME Inv, [Next]_vars, NEW o \in Orders PROVE JournalMoves(o)
  <1>1. /\ journal \in [Orders -> Journals] /\ worker \in Workers
        /\ worker.at \in Holding => worker.order \in Orders
        /\ approving # None => approving.order \in Orders
    BY DEF Inv, IInv, Types, TypeOK
  <1>2. CASE journal' = journal
    BY <1>2 DEF JournalMoves
  <1>3. CASE ObserveSave
    BY <1>1, <1>3 DEF ObserveSave, JournalMoves
  <1>4. CASE OpenSave
    <2> DEFINE attempt == [worker.copy EXCEPT !.attempted = TRUE,
                              !.funding = Funding[worker.order],
                              !.baseline = worker.known]
    <2>1. /\ worker.at = "claimed"
          /\ journal' = [journal EXCEPT ![worker.order] = attempt]
          /\ worker' = [worker EXCEPT !.at = "saved", !.copy = attempt]
      BY <1>4 DEF OpenSave
    <2>2. worker'.at = "saved"
      <3> HIDE DEF attempt
      <3> QED
        BY <1>1, <2>1 DEF Workers
    <2> QED
      BY <1>1, <2>1, <2>2 DEF JournalMoves
  <1>5. CASE OpenResult
    BY <1>1, <1>5 DEF OpenResult, JournalMoves
  <1>6. CASE ApproveSave
    BY <1>1, <1>6 DEF ApproveSave, JournalMoves
  <1>7. CASE Crash
    BY <1>2, <1>7 DEF Crash
  <1>8. CASE ApproveStep
    BY <1>2, <1>6, <1>8 DEF ApproveStep, ApproveRead
  <1> QED
    BY <1>2, <1>3, <1>4, <1>5, <1>7, <1>8, AnyStep, LooksFrame, CoreFrame,
       NodeFrame, WorkFrame DEF vars

LEMMA TakenGrows == ASSUME [Next]_vars PROVE taken \subseteq taken'
  <1>1. CASE ObserveSave
    BY <1>1 DEF ObserveSave
  <1> QED
    BY <1>1, AnyStep, LooksFrame, CoreFrame, NodeFrame, WorkFrame, ApproveFrame
       DEF vars

\* What the worker holds comes from the journal, and stays until it lets go.
HeldMoves ==
    worker'.at \in Holding =>
       \/ /\ worker.at = "observing" /\ worker'.at = "located"
          /\ worker'.order \in worker.todo
          /\ worker'.copy = journal[worker'.order]
          /\ worker'.found \in Located(worker'.order, journal[worker'.order])
       \/ /\ worker.at = "working" /\ worker'.at = "read"
          /\ worker'.order \in Orders /\ worker'.copy = journal[worker'.order]
       \/ /\ worker.at \in Holding /\ worker'.order = worker.order
          /\ worker'.at \in Observing => worker.at \in Observing
          /\ worker'.found = worker.found
          /\ \/ /\ worker'.copy = worker.copy
                /\ worker'.at = "saved" => worker.at = "saved"
             \/ /\ worker.at = "claimed" /\ worker'.at = "saved"
                /\ worker'.copy = [worker.copy EXCEPT !.attempted = TRUE,
                                      !.funding = Funding[worker.order],
                                      !.baseline = worker.known]
                /\ journal' = [journal EXCEPT ![worker.order] = worker'.copy]
             \/ /\ worker.at = "saved" /\ worker'.at = "answered"
                /\ worker'.copy = [worker.copy EXCEPT
                                      !.channel = <<worker.order, "temporary">>]

LEMMA HeldMove1 == ASSUME Inv, [Next]_vars PROVE HeldMoves
  <1> USE DEF HeldMoves, Holding, Observing
  <1>1. /\ worker \in Workers
        /\ worker.at \in Holding => worker.order \in Orders
    BY DEF Inv, IInv, Types, TypeOK
  <1>2. CASE worker' = worker
    BY <1>2
  <1>3. CASE worker'.at \notin Holding
    BY <1>3
  <1>4. CASE Tick
    BY <1>4 DEF Tick, Idle
  <1>5. ASSUME NEW o \in Orders, ObserveRead(o) PROVE HeldMoves
    <2> DEFINE L == Located(o, journal[o])
    <2>0. Cardinality(L) = 1 => L # {}
      BY FS_EmptySet
    <2>1. \/ /\ worker' = [worker EXCEPT !.at = "located", !.order = o,
                              !.copy = journal[o],
                              !.found = CHOOSE c \in L : TRUE]
             /\ L # {}
          \/ worker' = [worker EXCEPT !.todo = @ \ {o}]
      BY <1>5, <2>0 DEF ObserveRead
    <2>2. L # {} => (CHOOSE c \in L : TRUE) \in L
      OBVIOUS
    <2>3. worker.at = "observing" /\ o \in worker.todo
      BY <1>5 DEF ObserveRead
    <2> HIDE DEF L
    <2>4. CASE worker' = [worker EXCEPT !.todo = @ \ {o}]
      BY <1>1, <2>3, <2>4 DEF Workers
    <2>5. CASE worker' # [worker EXCEPT !.todo = @ \ {o}]
      BY ZenonT(30), <1>1, <2>1, <2>2, <2>3, <2>5 DEF Workers, L
    <2> QED
      BY <2>4, <2>5
  <1>6. CASE ObserveSave
    BY <1>1, <1>6 DEF ObserveSave, Workers
  <1>7. CASE Heartbeat
    <2> DEFINE todo == {o \in Orders : worker.listed[o] \in Wanted}
    <2>1. \/ worker' = [worker EXCEPT !.at = "working", !.todo = todo]
          \/ worker' = Idle
      BY <1>7 DEF Heartbeat
    <2> HIDE DEF todo
    <2> QED
      BY <1>1, <1>3, <2>1, IdleType DEF Workers
  <1>8. ASSUME NEW o \in Orders, SendQuote(o) \/ OpenRead(o) PROVE HeldMoves
    BY ZenonT(30), <1>1, <1>8 DEF SendQuote, OpenRead, Workers
  <1>9. CASE OpenCheck
    <2> DEFINE ids == {Id(c) : c \in Listed}
    <2>1. /\ worker.at = "read"
          /\ \/ worker' = [worker EXCEPT !.at = "checked", !.known = ids]
             \/ worker' = Onward("working")
      BY <1>9 DEF OpenCheck
    <2> HIDE DEF ids
    <2> QED
      BY <1>1, <1>3, <2>1, OnwardType DEF Workers, Inv
  <1>10. CASE OpenClaim
    BY <1>1, <1>3, <1>10, OnwardType DEF OpenClaim, Workers, Inv
  <1>11. CASE OpenSave
    <2> DEFINE attempt == [worker.copy EXCEPT !.attempted = TRUE,
                              !.funding = Funding[worker.order],
                              !.baseline = worker.known]
    <2>1. /\ worker.at = "claimed"
          /\ journal' = [journal EXCEPT ![worker.order] = attempt]
          /\ worker' = [worker EXCEPT !.at = "saved", !.copy = attempt]
      BY <1>11 DEF OpenSave
    <2>2. /\ worker'.at = "saved" /\ worker'.copy = attempt
          /\ worker'.order = worker.order /\ worker'.found = worker.found
      <3> HIDE DEF attempt
      <3> QED
        BY <1>1, <2>1 DEF Workers
    <2> QED
      BY <2>1, <2>2
  <1>12. CASE OpenCall
    <2> DEFINE copy == [worker.copy EXCEPT
                           !.channel = <<worker.order, "temporary">>]
    <2>1. /\ worker.at = "saved"
          /\ \/ worker' = [worker EXCEPT !.at = "answered", !.copy = copy]
             \/ worker' = [worker EXCEPT !.at = "refused"]
      BY <1>12 DEF OpenCall
    <2>2. /\ worker'.order = worker.order /\ worker'.found = worker.found
          /\ \/ worker'.at = "answered" /\ worker'.copy = copy
             \/ worker'.at = "refused" /\ worker'.copy = worker.copy
      <3> HIDE DEF copy
      <3> QED
        BY <1>1, <2>1 DEF Workers
    <2> QED
      BY <2>1, <2>2
  <1>13. CASE OpenResult
    BY <1>1, <1>3, <1>13, OnwardType DEF OpenResult, Workers, Inv
  <1>14. CASE \/ worker' = Onward("working") \/ worker' = Onward("observing")
              \/ worker' = Idle
    BY <1>3, <1>14, OnwardType, IdleType DEF Inv
  <1>15. ASSUME WorkerStep PROVE HeldMoves
    BY <1>4, <1>5, <1>6, <1>7, <1>8, <1>9, <1>10, <1>11, <1>12, <1>13, <1>14,
       <1>15 DEF WorkerStep, Rest, GiveUp, ObserveReport, OpenFailure
  <1>16. CASE Crash
    BY <1>14, <1>16 DEF Crash
  <1> QED
    BY <1>2, <1>15, <1>16, CoreFrame, NodeFrame
       DEF Next, vars, ApproveStep, ApproveRead, ApproveSave

ApprovingMoves ==
    \/ approving' = approving
    \/ approving' = None
    \/ \E o \in Approvals : approving' = [order |-> o, copy |-> journal[o]]
                           /\ o \in Orders

LEMMA ApprovingMove1 == ASSUME Inv, [Next]_vars PROVE ApprovingMoves
  <1>1. Approvals \subseteq Orders
    BY ConnectorAssumption DEF Approvals, Inv
  <1>2. CASE ApproveStep
    BY <1>1, <1>2 DEF ApproveStep, ApproveRead, ApproveSave, ApprovingMoves
  <1>3. CASE approving' = approving
    BY <1>3 DEF ApprovingMoves
  <1> QED
    BY <1>2, <1>3, AnyStep, LooksFrame, CoreFrame, NodeFrame, WorkFrame
       DEF vars, Crash

----------------------------------------------------------------------------
(***************************************************************************)
(* Whose channel it is.                                                    *)
(***************************************************************************)
\* An order that does not exist has no channel on record.
BoundOwn == \A o \in Orders : /\ bound[o] \in {None} \cup Passable(o)
                              /\ core[o] = "none" => bound[o] = None
OneActive ==
    \A o, q \in Orders :
        Active(o) /\ Active(q) /\ Peer[o] = Peer[q] => o = q
\* Another order's channel with the merchant of an order in the way is older
\* than the order, or astray.
OlderFirst ==
    \A o, c \in Orders :
        /\ Active(o) /\ Peer[c] = Peer[o] /\ c # o /\ channel[c] # "absent"
        => c \in older[o] \cup Stray
Backed ==
    /\ \A o \in Orders : core[o] \in {"delivered", "paid"} => bound[o] # None
    /\ \A c \in settled : channel[c] \in {"closing", "gone"}
\* Between the claim and the call only a stray channel can take the order on.
ClaimedOpen ==
    worker.at \in {"claimed", "saved"} =>
       /\ core[worker.order] = "opened" \/ worker.order \in Stray
       /\ core[worker.order] = "released" => bound[worker.order] \in settled
TodoClaimed ==
    worker.at \in Watching =>
        \A o \in worker.todo : core[o] = "opened" \/ bound[o] # None

\* A journal entry j of an order o in the state s names only channels of P,
\* and, of an order not in T, only its own.
Own(j, o, P, T, s) ==
    /\ j.outpoint \in {None} \cup P
    /\ j.channel \in {None} \cup (P \X {"temporary", "final"})
    /\ o \notin T => /\ j.outpoint \in {None, o}
                     /\ j.channel \in {None, <<o, "temporary">>, <<o, "final">>}
    /\ s = "none" => j.outpoint = None /\ j.channel = None
JournalOwn ==
    \A o \in Orders : Own(journal[o], o, Passable(o), taken, core[o])
CopyOwn == \A o \in Orders : worker.at \in Holding /\ worker.order = o =>
    Own(worker.copy, o, Passable(o), taken, core[o])
FoundOwn == \A o \in Orders : worker.at \in Observing /\ worker.order = o =>
    worker.found \in Passable(o) /\ core[o] # "none"
ApprovingOwn == \A o \in Orders : approving # None /\ approving.order = o =>
    Own(approving.copy, o, Passable(o), taken, core[o])

Traced == /\ BoundOwn /\ OneActive /\ OlderFirst /\ Backed /\ ClaimedOpen
          /\ TodoClaimed /\ JournalOwn /\ CopyOwn /\ FoundOwn /\ ApprovingOwn
          /\ UncertainStaysReserved

LEMMA InitTraced == Init => Traced
  BY DEF Init, Traced, BoundOwn, OneActive, Active, OlderFirst, Backed,
         ClaimedOpen, TodoClaimed, JournalOwn, CopyOwn, FoundOwn, ApprovingOwn,
         Own, Idle, NoJournal, Watching, Holding, Observing,
         UncertainStaysReserved

\* What passes for a channel of an order goes on doing so.
LEMMA PassableGrows ==
    ASSUME Inv, [Next]_vars, NEW o \in Orders
    PROVE  /\ Stray \subseteq Stray'
           /\ core'[o] = "none" => core[o] = "none"
           /\ core[o] # "none" => Passable(o) \subseteq Passable(o)'
  <1>1. \A c \in Channels : ChannelMoves(c) /\ channel[c] \in ChannelStates
    BY ChannelMove1 DEF Inv, IInv, Types, TypeOK
  <1>2. \A c \in Channels : channel[c] # "absent" => channel'[c] # "absent"
    BY <1>1 DEF ChannelMoves
  <1>3. \A q \in Orders : BoundMoves(q)
    BY BoundMove1
  <1>4. Stray \subseteq Stray'
    <2>1. \A q \in Orders : bound[q] \notin {None, q} => bound'[q] = bound[q]
      BY <1>3 DEF BoundMoves
    <2>2. Foreign \subseteq Channels
      BY DEF Channels
    <2> QED
      BY <1>2, <2>1, <2>2 DEF Stray
  <1>5. setting' = setting
    BY DEF Next, vars
  <1>6. CoreMoves(o)
    BY CoreMove1
  <1>7. core'[o] = "none" => core[o] = "none"
    BY <1>6, ConnectorAssumption
       DEF CoreMoves, Request, Unclaimed, Inv, IInv, Types, TypeOK
  <1>8. core[o] # "none" => older'[o] = older[o]
    BY <1>6 DEF CoreMoves, Request
  <1> QED
    BY <1>4, <1>5, <1>7, <1>8 DEF Passable, Peer

\* A newer channel with the merchant of an order in the way passes for its own.
LEMMA NewerPasses ==
    ASSUME Inv, Traced, NEW o \in Orders, Active(o), NEW c \in Channels,
           channel[c] # "absent", Peer[c] = Peer[o], c \notin older[o]
    PROVE  c \in Passable(o)
  <1>1. CASE c \in Foreign
    <2>1. c \notin Orders
      BY <1>1, ConnectorAssumption
    <2> QED
      BY <1>1, <2>1 DEF Stray, Passable
  <1>2. CASE c \in Orders
    BY <1>2 DEF Traced, OlderFirst, Passable
  <1> QED
    BY <1>1, <1>2 DEF Channels

\* The channels a worker locates for an order it has claimed pass for its own.
LEMMA LocatedOwn ==
    ASSUME Inv, Traced, NEW o \in Orders, core[o] = "opened" \/ bound[o] # None
    PROVE  Located(o, journal[o]) \subseteq Passable(o)
  <1> SUFFICES ASSUME NEW c \in Located(o, journal[o]) PROVE c \in Passable(o)
    OBVIOUS
  <1>1. /\ c \in Channels /\ channel[c] # "absent" /\ Peer[c] = Peer[o]
        /\ \/ bound[o] # None /\ c = bound[o]
           \/ bound[o] = None /\ Id(c) = journal[o].channel
           \/ bound[o] = None /\ c \notin older[o]
    BY DEF Located, Listed
  <1>2. Id(c) = journal[o].channel => c \in Passable(o)
    <2>1. Id(c) \in {<<c, "temporary">>, <<c, "final">>} /\ Id(c) # None
      BY <1>1, ConnectorAssumption DEF Id, Channels
    <2>2. journal[o].channel \in {None} \cup (Passable(o) \X {"temporary", "final"})
      BY DEF Traced, JournalOwn, Own
    <2> QED
      BY <2>1, <2>2
  <1>3. bound[o] # None => bound[o] \in Passable(o)
    BY DEF Traced, BoundOwn
  <1> QED
    BY <1>1, <1>2, <1>3, NewerPasses DEF Active

LEMMA RecordsTraced ==
    ASSUME Inv, Inv', Traced, [Next]_vars
    PROVE  BoundOwn' /\ Backed' /\ UncertainStaysReserved' /\ ClaimedOpen'
  <1>1. \A o \in Orders : CoreMoves(o) /\ BoundMoves(o)
    BY CoreMove1, BoundMove1
  <1>2. ASSUME NEW o \in Orders
        PROVE  /\ bound'[o] \in {None} \cup Passable(o)'
               /\ core'[o] = "none" => bound'[o] = None
    <2>1. /\ bound[o] \in {None} \cup Passable(o)
          /\ core[o] = "none" => bound[o] = None
          /\ core'[o] = "none" => core[o] = "none"
          /\ core[o] # "none" => Passable(o) \subseteq Passable(o)'
      BY PassableGrows DEF Traced, BoundOwn
    <2>2. CASE bound'[o] = bound[o]
      BY <2>1, <2>2
    <2>3. ASSUME NEW c \in Channels, bound[o] \in {None, c}, bound'[o] = c,
                 Reported(o, c)
          PROVE  c \in Passable(o) /\ core[o] # "none"
      <3>1. CASE worker.at = "reporting" /\ worker.order = o /\ worker.found = c
        BY <3>1 DEF Traced, FoundOwn, Observing
      <3>2. CASE /\ channel[c] # "absent" /\ Peer[c] = Peer[o] /\ c \notin older[o]
                 /\ core[o] \in {"opened", "delivered", "paid"}
        <4>1. CASE core[o] = "opened"
          BY <3>2, <4>1, NewerPasses DEF Active
        <4>2. CASE core[o] # "opened"
          <5>1. bound[o] # None
            BY <3>2, <4>2 DEF Traced, Backed
          <5> QED
            BY <2>1, <2>3, <3>2, <5>1
        <4> QED
          BY <4>1, <4>2
      <3> QED
        BY <2>3, <3>1, <3>2 DEF Reported
    <2> QED
      BY <1>1, <2>1, <2>2, <2>3 DEF BoundMoves
  <1>3. BoundOwn'
    BY <1>2 DEF BoundOwn
  <1>4. ASSUME NEW c \in Channels, c \in settled'
        PROVE  channel'[c] \in {"closing", "gone"}
    <2>0. ChannelMoves(c)
      BY ChannelMove1
    <2>1. c \in settled => channel[c] \in {"closing", "gone"}
      BY DEF Traced, Backed
    <2>2. c \in Orders /\ worker.at = "saved" /\ worker.order = c
             => channel[c] = "absent"
      BY DEF Inv, IInv, ClaimedUnopened, OpenedOnce
    <2> QED
      BY <1>4, <2>0, <2>1, <2>2 DEF ChannelMoves
  <1>5. ASSUME NEW o \in Orders, core'[o] \in {"delivered", "paid"}
        PROVE  bound'[o] # None
    <2>1. bound[o] # None => bound'[o] = bound[o]
      BY <1>1 DEF BoundMoves
    <2>2. core[o] \in {"delivered", "paid"} => bound[o] # None
      BY DEF Traced, Backed
    <2> QED
      BY <1>1, <1>5, <2>1, <2>2
         DEF CoreMoves, Request, Unclaimed, Inv, IInv, Types, TypeOK
  <1>6. Backed'
    BY <1>4, <1>5 DEF Backed, Inv, IInv, Types, TypeOK
  <1>7. None \notin settled /\ settled \subseteq Channels /\ None \notin settled'
    BY ConnectorAssumption DEF Inv, IInv, Types, TypeOK, Channels
  <1>8. \A c \in settled : c \in settled'
    BY <1>7, ChannelMove1 DEF ChannelMoves
  <1>9. ASSUME NEW o \in Orders, core[o] = "released" => bound[o] \in settled,
               core'[o] = "released", core[o] \notin {"none"} \cup Unclaimed
        PROVE  bound'[o] \in settled'
    <2>1. bound[o] # None => bound'[o] = bound[o]
      BY <1>1 DEF BoundMoves
    <2>2. core[o] = "released" \/ bound'[o] \in settled
      BY <1>1, <1>9 DEF CoreMoves, Request
    <2> QED
      BY <1>7, <1>8, <1>9, <2>1, <2>2
  <1>10. ASSUME NEW o \in Orders, calls'[o] > 0, core'[o] = "released"
         PROVE  bound'[o] \in settled' \cap Passable(o)'
    <2>1. ChannelMoves(o)
      BY ChannelMove1 DEF Channels
    <2>2. calls[o] \in Nat /\ calls'[o] \in Nat
      BY DEF Inv, IInv, Types, TypeOK
    <2>3. bound'[o] \in settled'
      <3>1. CASE calls'[o] = calls[o]
        <4>1. core[o] \notin {"none"} \cup Unclaimed
          BY <1>10, <2>2, <3>1 DEF Inv, IInv, OpenedOnce
        <4>2. core[o] = "released" => bound[o] \in settled
          BY <1>10, <3>1 DEF Traced, UncertainStaysReserved
        <4> QED
          BY <1>9, <1>10, <4>1, <4>2
      <3>2. CASE worker.at = "saved" /\ worker.order = o
        <4>1. core[o] \notin {"none"} \cup Unclaimed
          BY <3>2 DEF Inv, IInv, ClaimedUnopened
        <4>2. core[o] = "released" => bound[o] \in settled
          BY <3>2 DEF Traced, ClaimedOpen
        <4> QED
          BY <1>9, <1>10, <4>1, <4>2
      <3> QED
        BY <2>1, <3>1, <3>2 DEF ChannelMoves
    <2> QED
      BY <1>2, <1>7, <2>3
  <1>11. UncertainStaysReserved'
    BY <1>10 DEF UncertainStaysReserved
  <1>12. ClaimedOpen'
    <2> SUFFICES ASSUME worker'.at \in {"claimed", "saved"}
                 PROVE  /\ core'[worker'.order] = "opened"
                              \/ worker'.order \in Stray'
                        /\ core'[worker'.order] = "released"
                              => bound'[worker'.order] \in settled'
      BY DEF ClaimedOpen
    <2>1. PICK o : o = worker.order
      OBVIOUS
    <2>2. worker'.order = o
          /\ (worker.at \in {"claimed", "saved"} \/ core'[o] = "opened")
      BY <2>1, WorkerMove1 DEF WorkerMoves
    <2>3. CASE worker.at \in {"claimed", "saved"}
      <3>1. /\ o \in Orders /\ calls[o] = 0
            /\ core[o] \notin {"none"} \cup Unclaimed
            /\ core[o] = "opened" \/ o \in Stray
            /\ core[o] = "released" => bound[o] \in settled
        BY <2>1, <2>3 DEF Traced, ClaimedOpen, Inv, IInv, Types, Holding,
                          ClaimedUnopened
      <3>2. channel[o] = "absent" /\ o \notin settled
        BY <3>1 DEF Inv, IInv, OpenedOnce, Traced, Backed
      <3>3. core'[o] = "released" => bound'[o] \in settled'
        BY <1>9, <3>1
      <3>4. CASE o \in Stray
        <4>1. o \in Stray'
          BY <3>1, <3>4, PassableGrows
        <4> QED
          BY <2>2, <3>3, <4>1
      <3>5. CASE core[o] = "opened" /\ core'[o] = "opened"
        BY <2>2, <3>3, <3>5
      <3>6. CASE core[o] = "opened" /\ core'[o] # "opened"
        <4>1. \/ bound'[o] \in settled
              \/ bound'[o] # None /\ channel[bound'[o]] = "ready"
          BY <1>1, <3>1, <3>6 DEF CoreMoves, Request, Unclaimed
        <4>2. bound'[o] \notin {None, o}
          BY <1>7, <3>2, <4>1
        <4>3. PICK c : c \in Stray'
          BY <1>2, <3>1, <4>2 DEF Passable
        <4>4. o \in Stray'
          BY <3>1, <4>2, <4>3 DEF Stray, Channels
        <4> QED
          BY <2>2, <3>3, <4>4
      <3> QED
        BY <3>1, <3>4, <3>5, <3>6
    <2> QED
      BY <2>2, <2>3
  <1> QED
    BY <1>3, <1>6, <1>11, <1>12

LEMMA PeersTraced ==
    ASSUME Inv, Traced, [Next]_vars, setting' = setting
    PROVE  OneActive' /\ OlderFirst'
  <1>1. \A o \in Orders : CoreMoves(o) /\ ChannelMoves(o)
    BY CoreMove1, ChannelMove1 DEF Channels
  <1>2. ASSUME NEW o \in Orders, Active(o)', ~Request(o) PROVE Active(o)
    BY <1>1, <1>2 DEF CoreMoves, Active, Unclaimed
  <1>3. ASSUME NEW o \in Orders, Request(o)
        PROVE  /\ channel' = channel
               /\ \A c \in Orders : channel[c] # "absent" => c \in older'[o]
               /\ \A q \in Orders \ {o} : Active(q)' => /\ Active(q)
                                                      /\ Peer[q] # Peer[o]
    <2>1. PICK recent \in SUBSET {c \in Outside : channel[c] = "temporary"} :
             older' = [older EXCEPT ![o] =
                          {c \in Channels : channel[c] # "absent"} \ recent]
      BY <1>3 DEF Request
    <2>2. recent \cap Orders = {}
      BY ConnectorAssumption DEF Outside, Inv
    <2>3. \A c \in Orders : channel[c] # "absent" => c \in older'[o]
      BY <2>1, <2>2 DEF Channels, Inv, IInv, Types
    <2>4. channel' = channel
      BY <1>3 DEF Request, world
    <2> QED
      BY <1>3, <2>3, <2>4 DEF Request, Active, Inv, IInv, Types, TypeOK
  <1>4. ASSUME NEW o \in Orders, NEW q \in Orders, Active(o)', Active(q)',
               Peer[o] = Peer[q]
        PROVE  o = q
    BY <1>2, <1>3, <1>4 DEF Traced, OneActive
  <1>5. ASSUME NEW o \in Orders, NEW c \in Orders, Active(o)', c # o,
               Peer[c] = Peer[o], channel'[c] # "absent"
        PROVE  c \in older'[o] \cup Stray'
    <2>0. Stray \subseteq Stray'
      BY PassableGrows
    <2>1. CASE Request(o)
      BY <1>3, <1>5, <2>1
    <2>2. CASE ~Request(o)
      <3>1. Active(o) /\ older'[o] = older[o]
        BY <1>1, <1>2, <1>5, <2>2 DEF CoreMoves
      <3>2. CASE channel[c] # "absent"
        BY <1>5, <2>0, <3>1, <3>2 DEF Traced, OlderFirst
      <3>3. CASE channel[c] = "absent"
        <4>1. worker.at = "saved" /\ worker.order = c
          BY <1>1, <1>5, <3>3, ConnectorAssumption DEF ChannelMoves
        <4>2. core[c] = "opened" \/ c \in Stray
          BY <4>1 DEF Traced, ClaimedOpen
        <4> QED
          BY <1>5, <2>0, <3>1, <4>2 DEF Traced, OneActive, Active
      <3> QED
        BY <3>2, <3>3
    <2> QED
      BY <2>1, <2>2
  <1> QED
    BY <1>4, <1>5 DEF OneActive, OlderFirst, Peer

LEMMA TodoTraced == ASSUME Inv, Inv', Traced, [Next]_vars PROVE TodoClaimed'
  <1> SUFFICES ASSUME worker'.at \in Watching, NEW o \in worker'.todo
               PROVE  core'[o] = "opened" \/ bound'[o] # None
    BY DEF TodoClaimed
  <1>1. o \in Orders
    BY DEF Inv, IInv, Types, Workers
  <1>2. CoreMoves(o) /\ BoundMoves(o)
    BY <1>1, CoreMove1, BoundMove1
  <1>3. bound[o] # None => bound'[o] # None
    BY <1>2 DEF BoundMoves
  <1>4. core[o] \in {"opened", "delivered", "paid"} \/ bound[o] # None
    BY WorkerMove1 DEF WorkerMoves, Traced, TodoClaimed
  <1>5. core[o] \in {"delivered", "paid"} => bound[o] # None
    BY <1>1 DEF Traced, Backed
  <1>6. None \notin settled
    BY ConnectorAssumption DEF Inv, IInv, Types, TypeOK, Channels
  <1> QED
    BY <1>2, <1>3, <1>4, <1>5, <1>6 DEF CoreMoves, Request, Unclaimed

\* Own is kept by what grows, by a copy, by the channel found and by the call.
LEMMA OwnGrows ==
    ASSUME NEW j, NEW o, NEW P, NEW T, NEW s, NEW Q, NEW U, NEW t,
           Own(j, o, P, T, s), s # "none" => P \subseteq Q, T \subseteq U,
           t = "none" => s = "none"
    PROVE  Own(j, o, Q, U, t)
  BY DEF Own

LEMMA OwnLike ==
    ASSUME NEW j, NEW k, NEW o, NEW P, NEW T, NEW s, Own(j, o, P, T, s),
           k.channel = j.channel, k.outpoint = j.outpoint
    PROVE  Own(k, o, P, T, s)
  BY DEF Own

LEMMA OwnFound ==
    ASSUME NEW k, NEW o, NEW P, NEW T, NEW s, NEW c \in P, o \notin T => c = o,
           s # "none", k.channel = <<c, "final">>, k.outpoint = c
    PROVE  Own(k, o, P, T, s)
  BY DEF Own

LEMMA OwnAsked ==
    ASSUME NEW j, NEW k, NEW o, NEW P, NEW T, NEW s, Own(j, o, P, T, s),
           o \in P, s # "none",
           k.channel = <<o, "temporary">>, k.outpoint = j.outpoint
    PROVE  Own(k, o, P, T, s)
  BY DEF Own

LEMMA OwnKept ==
    ASSUME Inv, [Next]_vars, NEW o \in Orders, NEW j,
           Own(j, o, Passable(o), taken, core[o])
    PROVE  Own(j, o, Passable(o)', taken', core'[o])
  BY PassableGrows, TakenGrows, OwnGrows

LEMMA JournalTraced == ASSUME Inv, Inv', Traced, [Next]_vars PROVE JournalOwn'
  <1> SUFFICES ASSUME NEW o \in Orders
               PROVE  Own(journal'[o], o, Passable(o)', taken', core'[o])
    BY DEF JournalOwn
  <1>1. Own(journal[o], o, Passable(o), taken, core[o]) /\ JournalMoves(o)
    BY JournalMove1 DEF Traced, JournalOwn
  <1>2. CASE journal'[o] = journal[o]
    BY <1>1, <1>2, OwnKept
  <1>3. CASE /\ approving # None /\ approving.order = o
             /\ journal'[o] = [approving.copy EXCEPT !.approved = TRUE]
    <2>1. Own(approving.copy, o, Passable(o), taken, core[o])
      BY <1>3 DEF Traced, ApprovingOwn
    <2>2. /\ journal'[o].channel = approving.copy.channel
          /\ journal'[o].outpoint = approving.copy.outpoint
      BY <1>3 DEF Inv, IInv, Types, Journals
    <2> QED
      BY <2>1, <2>2, OwnLike, OwnKept
  <1>4. ASSUME worker.order = o, worker.at \in Holding
        PROVE  /\ worker.copy \in Journals
               /\ Own(worker.copy, o, Passable(o)', taken', core'[o])
    BY <1>4, OwnKept DEF Traced, CopyOwn, Inv, IInv, Types, TypeOK
  <1>5. CASE /\ worker.at = "located" /\ worker.order = o
             /\ taken' = taken \cup ({o} \ {worker.found})
             /\ journal'[o] = [worker.copy EXCEPT
                                 !.channel = <<worker.found, "final">>,
                                 !.outpoint = worker.found]
    <2>1. /\ worker.found \in Passable(o) /\ core[o] # "none"
      BY <1>5 DEF Traced, FoundOwn, Observing
    <2>2. worker.found \in Passable(o)' /\ core'[o] # "none"
      BY <2>1, PassableGrows
    <2>3. o \notin taken' => worker.found = o
      BY <1>5
    <2>4. /\ journal'[o].channel = <<worker.found, "final">>
          /\ journal'[o].outpoint = worker.found
      BY <1>4, <1>5 DEF Journals, Holding
    <2> QED
      BY <2>2, <2>3, <2>4, OwnFound
  <1>6. CASE /\ worker.at \in {"claimed", "answered", "refused"}
             /\ worker.order = o
             /\ \/ journal'[o] = [worker.copy EXCEPT !.attempted = TRUE,
                                     !.funding = Funding[o],
                                     !.baseline = worker.known]
                \/ journal'[o] = worker.copy
    <2>1. /\ journal'[o].channel = worker.copy.channel
          /\ journal'[o].outpoint = worker.copy.outpoint
      BY <1>4, <1>6 DEF Journals, Holding
    <2> QED
      BY <1>4, <1>6, <2>1, OwnLike DEF Holding
  <1> QED
    BY <1>1, <1>2, <1>3, <1>5, <1>6 DEF JournalMoves

LEMMA ApprovingTraced == ASSUME Inv, Inv', Traced, [Next]_vars PROVE ApprovingOwn'
  <1> SUFFICES ASSUME NEW o \in Orders, approving' # None, approving'.order = o
               PROVE  Own(approving'.copy, o, Passable(o)', taken', core'[o])
    BY DEF ApprovingOwn
  <1>1. Own(approving'.copy, o, Passable(o), taken, core[o])
    BY ApprovingMove1 DEF ApprovingMoves, Traced, ApprovingOwn, JournalOwn
  <1> QED
    BY <1>1, OwnKept

LEMMA HeldTraced ==
    ASSUME Inv, Inv', Traced, [Next]_vars PROVE CopyOwn' /\ FoundOwn'
  <1>1. SUFFICES ASSUME NEW o \in Orders, worker'.at \in Holding,
                        worker'.order = o
                 PROVE  /\ Own(worker'.copy, o, Passable(o)', taken', core'[o])
                        /\ worker'.at \in Observing =>
                              worker'.found \in Passable(o)' /\ core'[o] # "none"
    BY DEF CopyOwn, FoundOwn, Holding, Observing
  <1>2. o = worker'.order
    BY <1>1
  <1>3. o \in Orders
    OBVIOUS
  <1>4. Own(journal[o], o, Passable(o), taken, core[o])
    BY <1>3 DEF Traced, JournalOwn
  <1>5. CASE /\ worker.at = "observing" /\ worker'.at = "located"
             /\ o \in worker.todo /\ worker'.copy = journal[o]
             /\ worker'.found \in Located(o, journal[o])
    <2>1. core[o] = "opened" \/ bound[o] # None
      BY <1>5 DEF Traced, TodoClaimed, Watching
    <2>2. core[o] # "none" /\ worker'.found \in Passable(o)
      BY <1>3, <1>5, <2>1, LocatedOwn DEF Traced, BoundOwn
    <2>3. core'[o] # "none" /\ worker'.found \in Passable(o)'
      BY <1>3, <2>2, PassableGrows
    <2> QED
      BY <1>4, <1>5, <2>3, OwnKept
  <1>6. CASE worker'.at = "read" /\ worker'.copy = journal[o]
    BY <1>4, <1>6, OwnKept DEF Observing
  <1>7. CASE /\ worker.at \in Holding /\ o = worker.order
             /\ worker'.at \in Observing => worker.at \in Observing
             /\ worker'.found = worker.found
    <2>1. /\ Own(worker.copy, o, Passable(o)', taken', core'[o])
          /\ worker.copy \in Journals
      BY <1>3, <1>7, OwnKept DEF Traced, CopyOwn, Inv, IInv, Types, TypeOK
    <2>2. worker'.at \in Observing =>
             worker'.found \in Passable(o)' /\ core'[o] # "none"
      BY <1>3, <1>7, PassableGrows DEF Traced, FoundOwn
    <2>3. CASE \/ worker'.copy = worker.copy
               \/ worker'.copy = [worker.copy EXCEPT !.attempted = TRUE,
                                     !.funding = Funding[worker.order],
                                     !.baseline = worker.known]
      <3>1. /\ worker'.copy.channel = worker.copy.channel
            /\ worker'.copy.outpoint = worker.copy.outpoint
        BY <2>1, <2>3 DEF Journals
      <3> QED
        BY <2>1, <2>2, <3>1, OwnLike
    <2>4. CASE /\ worker.at = "saved"
               /\ worker'.copy = [worker.copy EXCEPT !.channel = <<o, "temporary">>]
      <3>1. /\ worker'.copy.channel = <<o, "temporary">>
            /\ worker'.copy.outpoint = worker.copy.outpoint
        BY <2>1, <2>4 DEF Journals
      <3>2. core[o] # "none"
        BY <1>7, <2>4 DEF Inv, IInv, ClaimedUnopened
      <3>3. core'[o] # "none" /\ o \in Passable(o)'
        BY <1>3, <3>2, PassableGrows DEF Passable
      <3> QED
        BY <2>1, <2>2, <3>1, <3>3, OwnAsked
    <2> QED
      BY <1>1, <1>2, <1>5, <1>6, <1>7, <2>3, <2>4, HeldMove1 DEF HeldMoves
  <1> QED
    BY <1>1, <1>2, <1>5, <1>6, <1>7, HeldMove1 DEF HeldMoves

Traces == Inv /\ Traced

LEMMA StartTraces == Init => Traces
  BY StartInv, InitTraced DEF Traces

LEMMA NextTraces == ASSUME Traces, [Next]_vars PROVE Traces'
  <1>1. Inv' /\ setting' = setting
    BY NextInv DEF Traces, Next, vars
  <1> QED
    BY <1>1, RecordsTraced, PeersTraced, TodoTraced, JournalTraced,
       ApprovingTraced, HeldTraced DEF Traces, Traced

(***************************************************************************)
(* The channel that the journal and the coordinator have for an order is   *)
(* the one opened for it, though its id changes and the answer to the call *)
(* may be lost; or, once a channel was opened outside LiquidLane, a newer  *)
(* one with the same merchant that is no order's                           *)
(* (execution::locate_channel, apply_capacity_observation).                *)
(***************************************************************************)
THEOREM OwnChannelHolds == Spec => []OwnChannel
  <1>1. Traces => OwnChannel
    BY DEF Traces, Traced, BoundOwn, JournalOwn, Own, OwnChannel
  <1> QED
    BY <1>1, StartTraces, NextTraces, PTL DEF Spec

(***************************************************************************)
(* An opening that the node was asked for keeps its reservation until the  *)
(* funding of the channel that passes for it is settled on the chain,      *)
(* whatever answers and crashes come between (capacity::fail,              *)
(* apply_capacity_observation).                                            *)
(***************************************************************************)
THEOREM UncertainStaysReservedHolds == Spec => []UncertainStaysReserved
  <1>1. Traces => UncertainStaysReserved
    BY DEF Traces, Traced
  <1> QED
    BY <1>1, StartTraces, NextTraces, PTL DEF Spec

----------------------------------------------------------------------------
(***************************************************************************)
(* The local budget, while the worker alone writes the journal, of the     *)
(* orders it took no other channel for.                                    *)
(***************************************************************************)
Kept == Orders \ taken
Open == {o \in Kept : calls[o] > 0 /\ o \notin settled}

\* What was asked of the node is in the journal, and in what the worker holds.
Remembered ==
    /\ approving = None
    /\ \A o \in Orders : /\ calls[o] > 0 => journal[o].attempted
                         /\ journal[o].attempted => journal[o].funding = Funding[o]
    /\ worker.at \in Holding =>
          /\ worker.copy.attempted = journal[worker.order].attempted
          /\ worker.copy.funding = journal[worker.order].funding
    /\ worker.at = "saved" => journal[worker.order].attempted
\* From the check to the call nothing is unresolved, and the order fits.
Room ==
    worker.at \in Checking =>
       /\ \A o \in Kept : ~Unresolved(o)
       /\ SumFunctionOnSet(Funding, Open) + Funding[worker.order] <= MaxTotal
WithinBudget == SumFunctionOnSet(Funding, Open) <= MaxTotal

Limited == /\ Remembered /\ Room /\ WithinBudget /\ OneUnresolved

LEMMA MaxIs ==
    ASSUME NEW S, IsFiniteSet(S), S \subseteq Int, S # {}
    PROVE  Max(S) \in S /\ \A x \in S : Max(S) >= x
  <1> DEFINE Top(T) == \E x \in T : \A y \in T : x >= y
             W == {T \in SUBSET S : T # {} /\ ~Top(T)}
  <1>1. SUFFICES Top(S)
    BY DEF Max
  <1>2. SUFFICES ASSUME W # {} PROVE FALSE
    OBVIOUS
  <1>3. PICK T \in W : \A U \in SUBSET T : U # T => U \notin W
    <2>1. W \subseteq SUBSET S
      OBVIOUS
    <2> HIDE DEF W
    <2> QED
      BY <1>2, <2>1, LeastSet
  <1>4. PICK a \in T : TRUE
    BY <1>3
  <1>5. T \ {a} = {} \/ Top(T \ {a})
    BY <1>3, <1>4
  <1>6. CASE T \ {a} = {}
    BY <1>3, <1>4, <1>6
  <1>7. CASE Top(T \ {a})
    <2>1. PICK b \in T \ {a} : \A y \in T \ {a} : b >= y
      BY <1>7
    <2>2. a \in Int /\ b \in Int /\ \A y \in T : y \in Int
      BY <1>3, <1>4, <2>1
    <2>3. CASE a >= b
      BY <1>3, <1>4, <2>1, <2>2, <2>3
    <2>4. CASE b >= a
      BY <1>3, <1>4, <2>1, <2>2, <2>4
    <2> QED
      BY <2>2, <2>3, <2>4
  <1> QED
    BY <1>5, <1>6, <1>7

\* A listed channel counts for what its own journal entry committed, at least.
LEMMA CountedIs ==
    ASSUME Inv, NEW c \in Channels
    PROVE  /\ Counted(c) \in Nat
           /\ c \in Orders /\ journal[c].attempted /\ Matches(journal[c], c)
                 => journal[c].funding <= Counted(c)
  <1> DEFINE current == IF c \in moved THEN 0 ELSE Funding[c]
             Q == {q \in Orders : journal[q].attempted /\ Matches(journal[q], c)}
             committed == {journal[o].funding : o \in Q}
  <1>1. current \in Nat
    BY ConnectorAssumption DEF Channels
  <1>2. committed \subseteq Nat
    BY DEF Inv, IInv, Types, TypeOK, Journals
  <1>3. IsFiniteSet(committed)
    <2>1. IsFiniteSet(Q)
      BY FS_Subset, ConnectorAssumption
    <2>2. [o \in Q |-> journal[o].funding] \in Surjection(Q, committed)
      BY DEF Surjection
    <2> HIDE DEF Q, committed
    <2> QED
      BY <2>1, <2>2, FS_Surjection
  <1>4. IsFiniteSet({current} \cup committed)
    BY <1>3, FS_AddElement
  <1>5. Counted(c) = Max({current} \cup committed)
    BY DEF Counted
  <1>6. c \in Q => journal[c].funding \in committed
    OBVIOUS
  <1>7. /\ Max({current} \cup committed) \in {current} \cup committed
        /\ \A x \in {current} \cup committed : Max({current} \cup committed) >= x
    <2> DEFINE all == {current} \cup committed
    <2> HIDE DEF current, committed
    <2>1. IsFiniteSet(all) /\ all \subseteq Int /\ all # {}
      BY <1>1, <1>2, <1>4
    <2> HIDE DEF all
    <2>2. Max(all) \in all /\ \A x \in all : Max(all) >= x
      BY <2>1, MaxIs
    <2> QED
      BY <2>2 DEF all
  <1>8. c \in Q <=> c \in Orders /\ journal[c].attempted /\ Matches(journal[c], c)
    OBVIOUS
  <1> HIDE DEF current, committed, Q
  <1>9. Counted(c) \in Nat
    BY <1>1, <1>2, <1>5, <1>7
  <1>10. c \in Q => journal[c].funding <= Counted(c)
    BY <1>2, <1>5, <1>6, <1>7, <1>9
  <1> QED
    BY <1>8, <1>9, <1>10

\* Only its own channel matches an order's journal entry, unless it was given
\* another's.
LEMMA MatchOwn ==
    ASSUME Traces, NEW o \in Kept, NEW c \in Listed, Matches(journal[o], c)
    PROVE  c = o
  <1>1. Id(c) \in {<<c, "temporary">>, <<c, "final">>} /\ Id(c) # None
        /\ c \in Channels /\ c # None
    BY ConnectorAssumption DEF Id, Listed, Channels
  <1>2. /\ journal[o].outpoint \in {None, o}
        /\ journal[o].channel \in {None, <<o, "temporary">>, <<o, "final">>}
    BY DEF Traces, Traced, JournalOwn, Own, Kept
  <1> QED
    BY <1>1, <1>2 DEF Matches

\* The node's list is finite.
LEMMA ListFinite ==
    /\ IsFiniteSet(Channels)
    /\ \A T \in SUBSET Channels : IsFiniteSet(T)
    /\ Kept \subseteq Orders /\ Open \subseteq Kept
  <1>1. IsFiniteSet(Channels)
    BY ConnectorAssumption, FS_Union DEF Channels
  <1> QED
    BY <1>1, FS_Subset DEF Kept, Open

LEMMA ExposureType == ASSUME Inv, NEW S PROVE Exposure(S) \in Int
  <1> DEFINE held == {c \in Listed : ~(HasOutpoint(c) /\ c \in S)}
             pending == {o \in Orders : /\ journal[o].attempted
                                        /\ ~Recovered(journal[o], S)
                                        /\ \A c \in Listed : ~Matches(journal[o], c)}
             counted == [c \in Channels |-> Counted(c)]
             noted == [o \in Orders |-> journal[o].funding]
  <1>1. /\ \A c \in Channels : counted[c] \in Int
        /\ \A o \in Orders : noted[o] \in Int
    BY CountedIs DEF Inv, IInv, Types, TypeOK, Journals
  <1>2. /\ held \subseteq Channels /\ pending \subseteq Orders
        /\ IsFiniteSet(held) /\ IsFiniteSet(pending)
    BY ConnectorAssumption, ListFinite, FS_Subset DEF Listed
  <1>3. Exposure(S) = SumFunctionOnSet(counted, held)
                         + SumFunctionOnSet(noted, pending)
    BY DEF Exposure
  <1> HIDE DEF held, pending, counted, noted
  <1>4. /\ SumFunctionOnSet(counted, held) \in Int
        /\ SumFunctionOnSet(noted, pending) \in Int
    BY <1>1, <1>2, SumType
  <1> QED
    BY <1>3, <1>4

\* What the worker checks its budget against covers everything still open.
LEMMA ExposureCovers ==
    ASSUME Traces, Remembered, NEW S \in SUBSET settled
    PROVE  SumFunctionOnSet(Funding, Open) <= Exposure(S)
  <1> DEFINE held == {c \in Listed : ~(HasOutpoint(c) /\ c \in S)}
             pending == {o \in Orders : /\ journal[o].attempted
                                        /\ ~Recovered(journal[o], S)
                                        /\ \A c \in Listed : ~Matches(journal[o], c)}
             A == {o \in Open : o \in held /\ Matches(journal[o], o)}
             B == Open \ A
             counted == [c \in Channels |-> Counted(c)]
             noted == [o \in Orders |-> journal[o].funding]
             Total(f, T) == SumFunctionOnSet(f, T)
  <1>1. /\ IsFiniteSet(Orders) /\ None \notin Channels
        /\ \A c \in Channels : Funding[c] \in Nat
        /\ settled \subseteq Channels /\ journal \in [Orders -> Journals]
    BY ConnectorAssumption DEF Traces, Inv, IInv, Types, TypeOK, Channels
  <1>2. /\ held \subseteq Channels /\ pending \subseteq Orders
        /\ A \subseteq held /\ A \subseteq Orders /\ B \subseteq Orders
        /\ Open = A \cup B /\ A \cap B = {} /\ Open \subseteq Kept
    BY ListFinite DEF Listed
  <1>3. ASSUME NEW o \in B PROVE o \in pending /\ noted[o] = Funding[o]
    <2>1. o \in Kept /\ o \in Orders /\ journal[o].attempted
          /\ journal[o].funding = Funding[o] /\ o \notin settled
      BY <1>3 DEF Open, Kept, Remembered
    <2>2. journal[o].outpoint \in {None, o}
      BY <2>1 DEF Traces, Traced, JournalOwn, Own, Kept
    <2>3. ~Recovered(journal[o], S)
      BY <1>1, <2>1, <2>2 DEF Recovered
    <2>4. \A c \in Listed : ~Matches(journal[o], c)
      BY <1>1, <1>3, <2>1, MatchOwn DEF HasOutpoint
    <2> QED
      BY <2>1, <2>3, <2>4
  <1>4. ASSUME NEW o \in A PROVE Funding[o] <= counted[o]
    <2>1. /\ o \in Orders /\ journal[o].attempted /\ Matches(journal[o], o)
          /\ journal[o].funding = Funding[o] /\ o \in Channels
      BY <1>4 DEF Open, Kept, Remembered, Channels
    <2> QED
      BY <2>1, CountedIs DEF Traces
  <1>5. /\ \A c \in Channels : counted[c] \in Nat
        /\ \A o \in Orders : /\ counted[o] \in Nat /\ noted[o] \in Nat
                             /\ Funding[o] \in Nat
    BY <1>1, CountedIs DEF Traces, Journals, Channels
  <1>6. Exposure(S) = Total(counted, held) + Total(noted, pending)
    BY DEF Exposure
  <1>7. B \subseteq pending
    BY <1>3
  <1> HIDE DEF held, pending, A, B, counted, noted
  <1>8. /\ \A T \in SUBSET Orders : IsFiniteSet(T)
        /\ IsFiniteSet(held)
    BY <1>2, ListFinite DEF Channels
  <1>9. Total(Funding, Open) = Total(Funding, A) + Total(Funding, B)
    BY <1>2, <1>5, <1>8, SumUnion
  <1>10. Total(Funding, A) <= Total(counted, A)
    BY <1>2, <1>4, <1>5, <1>8, SumLess
  <1>11. Total(counted, A) <= Total(counted, held)
    BY <1>2, <1>5, <1>8, SumPart
  <1>12. Total(Funding, B) = Total(noted, B)
    BY <1>2, <1>3, <1>8, SumSame
  <1>13. Total(noted, B) <= Total(noted, pending)
    BY <1>2, <1>5, <1>7, <1>8, SumPart
  <1>14. /\ Total(Funding, A) \in Int /\ Total(Funding, B) \in Int
         /\ Total(counted, A) \in Int /\ Total(counted, held) \in Int
         /\ Total(noted, B) \in Int /\ Total(noted, pending) \in Int
    BY <1>2, <1>5, <1>8, SumType
  <1> HIDE DEF Total
  <1>15. Total(Funding, Open) <= Total(counted, held) + Total(noted, pending)
    BY <1>9, <1>10, <1>11, <1>12, <1>13, <1>14
  <1> QED
    BY <1>6, <1>15 DEF Total

\* With no opening in progress none is unresolved.
LEMMA NoneInProgress ==
    ASSUME Traces, Remembered, NEW S \in SUBSET settled, ~OpeningInProgress(S)
    PROVE  \A o \in Kept : ~Unresolved(o)
  <1> SUFFICES ASSUME NEW o \in Kept, Unresolved(o) PROVE FALSE
    OBVIOUS
  <1>1. /\ journal[o].attempted
        /\ channel[o] \in {"absent", "temporary", "funded"}
    BY DEF Unresolved, Remembered, Kept
  <1>2. o \notin settled /\ None \notin settled
    BY <1>1, ConnectorAssumption DEF Traces, Traced, Backed, Inv, IInv, Types,
                                     TypeOK, Channels
  <1>3. ~Recovered(journal[o], S)
    BY <1>2 DEF Recovered, Traces, Traced, JournalOwn, Own, Kept
  <1>4. \A c \in Listed : Matches(journal[o], c)
                              => channel[c] \notin {"ready", "closing"}
    BY <1>1, MatchOwn
  <1> QED
    BY <1>1, <1>3, <1>4 DEF OpeningInProgress, Kept

LEMMA InitLimited == Init => Limited
  <1> SUFFICES ASSUME Init PROVE Limited
    OBVIOUS
  <1>1. Remembered
    BY DEF Init, Remembered, Idle, NoJournal, Holding
  <1>2. Room /\ OneUnresolved
    BY DEF Init, Room, Idle, Checking, OneUnresolved, Unresolved
  <1>3. Open = {} /\ MaxTotal \in Nat
    BY ConnectorAssumption DEF Init, Open, Kept, MaxTotal
  <1> QED
    BY <1>1, <1>2, <1>3, SumEmpty DEF Limited, WithinBudget

\* The worker comes to a claim only by the check of the node and the budget.
CheckMoves ==
    worker'.at \in Checking =>
       /\ worker'.order = worker.order
       /\ \/ worker.at \in Checking
          \/ /\ channel' = channel /\ settled' = settled /\ calls' = calls
             /\ \E S \in SUBSET settled :
                   /\ ~OpeningInProgress(S)
                   /\ Exposure(S) + Funding[worker.order] <= MaxTotal

LEMMA CheckMove1 == ASSUME Inv, [Next]_vars PROVE CheckMoves
  <1>1. CASE OpenCheck
    <2> DEFINE ids == {Id(c) : c \in Listed}
    <2>1. worker' = Onward("working") => worker'.at \notin Checking
      BY OnwardType DEF Inv, Checking
    <2>2. worker' = [worker EXCEPT !.at = "checked", !.known = ids]
             => worker'.order = worker.order
      BY DEF Inv, IInv, Types, Workers
    <2>3. channel' = channel /\ settled' = settled /\ calls' = calls
      BY <1>1 DEF OpenCheck, world
    <2>4. PICK S \in SUBSET (Candidates \cap settled) :
             worker' = IF /\ ~OpeningInProgress(S)
                          /\ Exposure(S) + Funding[worker.order] <= MaxTotal
                       THEN [worker EXCEPT !.at = "checked", !.known = ids]
                       ELSE Onward("working")
      BY ZenonT(30), <1>1 DEF OpenCheck
    <2> HIDE DEF ids
    <2> QED
      BY <2>1, <2>2, <2>3, <2>4 DEF CheckMoves
  <1> QED
    BY <1>1, WorkerMove1 DEF WorkerMoves, CheckMoves

LEMMA RememberedNext ==
    ASSUME Inv, Inv', Remembered, [Next]_vars, Approvals = {} PROVE Remembered'
  <1>1. approving' = None
    BY ApprovingMove1 DEF ApprovingMoves, Remembered
  <1>2. /\ worker.copy \in Journals /\ journal \in [Orders -> Journals]
        /\ journal' \in [Orders -> Journals] /\ calls \in [Orders -> Nat]
        /\ worker.at \in Holding => worker.order \in Orders
    BY DEF Inv, IInv, Types, TypeOK
  <1>3. ASSUME NEW o \in Orders
        PROVE  /\ calls'[o] > 0 => journal'[o].attempted
               /\ journal'[o].attempted => journal'[o].funding = Funding[o]
               /\ journal[o].attempted => journal'[o].attempted
    <2>1. ChannelMoves(o) /\ JournalMoves(o)
      BY ChannelMove1, JournalMove1 DEF Channels
    <2>2. /\ calls[o] > 0 => journal[o].attempted
          /\ journal[o].attempted => journal[o].funding = Funding[o]
          /\ worker.at = "saved" /\ worker.order = o => journal[o].attempted
      BY DEF Remembered
    <2>3. /\ journal[o].attempted => journal'[o].attempted
          /\ journal'[o].attempted => journal'[o].funding = Funding[o]
      <3>1. CASE journal'[o] = journal[o]
        BY <2>2, <3>1
      <3>2. CASE worker.order = o /\ worker.at \in Holding
        <4>1. /\ worker.copy.attempted = journal[o].attempted
              /\ worker.copy.funding = journal[o].funding
          BY <3>2 DEF Remembered
        <4>2. \/ journal'[o] = journal[o]
              \/ /\ journal'[o].attempted = worker.copy.attempted
                 /\ journal'[o].funding = worker.copy.funding
              \/ journal'[o].attempted /\ journal'[o].funding = Funding[o]
          BY <1>2, <2>1 DEF JournalMoves, Remembered, Journals
        <4> QED
          BY <2>2, <4>1, <4>2
      <3> QED
        BY <2>1, <3>1, <3>2 DEF JournalMoves, Remembered, Holding
    <2> QED
      BY <2>1, <2>2, <2>3 DEF ChannelMoves
  <1>4. ASSUME worker'.at \in Holding
        PROVE  /\ worker'.copy.attempted = journal'[worker'.order].attempted
               /\ worker'.copy.funding = journal'[worker'.order].funding
               /\ worker'.at = "saved" => journal'[worker'.order].attempted
    <2> DEFINE o == worker'.order
    <2>1. o \in Orders /\ JournalMoves(o)
      BY <1>4, JournalMove1 DEF Inv, IInv, Types
    <2>2. CASE worker.at \in {"observing", "working"} /\ worker'.copy = journal[o]
               /\ worker'.at \in {"located", "read"}
      BY <2>1, <2>2 DEF JournalMoves, Remembered
    <2>3. CASE worker.at \in Holding /\ worker.order = o
      <3>1. /\ worker.copy.attempted = journal[o].attempted
            /\ worker.copy.funding = journal[o].funding
        BY <2>3 DEF Remembered
      <3>2. CASE /\ worker'.copy = worker.copy
                 /\ worker'.at = "saved" => worker.at = "saved"
        <4>1. /\ journal'[o].attempted = journal[o].attempted
              /\ journal'[o].funding = journal[o].funding
          BY <1>2, <2>1, <3>1, <3>2 DEF JournalMoves, Remembered, Journals
        <4> QED
          BY <2>3, <3>1, <3>2, <4>1 DEF Remembered
      <3>3. CASE /\ worker.at = "claimed" /\ worker'.at = "saved"
                 /\ worker'.copy = [worker.copy EXCEPT !.attempted = TRUE,
                                       !.funding = Funding[worker.order],
                                       !.baseline = worker.known]
                 /\ journal' = [journal EXCEPT ![worker.order] = worker'.copy]
        BY <1>2, <2>1, <2>3, <3>3 DEF Journals
      <3>4. CASE /\ worker.at = "saved" /\ worker'.at = "answered"
                 /\ worker'.copy = [worker.copy EXCEPT
                                       !.channel = <<worker.order, "temporary">>]
        BY <1>2, <2>1, <3>1, <3>4 DEF JournalMoves, Remembered, Journals
      <3> QED
        BY <1>4, <2>3, <3>2, <3>3, <3>4, HeldMove1 DEF HeldMoves, Holding
    <2> QED
      BY <1>4, <2>2, <2>3, HeldMove1 DEF HeldMoves
  <1> QED
    BY <1>1, <1>3, <1>4 DEF Remembered, Holding

\* Only the call of the node adds to what is open or unresolved.
LEMMA OpensLess ==
    ASSUME Inv, [Next]_vars, NEW o \in Orders,
           ~(OpenCall /\ worker.order = o)
    PROVE  /\ o \in Open' => o \in Open
           /\ o \in Kept' /\ Unresolved(o)' => o \in Kept /\ Unresolved(o)
  BY ChannelMove1, TakenGrows, ConnectorAssumption
     DEF ChannelMoves, Open, Kept, Unresolved, Channels

LEMMA LimitedNext ==
    ASSUME Traces, Traces', Limited, [Next]_vars, Approvals = {}
    PROVE  Limited'
  <1>1. Remembered'
    BY RememberedNext DEF Traces, Limited
  <1>2. /\ setting' = setting /\ setting \in Settings /\ MaxTotal \in Nat
        /\ MaxTotal' = MaxTotal
    BY ConnectorAssumption DEF Traces, Inv, Next, vars, MaxTotal
  <1>3. /\ IsFiniteSet(Orders) /\ Open \subseteq Orders /\ Open' \subseteq Orders
        /\ Kept \subseteq Orders /\ Kept' \subseteq Kept
        /\ \A o \in Orders : Funding[o] \in Nat
        /\ worker.at \in Checking => worker.order \in Orders
    <2>1. taken \subseteq taken'
      BY TakenGrows
    <2>2. \A o \in Orders : Funding[o] \in Nat
      BY ConnectorAssumption
    <2>3. worker.at \in Checking => worker.order \in Orders
      BY DEF Traces, Inv, IInv, Types, Holding, Checking
    <2>4. IsFiniteSet(Orders)
      BY ConnectorAssumption
    <2> QED
      BY <2>1, <2>2, <2>3, <2>4 DEF Open, Kept
  <1>4. \A T \in SUBSET Orders : /\ IsFiniteSet(T)
                                 /\ SumFunctionOnSet(Funding, T) \in Int
    <2>1. IsFiniteSet(Orders) /\ \A o \in Orders : Funding[o] \in Int
      BY <1>3
    <2>2. \A T \in SUBSET Orders : IsFiniteSet(T)
      BY <2>1, FS_Subset
    <2> QED
      BY <2>1, <2>2, SumType
  <1> DEFINE Total(T) == SumFunctionOnSet(Funding, T)
  <1>5. CASE OpenCall
    <2> DEFINE q == worker.order
    <2>1. worker.at = "saved" /\ q \in Orders
      BY <1>3, <1>5 DEF OpenCall, Checking
    <2>2. Room'
      <3>1. worker'.at \in {"answered", "refused"}
        BY <1>5 DEF OpenCall, Traces, Inv, IInv, Types, Workers
      <3> QED
        BY <3>1 DEF Room, Checking
    <2>3. OneUnresolved'
      <3>1. \A o \in Kept' : Unresolved(o)' => o = q
        BY <1>3, <2>1, OpensLess DEF Limited, Room, Checking, Traces
      <3> QED
        BY <3>1 DEF OneUnresolved, Kept
    <2>4. Total(Open) + Funding[q] <= MaxTotal
      BY <2>1 DEF Limited, Room, Checking
    <2>5. Open' \in SUBSET (Open \cup {q}) /\ Open \cup {q} \subseteq Orders
      BY <1>3, <2>1, OpensLess DEF Traces
    <2>6. Total(Open') <= Total(Open \cup {q})
      BY <1>3, <1>4, <2>5, SumPart
    <2>7. Total(Open \cup {q}) <= Total(Open) + Funding[q]
      <3>1. CASE q \in Open
        <4>1. Open \cup {q} = Open
          BY <3>1
        <4> QED
          BY <1>3, <1>4, <2>1, <4>1
      <3>2. CASE q \notin Open
        <4>0. IsFiniteSet(Open) /\ \A x \in Open \cup {q} : Funding[x] \in Int
          BY <1>3, <1>4, <2>1
        <4> HIDE DEF q
        <4>1. Total(Open \cup {q}) = Funding[q] + Total(Open)
          BY <3>2, <4>0, SumAdd
        <4> QED
          BY <1>3, <1>4, <2>1, <4>1
      <3> QED
        BY <3>1, <3>2
    <2>8. Total(Open') \in Int /\ Total(Open) \in Int /\ Funding[q] \in Int
          /\ Total(Open \cup {q}) \in Int
      BY <1>3, <1>4, <2>1, <2>5
    <2>9. WithinBudget'
      <3>1. Total(Open') <= MaxTotal
        <4> HIDE DEF Total
        <4> QED
          BY <1>2, <2>4, <2>6, <2>7, <2>8
      <3> QED
        BY <1>2, <3>1 DEF WithinBudget
    <2> QED
      BY <1>1, <2>2, <2>3, <2>9 DEF Limited
  <1>6. CASE ~OpenCall
    <2>1. /\ Open' \in SUBSET Open
          /\ \A o \in Kept' : Unresolved(o)' => o \in Kept /\ Unresolved(o)
      BY <1>3, <1>6, OpensLess DEF Traces
    <2>2. Total(Open') <= Total(Open)
      BY <1>3, <1>4, <2>1, SumPart
    <2>3. Total(Open') \in Int /\ Total(Open) \in Int
      BY <1>3, <1>4
    <2>4. OneUnresolved'
      BY <2>1 DEF Limited, OneUnresolved, Kept
    <2>5. WithinBudget'
      BY <1>2, <2>2, <2>3 DEF Limited, WithinBudget
    <2>6. ASSUME worker'.at \in Checking
          PROVE  /\ \A o \in Kept' : ~Unresolved(o)'
                 /\ Total(Open') + Funding[worker'.order] <= MaxTotal
      <3> DEFINE q == worker.order
      <3>1. worker'.order = q /\ q \in Orders /\ Funding[q] \in Int
        <4>1. worker'.order \in Orders
          BY <2>6 DEF Traces, Inv, IInv, Types, Holding, Checking
        <4> QED
          BY <1>3, <2>6, <4>1, CheckMove1 DEF CheckMoves, Traces
      <3>2. CASE worker.at \in Checking
        <4>1. /\ \A o \in Kept : ~Unresolved(o)
              /\ Total(Open) + Funding[q] <= MaxTotal
          BY <3>2 DEF Limited, Room
        <4>2. \A o \in Kept' : ~Unresolved(o)'
          BY <2>1, <4>1
        <4> HIDE DEF Total
        <4>3. Total(Open') + Funding[q] <= MaxTotal
          BY <1>2, <2>2, <2>3, <3>1, <4>1
        <4> QED
          BY <3>1, <4>2, <4>3
      <3>3. CASE worker.at \notin Checking
        <4>1. PICK S \in SUBSET settled :
                 /\ ~OpeningInProgress(S)
                 /\ Exposure(S) + Funding[q] <= MaxTotal
          BY <2>6, <3>3, CheckMove1 DEF CheckMoves, Traces
        <4>2. \A o \in Kept : ~Unresolved(o)
          BY <4>1, NoneInProgress DEF Limited
        <4>3. Total(Open) <= Exposure(S)
          BY ExposureCovers DEF Limited
        <4>4. Exposure(S) \in Int
          BY ExposureType DEF Traces
        <4> HIDE DEF Total
        <4> QED
          BY <1>2, <2>1, <2>2, <2>3, <3>1, <4>1, <4>2, <4>3, <4>4
      <3> QED
        BY <3>2, <3>3
    <2>7. Room'
      BY <1>2, <2>6 DEF Room
    <2> QED
      BY <1>1, <2>4, <2>5, <2>7 DEF Limited
  <1> QED
    BY <1>5, <1>6

Limits == Traces /\ (Approvals = {} => Limited)

LEMMA NextLimits == ASSUME Limits, [Next]_vars PROVE Limits'
  <1>1. Traces' /\ Approvals' = Approvals
    BY NextTraces DEF Limits, Next, vars, Approvals
  <1> QED
    BY <1>1, LimitedNext DEF Limits

LEMMA StartLimits == Init => Limits
  BY StartTraces, InitLimited DEF Limits

(***************************************************************************)
(* While one opening is unresolved the node is asked for no other, as long *)
(* as the worker alone writes the journal (Budget::opening_in_progress).   *)
(***************************************************************************)
THEOREM OneUnresolvedHolds == Spec => []OneUnresolvedAlone
  <1>1. Limits => OneUnresolvedAlone
    BY DEF Limits, Limited, OneUnresolvedAlone
  <1> QED
    BY <1>1, StartLimits, NextLimits, PTL DEF Spec

(***************************************************************************)
(* What all openings not yet settled lock together stays within the        *)
(* operator's limit, whatever answers are lost, ids change, balances are   *)
(* paid away and channels forgotten, as long as the worker alone writes    *)
(* the journal (Budget::exposure, execution::open).                        *)
(***************************************************************************)
THEOREM BudgetHoldsAlways == Spec => []BudgetHolds
  <1>1. Limits => BudgetHolds
    BY DEF Limits, Limited, WithinBudget, Open, Kept, BudgetHolds
  <1> QED
    BY <1>1, StartLimits, NextLimits, PTL DEF Spec
=============================================================================
